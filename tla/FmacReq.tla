------------------------------ MODULE FmacReq ------------------------------
(***************************************************************************)
(* Requests whose caller polls for the answer of the RPU (fmac_api.c and   *)
(* fmac_event.c of the three op modes, fmac_api_common.c, the command      *)
(* builders of fmac_cmd.c).                                                *)
(*                                                                         *)
(* A request clears a flag of the device, sends a command and sleeps       *)
(* until the handler of the answer sets the flag or the caller's patience  *)
(* is at an end.  Nothing in a request or an answer ties the two: an       *)
(* answer that comes after its caller gave up finds the flag of the next   *)
(* request of its kind, and the buffer that was registered last.           *)
(*                                                                         *)
(* One request runs at a time (the code takes no lock for them and leaves  *)
(* that to its caller); the event tasklet runs between any two of its      *)
(* steps.  Answers come in any order, late or never.  Clearing the flags   *)
(* and sending is one step: an answer in between leaves what it leaves     *)
(* when it comes right after; set_reg, which clears its flag once more     *)
(* after sending, has a step for it.                                       *)
(***************************************************************************)
EXTENDS Integers

CONSTANTS
  Modes,      (* the op modes to start in: "SYS", "RT", "ORT"              *)
  Countries,  (* alpha2 codes                                              *)
  Patience,   (* polls before a caller gives up (the timeouts, in polls)   *)
  MAX_CALLS   (* bound: requests                                           *)

ASSUME ReqAssumption ==
  /\ Modes \subseteq {"SYS", "RT", "ORT"}
  /\ Countries # {} /\ "none" \notin Countries
  /\ Patience \in Nat /\ Patience > 1
  /\ MAX_CALLS \in Nat

(* What a caller waits for: the flag, and the event that sets it.          *)
Kinds == {"init", "stats", "radio", "rf", "conf", "getreg", "setreg", "ifflags"}

(* enum nrf_wifi_rf_test; "MAX" stands for no test.                        *)
RfTests == {"rx_cap", "tx_tone", "dpd", "temp", "bat_volt", "rf_rssi", "xo_calib", "xo_tune"}

(* What a request is about: a test, a country, an interface up or down.    *)
Args == RfTests \cup Countries \cup {"none", "up", "down"}

(* Functions that run, and that returned last.                             *)
Ops == {"fw_init", "fw_init_again", "sys_stats_get", "rt_stats_get", "ort_stats_get",
        "stats_refused", "stats_reset", "radio", "rf_test", "bat_volt", "off_raw_tx_conf",
        "off_raw_tx_start", "off_raw_tx_stop", "get_reg", "set_reg", "chg_vif_state",
        "conf_srcoex", "no_memory", "none"}

CallIds == 0 .. MAX_CALLS   (* 0: nobody, or a NULL pointer *)

AtRest == [step |-> "idle", op |-> "none", wait |-> "init", arg |-> "none", limit |-> 0,
           count |-> 0, status |-> "SUCCESS"]

NoChange == [alpha2 |-> "none", user |-> FALSE]

VARIABLES
  mode,
  dev,     (* the fields of the device context that requests use           *)
  calls,   (* requests made so far; the last one may be running            *)
  call,    (* the running request                                          *)
  (* RPU *)
  owed,    (* requests it has received and not answered                    *)
  country, (* its regulatory domain                                        *)
  (* history *)
  seen,    (* [Kinds -> the last answer accepted: to which call, when]     *)
  used,    (* answers that ended the wait of a call                        *)
  reused,  (* an answer ended the waits of two                             *)
  wild,    (* writes to a buffer whose call had returned, or to NULL       *)
  gave_up, (* kinds of requests whose caller gave up                       *)
  hasty,   (* one of them had no patience at all                           *)
  unsent,  (* kinds of requests whose command could not be sent            *)
  denied,  (* the last regulatory change found no memory                   *)
  result   (* of the last call: what it returned, whether it was answered  *)

rpu   == <<owed, country>>
waits == <<used, reused, gave_up, hasty>>
vars  == <<mode, dev, calls, call, rpu, seen, waits, wild, unsent, denied, result>>

DevFields ==
  [fw_init_done : BOOLEAN,
   stats_req : BOOLEAN, fw_stats : CallIds,
   radio_cmd_done : BOOLEAN, radio_cmd_status : {"ok", "bad"},
   rf_test_type : RfTests \cup {"MAX"}, rf_test_cap_data : CallIds,
   off_raw_tx_cmd_done : BOOLEAN, off_raw_tx_cmd_status : {"ok", "bad"},
   alpha2_valid : BOOLEAN, alpha2 : Countries \cup {"none"}, reg_chan_info : CallIds,
   reg_set_status : BOOLEAN, waiting_for_reg_event : BOOLEAN,
   reg_change : {NoChange} \cup [alpha2 : Countries, user : BOOLEAN],
   ifflags : BOOLEAN, bcast_peer : BOOLEAN]

Calls ==
  [step : {"idle", "sent", "poll", "finish"}, op : Ops, wait : Kinds,
   arg : Args,
   limit : {0, Patience}, count : 0 .. Patience, status : {"SUCCESS", "FAIL"}]

TypeOK ==
  /\ mode \in Modes
  /\ dev \in DevFields
  /\ calls \in CallIds /\ call \in Calls
  /\ owed \subseteq [kind : Kinds, by : CallIds, arg : Args]
  /\ country \in Countries
  /\ seen \in [Kinds -> [by : CallIds, during : CallIds]]
  /\ used \subseteq Kinds \X CallIds /\ reused \in BOOLEAN
  /\ wild \subseteq {"stats", "rf", "getreg"} \X {"stale", "null"}
  /\ gave_up \subseteq Kinds /\ hasty \in BOOLEAN /\ unsent \subseteq Kinds
  /\ denied \in BOOLEAN
  /\ result \in [op : Ops, wait : Kinds, status : {"SUCCESS", "FAIL"},
                 answered : BOOLEAN]

(* The contexts are zeroed when allocated: rf_test_type 0 is the capture.  *)
(* The RPU is initialised (dev_init calls fw_init), or still to be.        *)
Init ==
  /\ mode \in Modes
  /\ \E booted \in BOOLEAN :
     dev = [fw_init_done |-> booted, stats_req |-> FALSE, fw_stats |-> 0,
            radio_cmd_done |-> FALSE, radio_cmd_status |-> "ok",
            rf_test_type |-> "rx_cap", rf_test_cap_data |-> 0,
            off_raw_tx_cmd_done |-> FALSE, off_raw_tx_cmd_status |-> "ok",
            alpha2_valid |-> FALSE, alpha2 |-> "none", reg_chan_info |-> 0,
            reg_set_status |-> FALSE, waiting_for_reg_event |-> FALSE,
            reg_change |-> NoChange, ifflags |-> FALSE, bcast_peer |-> FALSE]
  /\ calls = 0
  /\ call = AtRest
  /\ owed = {} /\ country \in Countries
  /\ seen = [k \in Kinds |-> [by |-> 0, during |-> 0]]
  /\ used = {} /\ reused = FALSE /\ wild = {} /\ gave_up = {} /\ hasty = FALSE /\ unsent = {}
  /\ denied = FALSE
  /\ result = [op |-> "none", wait |-> "init", status |-> "FAIL", answered |-> FALSE]

(***************************************************************************)
(* Sending.                                                                *)
(***************************************************************************)

Idle == call.step = "idle"
me   == calls + 1   (* the number of the request about to start *)

NewCall(op, w, arg, limit, step, status) ==
  [step |-> step, op |-> op, wait |-> w, arg |-> arg, limit |-> limit, count |-> 0,
   status |-> status]

(* A function returns: by then its buffers are its caller's again.         *)
Return(op, w, status, answered) ==
  /\ call' = AtRest
  /\ result' = [op |-> op, wait |-> w, status |-> status, answered |-> answered]

(* A command as its builder puts it together: the answer it asks for, what *)
(* it is about, and whether it is refused before the RPU is initialised.   *)
Command(kind, arg, gated) == [kind |-> kind, arg |-> arg, gated |-> gated]

umac_cmd_sys_init             == Command("init", "none", FALSE)
umac_cmd_rt_init              == Command("init", "none", FALSE)
umac_cmd_off_raw_tx_init      == Command("init", "none", FALSE)
umac_cmd_sys_prog_stats_get   == Command("stats", "none", FALSE)
umac_cmd_rt_prog_stats_get    == Command("stats", "none", FALSE)
umac_cmd_off_raw_tx_prog_stats_get == Command("stats", "none", FALSE)
umac_cmd_rt_prog_init         == Command("radio", "none", FALSE)
umac_cmd_rt_prog_tx           == Command("radio", "none", FALSE)
umac_cmd_rt_prog_rx           == Command("radio", "none", FALSE)
umac_cmd_rt_prog_rf_test(t)   == Command("rf", t, FALSE)
umac_cmd_off_raw_tx_conf      == Command("conf", "none", TRUE)
umac_cmd_off_raw_tx_ctrl      == Command("none", "none", TRUE)
umac_cmd_prog_stats_reset     == Command("none", "none", FALSE)
umac_cmd_srcoex               == Command("none", "none", FALSE)
umac_cmd_cfg(kind, arg)       == Command(kind, arg, TRUE)

CanSend(c)   == c.gated => dev.fw_init_done
Sent(c, n)   == owed' = owed \cup {[kind |-> c.kind, by |-> n, arg |-> c.arg]}
NotSent(c)   == unsent' = unsent \cup {c.kind}

(* The command is sent, or there is no memory for it, the gate is shut or  *)
(* the HAL refuses it, and the request fails with its flags as they are.   *)
Ask(op, c, arg, limit, d) ==
  /\ Idle /\ calls < MAX_CALLS
  /\ calls' = me
  /\ dev' = d
  /\ \/ /\ CanSend(c) /\ Sent(c, me)
        /\ call' = NewCall(op, c.kind, arg, limit, "poll", "SUCCESS")
        /\ UNCHANGED <<unsent, result>>
     \/ /\ NotSent(c)
        /\ Return(op, c.kind, "FAIL", FALSE)
        /\ UNCHANGED owed
  /\ UNCHANGED <<mode, country, seen, waits, wild, denied>>

(* No memory for the command of a function that allocates it first.        *)
NoMemory ==
  /\ Idle /\ calls < MAX_CALLS
  /\ calls' = me
  /\ Return("no_memory", "getreg", "FAIL", FALSE)
  /\ UNCHANGED <<mode, dev, rpu, seen, waits, wild, denied, unsent>>

(***************************************************************************)
(* The requests, one definition for each function of the API.              *)
(***************************************************************************)

(* The flag is never cleared: a second call finds it set.                  *)
FwInit(c) ==
  Ask(IF dev.fw_init_done THEN "fw_init_again" ELSE "fw_init", c, "none", Patience, dev)

sys_fw_init == mode = "SYS" /\ FwInit(umac_cmd_sys_init)
rt_fw_init  == mode = "RT"  /\ FwInit(umac_cmd_rt_init)
ort_fw_init == mode = "ORT" /\ FwInit(umac_cmd_off_raw_tx_init)

StatsGet(op, c) ==
  /\ ~dev.stats_req
  /\ Ask(op, c, "none", Patience, [dev EXCEPT !.stats_req = TRUE, !.fw_stats = me])

sys_stats_get == mode = "SYS" /\ StatsGet("sys_stats_get", umac_cmd_sys_prog_stats_get)
rt_stats_get  == mode = "RT"  /\ StatsGet("rt_stats_get", umac_cmd_rt_prog_stats_get)
ort_stats_get == mode = "ORT" /\ StatsGet("ort_stats_get", umac_cmd_off_raw_tx_prog_stats_get)

(* "Stats request already pending".                                        *)
StatsRefused ==
  /\ dev.stats_req /\ Idle /\ calls < MAX_CALLS
  /\ calls' = me
  /\ Return("stats_refused", "stats", "FAIL", FALSE)
  /\ UNCHANGED <<mode, dev, rpu, seen, waits, wild, denied, unsent>>

(* Waits while a request for statistics is pending, which is none of its   *)
(* own: the RPU has no answer for it.                                      *)
stats_reset ==
  /\ Idle /\ calls < MAX_CALLS
  /\ calls' = me
  /\ \/ /\ CanSend(umac_cmd_prog_stats_reset)
        /\ call' = NewCall("stats_reset", "stats", "none", Patience, "poll", "SUCCESS")
        /\ UNCHANGED result
     \/ Return("stats_reset", "stats", "FAIL", FALSE)
  /\ UNCHANGED <<mode, dev, rpu, seen, waits, wild, denied, unsent>>

(* Mutant: the flag of the last command is left set.                       *)
RadioStillDone(c) ==
  /\ mode = "RT"
  /\ Ask("radio", c, "none", Patience, dev)

Radio(c) ==
  /\ mode = "RT"
  /\ Ask("radio", c, "none", Patience, [dev EXCEPT !.radio_cmd_done = FALSE])

radio_test_init == Radio(umac_cmd_rt_prog_init)
prog_tx         == Radio(umac_cmd_rt_prog_tx)
prog_rx         == Radio(umac_cmd_rt_prog_rx)

RfTest(op, test, data, limit) ==
  /\ mode = "RT"
  /\ Ask(op, umac_cmd_rt_prog_rf_test(test), test, limit,
         [dev EXCEPT !.rf_test_type = test, !.rf_test_cap_data = data])

(* Its patience is a multiple of capture_timeout, which may be zero.       *)
rf_test_rx_cap     == \E limit \in {0, Patience} :
                        RfTest("rf_test", "rx_cap", me, limit)
rf_test_tx_tone    == RfTest("rf_test", "tx_tone", 0, Patience)
rf_test_dpd        == RfTest("rf_test", "dpd", 0, Patience)
rf_get_temp        == RfTest("rf_test", "temp", 0, Patience)
rf_get_bat_volt    == RfTest("bat_volt", "bat_volt", 0, Patience)
rf_get_rf_rssi     == RfTest("rf_test", "rf_rssi", 0, Patience)
set_xo_val         == RfTest("rf_test", "xo_calib", 0, Patience)
rf_test_compute_xo == RfTest("rf_test", "xo_tune", 0, Patience)

(* The flag is named done and set while the command is not.                *)
off_raw_tx_conf ==
  /\ mode = "ORT"
  /\ Ask("off_raw_tx_conf", umac_cmd_off_raw_tx_conf, "none", Patience,
         [dev EXCEPT !.off_raw_tx_cmd_done = TRUE])

AskReg(op, arg, info) ==
  /\ mode \in {"RT", "ORT"}
  /\ Ask(op, umac_cmd_cfg("getreg", "none"), arg, Patience,
         [dev EXCEPT !.alpha2_valid = FALSE, !.reg_chan_info = info])

get_reg == AskReg("get_reg", "none", me)

(* Asks for the present domain first, without a buffer for its channels.   *)
set_reg == \E a \in Countries : AskReg("set_reg", a, 0)

(* The flag is polled even if the command was not sent.                    *)
chg_vif_state ==
  /\ mode = "SYS" /\ Idle /\ calls < MAX_CALLS
  /\ calls' = me
  /\ dev' = [dev EXCEPT !.ifflags = FALSE]
  /\ \E s \in {"up", "down"} :
       \/ /\ CanSend(umac_cmd_cfg("ifflags", s)) /\ Sent(umac_cmd_cfg("ifflags", s), me)
          /\ call' = NewCall("chg_vif_state", "ifflags", s, Patience, "poll", "SUCCESS")
          /\ UNCHANGED unsent
       \/ /\ call' = NewCall("chg_vif_state", "ifflags", s, Patience, "poll", "FAIL")
          /\ NotSent(umac_cmd_cfg("ifflags", s))
          /\ UNCHANGED owed
  /\ UNCHANGED <<mode, country, seen, waits, wild, denied, result>>

(* Commands the RPU does not answer.                                       *)
Tell(op, c) ==
  /\ Idle /\ calls < MAX_CALLS
  /\ calls' = me
  /\ \/ CanSend(c) /\ Return(op, "conf", "SUCCESS", FALSE)
     \/ Return(op, "conf", "FAIL", FALSE)
  /\ UNCHANGED <<mode, dev, rpu, seen, waits, wild, denied, unsent>>

conf_srcoex      == Tell("conf_srcoex", umac_cmd_srcoex)
off_raw_tx_start == mode = "ORT" /\ Tell("off_raw_tx_start", umac_cmd_off_raw_tx_ctrl)
off_raw_tx_stop  == mode = "ORT" /\ Tell("off_raw_tx_stop", umac_cmd_off_raw_tx_ctrl)

(***************************************************************************)
(* Waiting.                                                                *)
(***************************************************************************)

Pending(w) ==
  CASE w = "init"    -> ~dev.fw_init_done
    [] w = "stats"   -> dev.stats_req
    [] w = "radio"   -> ~dev.radio_cmd_done
    [] w = "rf"      -> dev.rf_test_type # "MAX"
    [] w = "conf"    -> dev.off_raw_tx_cmd_done
    [] w = "getreg"  -> ~dev.alpha2_valid
    [] w = "setreg"  -> ~dev.reg_set_status
    [] w = "ifflags" -> ~dev.ifflags

Stop  == call' = [call EXCEPT !.count = @ + 1, !.step = "finish"]
Sleep == call' = [call EXCEPT !.count = @ + 1]

(* Mutant: the caller polls until it is answered.                          *)
SleepForever ==
  /\ call.step = "poll" /\ call.wait \in {"stats", "radio", "rf", "conf", "getreg"}
  /\ IF Pending(call.wait) THEN UNCHANGED call ELSE Stop
  /\ UNCHANGED <<mode, dev, calls, rpu, seen, waits, wild, denied, unsent, result>>

(* do { sleep; count++ } while (pending && count < limit): with a limit of *)
(* zero the caller sleeps once.                                            *)
SleepThenLook ==
  /\ call.step = "poll" /\ call.wait \in {"stats", "radio", "rf", "conf", "getreg"}
  /\ IF Pending(call.wait) /\ call.count + 1 < call.limit THEN Sleep ELSE Stop
  /\ UNCHANGED <<mode, dev, calls, rpu, seen, waits, wild, denied, unsent, result>>

(* while (pending && within the limit) sleep.                              *)
LookThenSleep ==
  /\ call.step = "poll" /\ call.wait \in {"init", "setreg", "ifflags"}
  /\ \/ ~Pending(call.wait) /\ call' = [call EXCEPT !.step = "finish"]
     \/ Pending(call.wait) /\ IF call.count + 1 < call.limit THEN Sleep ELSE Stop
  /\ UNCHANGED <<mode, dev, calls, rpu, seen, waits, wild, denied, unsent, result>>

(* What the functions that count take for a time-out, even if the answer   *)
(* came in the last sleep.  With a limit of zero they never see one.       *)
TimedOut == call.count = call.limit

(* The history of a wait that ends: the answer that ended it, if any.      *)
Account(w) ==
  /\ gave_up' = IF Pending(w) THEN gave_up \cup {w} ELSE gave_up
  /\ hasty' = (hasty \/ (Pending(w) /\ call.limit = 0))
  /\ IF Pending(w) \/ seen[w].by = 0
     THEN UNCHANGED <<used, reused>>
     ELSE /\ used' = used \cup {<<w, seen[w].by>>}
          /\ reused' = (reused \/ <<w, seen[w].by>> \in used)

Answered(w) == seen[w].during = calls

(* Function w is left with the status and the device as given.             *)
Finish(w, status, d) ==
  /\ dev' = d
  /\ Account(w)
  /\ Return(call.op, w, status, Answered(w))
  /\ UNCHANGED <<mode, calls, rpu, seen, wild, denied, unsent>>

Finishing(ops) == call.step = "finish" /\ call.op \in ops

(* The flag alone decides.                                                 *)
InitDone ==
  /\ Finishing({"fw_init"})
  /\ Finish("init", IF Pending("init") THEN "FAIL" ELSE "SUCCESS", dev)

(* ... so that a second call succeeds, whatever becomes of its command.    *)
InitAgainDone ==
  /\ Finishing({"fw_init_again"})
  /\ Return("fw_init_again", "init", "SUCCESS", FALSE)
  /\ UNCHANGED <<mode, dev, calls, rpu, seen, waits, wild, denied, unsent>>

(* Mutant: the request stays pending.                                      *)
SysStatsKept ==
  /\ Finishing({"sys_stats_get"})
  /\ Finish("stats", IF TimedOut THEN "FAIL" ELSE "SUCCESS", dev)

SysStatsDone ==
  /\ Finishing({"sys_stats_get"})
  /\ IF TimedOut THEN Finish("stats", "FAIL", [dev EXCEPT !.stats_req = FALSE])
                 ELSE Finish("stats", "SUCCESS", dev)

(* A time-out returns the status of the send, and withdraws nothing.       *)
OtherStatsDone ==
  /\ Finishing({"rt_stats_get", "ort_stats_get"})
  /\ Finish("stats", "SUCCESS", dev)

StatsResetDone ==
  /\ Finishing({"stats_reset"})
  /\ Return("stats_reset", "stats", "SUCCESS", FALSE)
  /\ UNCHANGED <<mode, dev, calls, rpu, seen, waits, wild, denied, unsent>>

wait_for_radio_cmd_status ==
  /\ Finishing({"radio"})
  /\ Finish("radio", IF TimedOut \/ dev.radio_cmd_status # "ok" THEN "FAIL" ELSE "SUCCESS",
            dev)

(* The request is withdrawn when it times out.                             *)
RfTestDone ==
  /\ Finishing({"rf_test"})
  /\ IF TimedOut
     THEN Finish("rf", "FAIL",
                 [dev EXCEPT !.rf_test_type = "MAX", !.rf_test_cap_data = 0])
     ELSE Finish("rf", "SUCCESS", dev)

(* ... but for this one, which only logs it.                               *)
BatVoltDone ==
  /\ Finishing({"bat_volt"})
  /\ Finish("rf", "SUCCESS", dev)

(* A configuration the RPU refused: the regulatory domain is asked for, to *)
(* log it, again without a buffer.                                         *)
ConfDone ==
  /\ Finishing({"off_raw_tx_conf"}) /\ call.wait = "conf"
  /\ \/ /\ TimedOut \/ dev.off_raw_tx_cmd_status = "ok"
        /\ Finish("conf", "SUCCESS", dev)
     \/ /\ ~TimedOut /\ dev.off_raw_tx_cmd_status # "ok"
        /\ dev' = [dev EXCEPT !.alpha2_valid = FALSE, !.reg_chan_info = 0]
        /\ Account("conf")
        /\ \/ /\ call' = [call EXCEPT !.wait = "getreg", !.step = "poll", !.count = 0]
              /\ Sent(umac_cmd_cfg("getreg", "none"), calls)
              /\ UNCHANGED <<unsent, result>>
           \/ /\ Return(call.op, "conf", "FAIL", Answered("conf"))
              /\ NotSent(umac_cmd_cfg("getreg", "none"))
              /\ UNCHANGED owed
        /\ UNCHANGED <<mode, calls, country, seen, wild, denied>>

ConfRegDone ==
  /\ Finishing({"off_raw_tx_conf"}) /\ call.wait = "getreg"
  /\ Finish("getreg", "FAIL", dev)

(* A time-out returns the status of the send: SUCCESS.                     *)
GetRegDone == Finishing({"get_reg"}) /\ Finish("getreg", "SUCCESS", dev)

(* set_reg knows the present domain, or an empty one if nobody answered.   *)
(* No memory for the command then leaves status SUCCESS.                   *)
Current == IF dev.alpha2_valid THEN dev.alpha2 ELSE "none"

SameReg ==
  /\ Finishing({"set_reg"}) /\ call.wait = "getreg"
  /\ Finish("getreg", "SUCCESS", dev)

NewReg ==
  /\ Finishing({"set_reg"}) /\ call.wait = "getreg" /\ Current # call.arg
  /\ dev' = [dev EXCEPT !.reg_set_status = FALSE, !.waiting_for_reg_event = TRUE]
  /\ Account("getreg")
  /\ \/ /\ call' = [call EXCEPT !.wait = "setreg", !.step = "sent", !.count = 0]
        /\ Sent(umac_cmd_cfg("setreg", call.arg), calls)
        /\ UNCHANGED <<unsent, result>>
     \/ /\ Return(call.op, "setreg", "FAIL", FALSE)
        /\ NotSent(umac_cmd_cfg("setreg", call.arg))
        /\ UNCHANGED owed
  /\ UNCHANGED <<mode, calls, country, seen, wild, denied>>

(* The flag is cleared once more after the command is sent.                *)
ClearRegStatus ==
  /\ call.step = "sent"
  /\ dev' = [dev EXCEPT !.reg_set_status = FALSE]
  /\ call' = [call EXCEPT !.step = "poll"]
  /\ UNCHANGED <<mode, calls, rpu, seen, waits, wild, denied, unsent, result>>

(* A change that is not there is read all the same, at address 0.          *)
Verdicts ==
  CASE dev.reg_change = NoChange -> {"SUCCESS", "FAIL"}
    [] dev.reg_change = [alpha2 |-> call.arg, user |-> TRUE] -> {"SUCCESS"}
    [] OTHER -> {"FAIL"}

SetRegDone ==
  /\ Finishing({"set_reg"}) /\ call.wait = "setreg"
  /\ IF Pending("setreg")
     THEN Finish("setreg", "FAIL", dev)
     ELSE \E status \in Verdicts :
            Finish("setreg", status,
                   [dev EXCEPT !.waiting_for_reg_event = FALSE, !.reg_change = NoChange])

(* count is decremented before it is compared: zero is a time-out.         *)
IfFlagsDone ==
  /\ Finishing({"chg_vif_state"})
  /\ IF TimedOut THEN Finish("ifflags", "FAIL", dev)
     ELSE \E ap \in BOOLEAN :
            Finish("ifflags", call.status,
                   IF ap THEN [dev EXCEPT !.bcast_peer = (call.arg = "up")] ELSE dev)

(***************************************************************************)
(* Answers, in the handlers of the events.                                 *)
(***************************************************************************)

Live(n) == n = calls /\ ~Idle   (* the buffers of call n are still its own *)

Write(buffer, n) ==
  wild' = IF Live(n) THEN wild
          ELSE wild \cup {<<buffer, IF n = 0 THEN "null" ELSE "stale">>}

(* An answer a is accepted: the event it makes changes the device to d.    *)
Accept(a, d) ==
  /\ dev' = d
  /\ seen' = [seen EXCEPT ![a.kind] = [by |-> a.by, during |-> IF Idle THEN 0 ELSE calls]]

Ignore == UNCHANGED <<dev, seen>>

INIT_DONE(a) == Accept(a, [dev EXCEPT !.fw_init_done = TRUE]) /\ UNCHANGED wild

(* umac_event_*_stats_process, the same in the three modes.                *)
stats_process(a) ==
  \/ dev.stats_req /\ Accept(a, [dev EXCEPT !.stats_req = FALSE])
     /\ Write("stats", dev.fw_stats)
  \/ ~dev.stats_req /\ Ignore /\ UNCHANGED wild

rf_test_process(a) ==
  \/ /\ a.arg = dev.rf_test_type
     /\ Accept(a, [dev EXCEPT !.rf_test_type = "MAX"])
     /\ IF a.arg = "rx_cap" THEN Write("rf", dev.rf_test_cap_data) ELSE UNCHANGED wild
  \/ a.arg # dev.rf_test_type /\ Ignore /\ UNCHANGED wild

RADIOCMD_STATUS(a) ==
  /\ \E st \in {"ok", "bad"} :
       Accept(a, [dev EXCEPT !.radio_cmd_status = st, !.radio_cmd_done = TRUE])
  /\ UNCHANGED wild

OFFLOADED_RAWTX_STATUS(a) ==
  /\ \E st \in {"ok", "bad"} :
       Accept(a, [dev EXCEPT !.off_raw_tx_cmd_status = st, !.off_raw_tx_cmd_done = FALSE])
  /\ UNCHANGED wild

(* The channels are copied to reg_chan_info, whatever it points to.        *)
GET_REG(a) ==
  /\ Accept(a, [dev EXCEPT !.alpha2 = country, !.alpha2_valid = TRUE])
  /\ Write("getreg", dev.reg_chan_info)

(* Radio test copies the change to memory it gets for it.  If there is     *)
(* none, the pointer is NULL already and the flag stays as it is, set by   *)
(* an earlier change perhaps.                                              *)
REG_CHANGE(a, change) ==
  /\ \/ /\ Accept(a, [dev EXCEPT !.reg_change = change, !.reg_set_status = TRUE])
        /\ denied' = FALSE
     \/ /\ dev' = [dev EXCEPT !.reg_change = NoChange]
        /\ denied' = TRUE
        /\ UNCHANGED seen
  /\ UNCHANGED wild

(* A negative status is ignored.                                           *)
IFFLAGS_STATUS(a) ==
  /\ Accept(a, [dev EXCEPT !.ifflags = TRUE]) \/ Ignore
  /\ UNCHANGED wild

(* The events the callback of each mode knows what to do with.             *)
sys_proc_events(a) ==
  \/ a.kind = "init"  /\ INIT_DONE(a)
  \/ a.kind = "stats" /\ stats_process(a)

rt_proc_events(a) ==
  \/ a.kind = "init"  /\ INIT_DONE(a)
  \/ a.kind = "stats" /\ stats_process(a)
  \/ a.kind = "rf"    /\ rf_test_process(a)
  \/ a.kind = "radio" /\ RADIOCMD_STATUS(a)

off_raw_tx_proc_events(a) ==
  \/ a.kind = "init"  /\ INIT_DONE(a)
  \/ a.kind = "stats" /\ stats_process(a)
  \/ a.kind = "conf"  /\ OFFLOADED_RAWTX_STATUS(a)

rt_ctrl_process(a) ==
  \/ a.kind = "getreg" /\ GET_REG(a) /\ UNCHANGED denied
  \/ a.kind = "setreg" /\ REG_CHANGE(a, [alpha2 |-> a.arg, user |-> a.by # 0])

(* No handler for a regulatory change: set_reg waits in vain.              *)
off_raw_tx_ctrl_process(a) ==
  \/ a.kind = "getreg" /\ GET_REG(a)
  \/ a.kind = "setreg" /\ Ignore /\ UNCHANGED wild

sys_fmac_event_callback(a) ==
  /\ mode = "SYS" /\ (sys_proc_events(a) \/ (a.kind = "ifflags" /\ IFFLAGS_STATUS(a)))
  /\ UNCHANGED denied
rt_fmac_event_callback(a) ==
  mode = "RT" /\ ((rt_proc_events(a) /\ UNCHANGED denied) \/ rt_ctrl_process(a))
off_raw_tx_fmac_event_callback(a) ==
  /\ mode = "ORT" /\ (off_raw_tx_proc_events(a) \/ off_raw_tx_ctrl_process(a))
  /\ UNCHANGED denied

Event(a) ==
  /\ \/ sys_fmac_event_callback(a)
     \/ rt_fmac_event_callback(a)
     \/ off_raw_tx_fmac_event_callback(a)
  /\ country' = IF a.kind = "setreg" THEN a.arg ELSE country
  /\ UNCHANGED <<mode, calls, call, waits, unsent, result>>

(* The RPU answers one of the requests; it changes its domain for one.     *)
Answer == \E a \in owed : owed' = owed \ {a} /\ Event(a)

(* The RPU changes its domain on its own, after a beacon for example.      *)
DomainChanges ==
  /\ mode # "SYS"
  /\ \E c \in Countries \ {country} : Event([kind |-> "setreg", by |-> 0, arg |-> c])
  /\ UNCHANGED owed

(***************************************************************************)
(* Specification.                                                          *)
(***************************************************************************)

Requests ==
  \/ sys_fw_init \/ rt_fw_init \/ ort_fw_init \/ NoMemory \/ conf_srcoex
  \/ sys_stats_get \/ rt_stats_get \/ ort_stats_get \/ StatsRefused \/ stats_reset
  \/ radio_test_init \/ prog_tx \/ prog_rx
  \/ rf_test_rx_cap \/ rf_test_tx_tone \/ rf_test_dpd \/ rf_get_temp \/ rf_get_bat_volt
  \/ rf_get_rf_rssi \/ set_xo_val \/ rf_test_compute_xo
  \/ off_raw_tx_conf \/ off_raw_tx_start \/ off_raw_tx_stop
  \/ get_reg \/ set_reg \/ chg_vif_state

Waiting ==
  \/ SleepThenLook \/ LookThenSleep \/ ClearRegStatus
  \/ InitDone \/ InitAgainDone \/ SysStatsDone \/ OtherStatsDone \/ StatsResetDone
  \/ wait_for_radio_cmd_status \/ RfTestDone \/ BatVoltDone
  \/ ConfDone \/ ConfRegDone \/ GetRegDone \/ SameReg \/ NewReg \/ SetRegDone
  \/ IfFlagsDone

Next == Requests \/ Waiting \/ Answer \/ DomainChanges

(* A caller that polls is a thread that runs on: its sleeps end.           *)
Spec == Init /\ [][Next]_vars /\ WF_vars(Waiting)

(***************************************************************************)
(* Properties.                                                             *)
(***************************************************************************)

(* Requests that report what the RPU did: of these, a function that        *)
(* returned success was answered while it ran.  (Not of those that return  *)
(* the status of the send after a time-out: OtherStatsDone, BatVoltDone,   *)
(* GetRegDone, SameReg and ConfDone, nor of a capture without patience.)   *)
Trusted(r) ==
  \/ r.op \in {"fw_init", "sys_stats_get", "chg_vif_state"}
  \/ r.wait \in {"radio", "setreg"}
  \/ r.wait = "rf" /\ r.op # "bat_volt" /\ ~hasty

TrueSuccess == result.status = "SUCCESS" /\ Trusted(result) => result.answered

(* set_reg dereferences reg_change as soon as the flag is set: the change  *)
(* is there, unless another one came after it and found no memory.         *)
RegChangeThere ==
  call.wait = "setreg" /\ call.step \in {"poll", "finish"} /\ dev.reg_set_status
    => dev.reg_change # NoChange \/ denied

(* A success means that the RPU answered during the call, an answer ends   *)
(* the wait of one call at most, and the change set_reg reads is there but *)
(* for the case RegChangeThere names: each flag is cleared before its      *)
(* command is sent.                                                        *)
AnswersMatch == TrueSuccess /\ ~reused /\ RegChangeThere

(* The handlers write to the buffers of a running call only, but for these *)
(* cases: statistics whose caller gave up (in system mode, only if a later *)
(* request could not be sent, whose buffer stayed registered); a capture   *)
(* without patience, or one given up and followed by one not sent; a       *)
(* get_reg given up; and the channels a set_reg or a refused configuration *)
(* has no buffer for.                                                      *)
StaleWrites ==
  /\ <<"stats", "stale">> \in wild =>
        "stats" \in gave_up /\ (mode # "SYS" \/ "stats" \in unsent)
  /\ <<"rf", "stale">> \in wild => hasty \/ ("rf" \in gave_up /\ "rf" \in unsent)
  /\ <<"getreg", "stale">> \in wild => "getreg" \in gave_up
  /\ <<"stats", "null">> \notin wild /\ <<"rf", "null">> \notin wild

(* Statistics can be asked for again after every request, but for one that *)
(* was not sent or, outside system mode, was given up: it stays pending    *)
(* until an answer comes, and all later ones are refused.                  *)
NotStuck ==
  Idle /\ dev.stats_req =>
    "stats" \in unsent \/ (mode # "SYS" /\ "stats" \in gave_up)

(* A request leaves nothing registered that an answer could find.          *)
NothingLeft == StaleWrites /\ NotStuck

(* Every request returns, whatever the RPU answers.                        *)
Returns == (call.step # "idle") ~> Idle

=============================================================================
