--------------------------- MODULE FmacReqProofs ---------------------------
(***************************************************************************)
(* Proofs about the polled requests (FmacReq), for any op modes and        *)
(* countries, any patience and any number of requests.                     *)
(*                                                                         *)
(* The invariant says where the answers under way come from.  Requests     *)
(* are numbered, and the RPU owes one answer at most of a kind to each.    *)
(* An answer that is owed is the running call's, whose flag is not set     *)
(* yet, or somebody gave up waiting for one of its kind.                   *)
(***************************************************************************)
EXTENDS FmacReq, TLAPS

USE ReqAssumption

StatsOps == {"sys_stats_get", "rt_stats_get", "ort_stats_get"}

(* Which function waits for what, for how long, and in which mode.         *)
CallRight ==
  IF Idle THEN call.op = "none" ELSE
    /\ calls > 0
    /\ \/ call.op \in {"fw_init", "fw_init_again"} /\ call.wait = "init"
       \/ call.op \in StatsOps \cup {"stats_reset"} /\ call.wait = "stats"
       \/ call.op = "radio" /\ call.wait = "radio"
       \/ call.op \in {"rf_test", "bat_volt"} /\ call.wait = "rf"
       \/ call.op = "off_raw_tx_conf" /\ call.wait \in {"conf", "getreg"}
       \/ call.op = "get_reg" /\ call.wait = "getreg"
       \/ call.op = "set_reg" /\ call.wait \in {"getreg", "setreg"} /\ call.arg \in Countries
       \/ call.op = "chg_vif_state" /\ call.wait = "ifflags"
    /\ call.op # "rf_test" => call.limit = Patience
    /\ call.op = "sys_stats_get" => mode = "SYS"
    /\ call.op \in {"rt_stats_get", "ort_stats_get"} => mode # "SYS"
    /\ call.step = "sent" => call.wait = "setreg" /\ call.count = 0

(* A caller stops at its limit or because the flag is set.                 *)
Polls ==
  /\ call.step = "poll" => call.count < call.limit \/ (call.limit = 0 /\ call.count = 0)
  /\ call.step = "finish" => call.count = call.limit \/ call.limit = 0 \/ ~Pending(call.wait)

(* It waits for an answer of its own.                                      *)
Real == ~Idle /\ call.op \notin {"stats_reset", "fw_init_again"}

(* The flag it waits for was set while it ran, by an answer that has not   *)
(* ended a wait.                                                           *)
Fresh ==
  Real =>
    \/ call.step = "sent" \/ Pending(call.wait)
    \/ /\ seen[call.wait].during = calls
       /\ seen[call.wait].by = 0 \/ <<call.wait, seen[call.wait].by>> \notin used

(* Nothing is known of an answer of kind k to request n.                   *)
Untouched(k, n) ==
  /\ seen[k].by # n /\ <<k, n>> \notin used
  /\ \A a \in owed : ~(a.kind = k /\ a.by = n)

Numbered ==
  /\ \A a \in owed : /\ a.by \in 1 .. calls /\ <<a.kind, a.by>> \notin used
                     /\ seen[a.kind].by # a.by
                     /\ a.kind = "setreg" => a.arg \in Countries
  /\ \A a, b \in owed : a.kind = b.kind /\ a.by = b.by => a = b
  /\ \A k \in Kinds, n \in Nat : n > calls => Untouched(k, n)
  /\ call.op = "set_reg" /\ call.wait = "getreg" => Untouched("setreg", calls)
  /\ call.op = "off_raw_tx_conf" /\ call.wait = "conf" => Untouched("getreg", calls)

(* The answers that find a buffer.                                         *)
Outstanding ==
  \A a \in owed :
    a.kind \in {"stats", "rf", "getreg"} =>
      \/ a.kind \in gave_up
      \/ a.by = calls /\ Real /\ call.wait = a.kind /\ Pending(a.kind)

(* The buffers that are registered.                                        *)
StatsBuffer ==
  /\ dev.stats_req => dev.fw_stats # 0
  /\ ~Idle /\ call.op \in StatsOps => dev.fw_stats = calls
  /\ dev.stats_req => \/ ~Idle /\ call.op \in StatsOps
                      \/ "stats" \in unsent
                      \/ mode # "SYS" /\ "stats" \in gave_up

RfBuffer ==
  dev.rf_test_type = "rx_cap" =>
    \/ ~Idle /\ call.op = "rf_test" /\ dev.rf_test_cap_data = calls
    \/ /\ Idle \/ call.wait # "rf"
       /\ dev.rf_test_cap_data # 0 /\ (hasty \/ "rf" \in unsent)
    \/ /\ Idle \/ call.wait # "rf"
       /\ \A a \in owed : a.kind # "rf"

RegBuffer == ~Idle /\ call.wait = "getreg" => dev.reg_chan_info \in {0, calls}

Buffers == StatsBuffer /\ RfBuffer /\ RegBuffer

ReqInv ==
  /\ TypeOK /\ CallRight /\ Polls /\ Fresh /\ Numbered /\ Outstanding /\ Buffers
  /\ AnswersMatch /\ StaleWrites

LEMMA InvInit == Init => ReqInv
<1> SUFFICES ASSUME Init PROVE ReqInv
  OBVIOUS
<1>1. call = AtRest /\ Idle /\ owed = {} /\ used = {} /\ wild = {} /\ calls = 0
  BY DEF Init, Idle, AtRest
<1>2. TypeOK
  <2>1. dev \in DevFields
    BY DEF Init, DevFields, RfTests, CallIds, NoChange
  <2>2. call \in Calls
    BY <1>1 DEF AtRest, Calls, Kinds, Args, Ops
  <2>3. result \in [op : Ops, wait : Kinds, status : {"SUCCESS", "FAIL"}, answered : BOOLEAN]
    BY DEF Init, Kinds, Ops
  <2>4. seen \in [Kinds -> [by : CallIds, during : CallIds]]
    BY DEF Init, CallIds
  <2> QED  BY <2>1, <2>2, <2>3, <2>4 DEF Init, TypeOK, CallIds
<1>3. CallRight /\ Polls /\ Fresh /\ Outstanding
  BY <1>1 DEF CallRight, Polls, Fresh, Real, Outstanding, AtRest
<1>4. Numbered
  BY <1>1 DEF Init, Numbered, Untouched, AtRest
<1>5. Buffers
  BY <1>1 DEF Init, Buffers, StatsBuffer, RfBuffer, RegBuffer
<1>6. AnswersMatch /\ StaleWrites
  BY <1>1 DEF Init, AnswersMatch, TrueSuccess, RegChangeThere, StaleWrites, AtRest
<1> QED  BY <1>2, <1>3, <1>4, <1>5, <1>6 DEF ReqInv

(***************************************************************************)
(* What the requests have in common.                                       *)
(***************************************************************************)

Waits(w) == ~Idle /\ call.wait = w

(* Buffers are registered for the request, or stay as they were.           *)
Registers ==
  /\ \/ /\ dev'.stats_req = dev.stats_req /\ dev'.fw_stats = dev.fw_stats
        /\ Idle' \/ call'.op \notin StatsOps
     \/ /\ dev'.fw_stats = calls'
        /\ (~Idle /\ call.op \in StatsOps)' \/ "stats" \in unsent'
  /\ \/ /\ dev'.rf_test_type = dev.rf_test_type /\ ~Waits("rf")'
        /\ dev'.rf_test_cap_data = dev.rf_test_cap_data
        /\ \A a \in owed' : a.kind = "rf" => a \in owed
     \/ dev'.rf_test_type = "rx_cap" =>
          /\ dev'.rf_test_cap_data = calls'
          /\ (~Idle /\ call.op = "rf_test")' \/ (Idle' /\ "rf" \in unsent')
  /\ Waits("getreg")' => dev'.reg_chan_info \in {0, calls'}

(* The request is refused, or tells the RPU something; or it is sent, with *)
(* the flag it waits for not set.                                          *)
Asks ==
  /\ Idle /\ calls < MAX_CALLS /\ calls' = calls + 1
  /\ UNCHANGED <<mode, country, seen, waits, wild, denied>>
  /\ unsent \subseteq unsent' /\ unsent' \subseteq Kinds
  /\ dev' \in DevFields /\ Registers
  /\ \/ /\ call' = AtRest /\ owed' = owed
        /\ \E op \in Ops, w \in Kinds, status \in {"SUCCESS", "FAIL"} :
             /\ result' = [op |-> op, wait |-> w, status |-> status, answered |-> FALSE]
             /\ status = "FAIL" \/ (w = "conf" /\ op \in {"conf_srcoex", "off_raw_tx_start",
                                                          "off_raw_tx_stop"})
     \/ /\ \E op \in Ops, w \in Kinds \ {"setreg"}, arg \in Args, limit \in {0, Patience},
              status \in {"SUCCESS", "FAIL"} :
             call' = NewCall(op, w, arg, limit, "poll", status)
        /\ CallRight' /\ result' = result
        /\ \/ call'.op = "stats_reset" /\ owed' = owed
           \/ /\ \/ Pending(call.wait)' /\ call'.op \notin {"stats_reset", "fw_init_again"}
                 \/ call'.op = "fw_init_again"
              /\ \E x \in Args :
                   owed' \subseteq owed \cup {[kind |-> call'.wait, by |-> calls', arg |-> x]}

Commands == [kind : Kinds, arg : Args, gated : BOOLEAN]

LEMMA AskCases ==
  ASSUME NEW op \in Ops, NEW c \in Commands, NEW arg \in Args, NEW limit \in {0, Patience},
         NEW d \in DevFields, TypeOK, Ask(op, c, arg, limit, d)
  PROVE  /\ Idle /\ calls < MAX_CALLS /\ calls' = calls + 1
         /\ UNCHANGED <<mode, country, seen, waits, wild, denied>>
         /\ dev' = d /\ dev' \in DevFields
         /\ unsent \subseteq unsent' /\ unsent' \subseteq Kinds
         /\ \/ /\ call' = NewCall(op, c.kind, arg, limit, "poll", "SUCCESS") /\ result' = result
               /\ owed' = owed \cup {[kind |-> c.kind, by |-> calls', arg |-> c.arg]}
            \/ /\ call' = AtRest /\ owed' = owed /\ c.kind \in unsent'
               /\ result' = [op |-> op, wait |-> c.kind, status |-> "FAIL", answered |-> FALSE]
BY DEF Ask, Commands, TypeOK, Sent, NotSent, Return, me

(* What a function that sends c has to do with the device, for all of it   *)
(* to be an instance of Asks.                                              *)
Prepares(op, c, arg, limit, d) ==
  /\ \/ op \in {"fw_init", "fw_init_again"} /\ c.kind = "init"
     \/ op \in StatsOps /\ c.kind = "stats"
     \/ op = "radio" /\ c.kind = "radio"
     \/ op \in {"rf_test", "bat_volt"} /\ c.kind = "rf"
     \/ op = "off_raw_tx_conf" /\ c.kind = "conf"
     \/ op = "get_reg" /\ c.kind = "getreg"
     \/ op = "set_reg" /\ c.kind = "getreg" /\ arg \in Countries
  /\ op # "rf_test" => limit = Patience
  /\ op = "sys_stats_get" => mode = "SYS"
  /\ op \in {"rt_stats_get", "ort_stats_get"} => mode # "SYS"
  /\ IF c.kind = "stats" THEN d.fw_stats = me
     ELSE d.stats_req = dev.stats_req /\ d.fw_stats = dev.fw_stats
  /\ IF c.kind = "rf" THEN d.rf_test_type = "rx_cap" => op = "rf_test" /\ d.rf_test_cap_data = me
     ELSE d.rf_test_type = dev.rf_test_type /\ d.rf_test_cap_data = dev.rf_test_cap_data
  /\ c.kind = "getreg" => d.reg_chan_info \in {0, me}

LEMMA AskAsks ==
  ASSUME NEW op \in Ops, NEW c \in Commands, NEW arg \in Args, NEW limit \in {0, Patience},
         NEW d \in DevFields, TypeOK, Ask(op, c, arg, limit, d),
         Prepares(op, c, arg, limit, d), Pending(c.kind)' \/ op = "fw_init_again"
  PROVE  Asks
<1>1. /\ Idle /\ calls < MAX_CALLS /\ calls' = calls + 1
      /\ UNCHANGED <<mode, country, seen, waits, wild, denied>>
      /\ dev' = d /\ dev' \in DevFields
      /\ unsent \subseteq unsent' /\ unsent' \subseteq Kinds
  BY AskCases
<1>2. c.kind \in Kinds \ {"setreg"} /\ c.arg \in Args /\ op # "stats_reset"
  BY DEF Commands, Prepares, StatsOps
<1>3. ASSUME call' = AtRest, owed' = owed, c.kind \in unsent',
             result' = [op |-> op, wait |-> c.kind, status |-> "FAIL", answered |-> FALSE]
      PROVE  Asks
  <2>1. Idle'
    BY <1>3 DEF Idle, AtRest
  <2>2. Registers
    BY <1>1, <1>3, <2>1 DEF Registers, Waits, Prepares, me
  <2> QED  BY <1>1, <1>2, <1>3, <2>2 DEF Asks
<1>4. ASSUME call' = NewCall(op, c.kind, arg, limit, "poll", "SUCCESS"), result' = result,
             owed' = owed \cup {[kind |-> c.kind, by |-> calls', arg |-> c.arg]}
      PROVE  Asks
  <2>1. /\ ~Idle' /\ call'.wait = c.kind /\ call'.op = op /\ call'.step = "poll"
        /\ call'.limit = limit /\ call'.arg = arg
    BY <1>4 DEF Idle, NewCall
  <2>2. CallRight'
    BY <1>1, <2>1 DEF CallRight, Prepares, TypeOK, CallIds
  <2>3. \A a \in owed' : a.kind = "rf" /\ c.kind # "rf" => a \in owed
    BY <1>4
  <2>4. Registers
    BY <1>1, <2>1, <2>3 DEF Registers, Waits, Prepares, me, StatsOps
  <2>5. \E x \in Args : owed' \subseteq owed \cup {[kind |-> call'.wait, by |-> calls', arg |-> x]}
    BY <1>2, <1>4, <2>1
  <2>6. Pending(call.wait)' \/ op = "fw_init_again"
    BY <2>1 DEF Pending
  <2> QED  BY <1>1, <1>2, <1>4, <2>1, <2>2, <2>4, <2>5, <2>6 DEF Asks
<1> QED  BY <1>3, <1>4, AskCases

LEMMA FwInitAsks ==
  ASSUME TypeOK, sys_fw_init \/ rt_fw_init \/ ort_fw_init
  PROVE  Asks
<1> DEFINE c == Command("init", "none", FALSE)
           op == IF dev.fw_init_done THEN "fw_init_again" ELSE "fw_init"
<1>1. /\ c \in Commands /\ c.kind = "init" /\ "none" \in Args /\ op \in Ops
      /\ op \in {"fw_init", "fw_init_again"} /\ dev \in DevFields
  BY DEF Command, Commands, Kinds, Args, Ops, TypeOK
<1>2. Ask(op, c, "none", Patience, dev)
  BY DEF sys_fw_init, rt_fw_init, ort_fw_init, FwInit, umac_cmd_sys_init, umac_cmd_rt_init,
         umac_cmd_off_raw_tx_init
<1>3. Pending(c.kind)' \/ op = "fw_init_again"
  BY <1>1, <1>2 DEF Ask, Pending
<1> HIDE DEF c, op
<1>4. Prepares(op, c, "none", Patience, dev)
  BY <1>1 DEF Prepares, StatsOps
<1> QED  BY <1>1, <1>2, <1>3, <1>4, AskAsks

LEMMA StatsGetAsks ==
  ASSUME TypeOK, sys_stats_get \/ rt_stats_get \/ ort_stats_get
  PROVE  Asks
<1> DEFINE c == Command("stats", "none", FALSE)
           d == [dev EXCEPT !.stats_req = TRUE, !.fw_stats = me]
<1>1. c \in Commands /\ c.kind = "stats" /\ "none" \in Args /\ StatsOps \subseteq Ops
  BY DEF Command, Commands, Kinds, Args, Ops, StatsOps
<1>2. PICK op \in StatsOps :
        /\ Ask(op, c, "none", Patience, d)
        /\ op = "sys_stats_get" => mode = "SYS"
        /\ op \in {"rt_stats_get", "ort_stats_get"} => mode # "SYS"
  BY DEF sys_stats_get, rt_stats_get, ort_stats_get, StatsGet, umac_cmd_sys_prog_stats_get,
         umac_cmd_rt_prog_stats_get, umac_cmd_off_raw_tx_prog_stats_get, StatsOps
<1>3. me \in CallIds
  BY <1>2 DEF Ask, me, CallIds, TypeOK
<1>4. /\ d \in DevFields /\ d.stats_req /\ d.fw_stats = me
      /\ d.rf_test_type = dev.rf_test_type /\ d.rf_test_cap_data = dev.rf_test_cap_data
  BY <1>3 DEF TypeOK, DevFields
<1>5. dev' = d
  BY <1>2 DEF Ask
<1> HIDE DEF c, d
<1>6. Prepares(op, c, "none", Patience, d)
  BY <1>1, <1>2, <1>4 DEF Prepares, StatsOps
<1>7. Pending(c.kind)'
  BY <1>1, <1>4, <1>5 DEF Pending
<1> QED  BY <1>1, <1>2, <1>4, <1>6, <1>7, AskAsks

LEMMA RadioAsks ==
  ASSUME TypeOK, radio_test_init \/ prog_tx \/ prog_rx
  PROVE  Asks
<1> DEFINE c == Command("radio", "none", FALSE)
           d == [dev EXCEPT !.radio_cmd_done = FALSE]
<1>1. c \in Commands /\ c.kind = "radio" /\ "none" \in Args /\ "radio" \in Ops
  BY DEF Command, Commands, Kinds, Args, Ops
<1>2. Ask("radio", c, "none", Patience, d)
  BY DEF radio_test_init, prog_tx, prog_rx, Radio, umac_cmd_rt_prog_init, umac_cmd_rt_prog_tx,
         umac_cmd_rt_prog_rx
<1>3. /\ d \in DevFields /\ ~d.radio_cmd_done
      /\ d.stats_req = dev.stats_req /\ d.fw_stats = dev.fw_stats
      /\ d.rf_test_type = dev.rf_test_type /\ d.rf_test_cap_data = dev.rf_test_cap_data
  BY DEF TypeOK, DevFields
<1>4. dev' = d
  BY <1>2 DEF Ask
<1> HIDE DEF c, d
<1>5. Prepares("radio", c, "none", Patience, d)
  BY <1>1, <1>3 DEF Prepares, StatsOps
<1>6. Pending(c.kind)'
  BY <1>1, <1>3, <1>4 DEF Pending
<1> QED  BY <1>1, <1>2, <1>3, <1>5, <1>6, AskAsks

LEMMA RfTestAsks ==
  ASSUME NEW op \in {"rf_test", "bat_volt"}, NEW test \in RfTests, NEW data \in {0, me},
         NEW limit \in {0, Patience}, TypeOK, RfTest(op, test, data, limit),
         test = "rx_cap" => data = me /\ op = "rf_test", op # "rf_test" => limit = Patience
  PROVE  Asks
<1> DEFINE c == Command("rf", test, FALSE)
           d == [dev EXCEPT !.rf_test_type = test, !.rf_test_cap_data = data]
<1>1. c \in Commands /\ c.kind = "rf" /\ test \in Args /\ op \in Ops
  BY DEF Command, Commands, Kinds, Args, Ops
<1>2. Ask(op, c, test, limit, d)
  BY DEF RfTest, umac_cmd_rt_prog_rf_test
<1>3. data \in CallIds
  BY <1>2 DEF Ask, me, CallIds, TypeOK
<1>4. /\ d \in DevFields /\ d.rf_test_type = test /\ d.rf_test_cap_data = data
      /\ d.stats_req = dev.stats_req /\ d.fw_stats = dev.fw_stats
  BY <1>3 DEF TypeOK, DevFields
<1>5. dev' = d
  BY <1>2 DEF Ask
<1> HIDE DEF c, d
<1>6. Prepares(op, c, test, limit, d)
  BY <1>1, <1>4 DEF Prepares, StatsOps
<1>7. Pending(c.kind)'
  BY <1>1, <1>4, <1>5 DEF Pending, RfTests
<1> QED  BY <1>1, <1>2, <1>4, <1>6, <1>7, AskAsks

LEMMA RfTestsAsk ==
  ASSUME TypeOK,
         \/ rf_test_rx_cap \/ rf_test_tx_tone \/ rf_test_dpd \/ rf_get_temp
         \/ rf_get_bat_volt \/ rf_get_rf_rssi \/ set_xo_val \/ rf_test_compute_xo
  PROVE  Asks
<1>1. CASE rf_test_rx_cap
  BY <1>1, RfTestAsks DEF rf_test_rx_cap, RfTests
<1>2. \/ rf_test_rx_cap
      \/ \E op \in {"rf_test", "bat_volt"}, test \in RfTests \ {"rx_cap"} :
           RfTest(op, test, 0, Patience)
  BY DEF rf_test_tx_tone, rf_test_dpd, rf_get_temp, rf_get_bat_volt, rf_get_rf_rssi, set_xo_val,
         rf_test_compute_xo, RfTests
<1> QED  BY <1>1, <1>2, RfTestAsks

LEMMA ConfAsks ==
  ASSUME TypeOK, off_raw_tx_conf
  PROVE  Asks
<1> DEFINE c == Command("conf", "none", TRUE)
           d == [dev EXCEPT !.off_raw_tx_cmd_done = TRUE]
<1>1. c \in Commands /\ c.kind = "conf" /\ "none" \in Args /\ "off_raw_tx_conf" \in Ops
  BY DEF Command, Commands, Kinds, Args, Ops
<1>2. Ask("off_raw_tx_conf", c, "none", Patience, d)
  BY DEF off_raw_tx_conf, umac_cmd_off_raw_tx_conf
<1>3. /\ d \in DevFields /\ d.off_raw_tx_cmd_done
      /\ d.stats_req = dev.stats_req /\ d.fw_stats = dev.fw_stats
      /\ d.rf_test_type = dev.rf_test_type /\ d.rf_test_cap_data = dev.rf_test_cap_data
  BY DEF TypeOK, DevFields
<1>4. dev' = d
  BY <1>2 DEF Ask
<1> HIDE DEF c, d
<1>5. Prepares("off_raw_tx_conf", c, "none", Patience, d)
  BY <1>1, <1>3 DEF Prepares, StatsOps
<1>6. Pending(c.kind)'
  BY <1>1, <1>3, <1>4 DEF Pending
<1> QED  BY <1>1, <1>2, <1>3, <1>5, <1>6, AskAsks

LEMMA RegAsks ==
  ASSUME TypeOK, get_reg \/ set_reg
  PROVE  Asks
<1> DEFINE c == Command("getreg", "none", TRUE)
<1>1. c \in Commands /\ c.kind = "getreg" /\ {"get_reg", "set_reg"} \subseteq Ops
  BY DEF Command, Commands, Kinds, Args, Ops
<1>2. PICK op \in {"get_reg", "set_reg"}, arg \in Args, info \in {0, me} :
        /\ Ask(op, c, arg, Patience, [dev EXCEPT !.alpha2_valid = FALSE, !.reg_chan_info = info])
        /\ op = "set_reg" => arg \in Countries
  BY DEF get_reg, set_reg, AskReg, umac_cmd_cfg, Args
<1> DEFINE d == [dev EXCEPT !.alpha2_valid = FALSE, !.reg_chan_info = info]
<1>3. info \in CallIds
  BY <1>2 DEF Ask, me, CallIds, TypeOK
<1>4. /\ d \in DevFields /\ ~d.alpha2_valid /\ d.reg_chan_info = info
      /\ d.stats_req = dev.stats_req /\ d.fw_stats = dev.fw_stats
      /\ d.rf_test_type = dev.rf_test_type /\ d.rf_test_cap_data = dev.rf_test_cap_data
  BY <1>3 DEF TypeOK, DevFields
<1>5. dev' = d
  BY <1>2 DEF Ask
<1>6. Ask(op, c, arg, Patience, d)
  BY <1>2
<1> HIDE DEF c, d
<1>7. Prepares(op, c, arg, Patience, d)
  BY <1>1, <1>2, <1>4 DEF Prepares, StatsOps
<1>8. Pending(c.kind)'
  BY <1>1, <1>4, <1>5 DEF Pending
<1> QED  BY <1>1, <1>4, <1>6, <1>7, <1>8, AskAsks

(* Functions that return without having asked for an answer.               *)
LEMMA ReturnAsks ==
  ASSUME TypeOK, Idle, calls < MAX_CALLS, calls' = calls + 1,
         UNCHANGED <<mode, dev, rpu, seen, waits, wild, denied, unsent>>,
         NEW op \in Ops, NEW w \in Kinds, NEW status \in {"SUCCESS", "FAIL"},
         Return(op, w, status, FALSE),
         status = "FAIL" \/ (w = "conf" /\ op \in {"conf_srcoex", "off_raw_tx_start",
                                                   "off_raw_tx_stop"})
  PROVE  Asks
<1>1. /\ call' = AtRest /\ owed' = owed /\ Idle' /\ unsent' = unsent /\ dev' = dev
      /\ result' = [op |-> op, wait |-> w, status |-> status, answered |-> FALSE]
  BY DEF Return, AtRest, Idle, rpu
<1>2. Registers
  BY <1>1 DEF Registers, Waits
<1>3. dev' \in DevFields /\ unsent' \subseteq Kinds /\ country' = country
  BY <1>1 DEF TypeOK, rpu
<1> QED  BY <1>1, <1>2, <1>3 DEF Asks

LEMMA TellAsks ==
  ASSUME TypeOK, NoMemory \/ StatsRefused \/ conf_srcoex \/ off_raw_tx_start \/ off_raw_tx_stop
  PROVE  Asks
<1>1. CASE NoMemory \/ StatsRefused
  <2>1. \E op \in Ops, w \in Kinds : Return(op, w, "FAIL", FALSE)
    BY <1>1 DEF NoMemory, StatsRefused, Ops, Kinds
  <2>2. /\ Idle /\ calls < MAX_CALLS /\ calls' = calls + 1
        /\ UNCHANGED <<mode, dev, rpu, seen, waits, wild, denied, unsent>>
    BY <1>1 DEF NoMemory, StatsRefused, me
  <2> QED  BY <2>1, <2>2, ReturnAsks
<1>2. CASE conf_srcoex \/ off_raw_tx_start \/ off_raw_tx_stop
  <2>1. PICK op \in {"conf_srcoex", "off_raw_tx_start", "off_raw_tx_stop"} :
          \E c \in {umac_cmd_srcoex, umac_cmd_off_raw_tx_ctrl} : Tell(op, c)
    BY <1>2 DEF conf_srcoex, off_raw_tx_start, off_raw_tx_stop
  <2>2. /\ Idle /\ calls < MAX_CALLS /\ calls' = calls + 1
        /\ UNCHANGED <<mode, dev, rpu, seen, waits, wild, denied, unsent>>
        /\ \E status \in {"SUCCESS", "FAIL"} : Return(op, "conf", status, FALSE)
    BY <2>1 DEF Tell, me
  <2>3. op \in Ops /\ "conf" \in Kinds
    BY DEF Ops, Kinds
  <2> QED  BY <2>2, <2>3, ReturnAsks
<1> QED  BY <1>1, <1>2

LEMMA StatsResetAsks ==
  ASSUME TypeOK, stats_reset
  PROVE  Asks
<1>1. /\ Idle /\ calls < MAX_CALLS /\ calls' = calls + 1
      /\ UNCHANGED <<mode, dev, rpu, seen, waits, wild, denied, unsent>>
  BY DEF stats_reset, me
<1>2. "stats_reset" \in Ops /\ "stats" \in Kinds \ {"setreg"} /\ "none" \in Args
  BY DEF Ops, Kinds, Args
<1>3. CASE Return("stats_reset", "stats", "FAIL", FALSE)
  BY <1>1, <1>2, <1>3, ReturnAsks
<1>4. CASE call' = NewCall("stats_reset", "stats", "none", Patience, "poll", "SUCCESS")
           /\ result' = result
  <2>1. /\ ~Idle' /\ call'.wait = "stats" /\ call'.op = "stats_reset" /\ call'.step = "poll"
        /\ call'.limit = Patience
    BY <1>4 DEF Idle, NewCall
  <2>2. CallRight'
    BY <1>1, <2>1 DEF CallRight, TypeOK, CallIds, StatsOps
  <2>3. /\ dev' \in DevFields /\ unsent' \subseteq Kinds /\ country' = country /\ owed' = owed
        /\ dev' = dev /\ unsent' = unsent
    BY <1>1 DEF TypeOK, rpu
  <2>4. Registers
    BY <2>1, <2>3 DEF Registers, Waits, StatsOps
  <2> QED  BY <1>1, <1>2, <1>4, <2>1, <2>2, <2>3, <2>4 DEF Asks
<1> QED  BY <1>3, <1>4 DEF stats_reset

LEMMA ChgVifStateAsks ==
  ASSUME TypeOK, chg_vif_state
  PROVE  Asks
<1>1. /\ Idle /\ calls < MAX_CALLS /\ calls' = calls + 1
      /\ UNCHANGED <<mode, country, seen, waits, wild, denied, result>>
      /\ dev' = [dev EXCEPT !.ifflags = FALSE]
  BY DEF chg_vif_state, me
<1>2. /\ dev' \in DevFields /\ ~dev'.ifflags
      /\ dev'.stats_req = dev.stats_req /\ dev'.fw_stats = dev.fw_stats
      /\ dev'.rf_test_type = dev.rf_test_type /\ dev'.rf_test_cap_data = dev.rf_test_cap_data
  BY <1>1 DEF TypeOK, DevFields
<1>3. "chg_vif_state" \in Ops /\ "ifflags" \in Kinds \ {"setreg"} /\ {"up", "down"} \subseteq Args
  BY DEF Ops, Kinds, Args
<1>4. PICK s \in {"up", "down"}, status \in {"SUCCESS", "FAIL"} :
        /\ call' = NewCall("chg_vif_state", "ifflags", s, Patience, "poll", status)
        /\ owed' \subseteq owed \cup {[kind |-> "ifflags", by |-> calls', arg |-> s]}
        /\ unsent \subseteq unsent' /\ unsent' \subseteq unsent \cup {"ifflags"}
  BY <1>1 DEF chg_vif_state, umac_cmd_cfg, Command, Sent, NotSent, me
<1>5. /\ ~Idle' /\ call'.wait = "ifflags" /\ call'.op = "chg_vif_state" /\ call'.step = "poll"
      /\ call'.limit = Patience
  BY <1>4 DEF Idle, NewCall
<1>6. CallRight' /\ Pending(call.wait)'
  BY <1>1, <1>2, <1>5 DEF CallRight, Pending, TypeOK, CallIds
<1>7. \A a \in owed' : a.kind = "rf" => a \in owed
  BY <1>4
<1>8. Registers
  BY <1>2, <1>5, <1>7 DEF Registers, Waits, StatsOps
<1>9. unsent' \subseteq Kinds
  BY <1>3, <1>4 DEF TypeOK
<1>10. \E x \in Args : owed' \subseteq owed \cup {[kind |-> call'.wait, by |-> calls', arg |-> x]}
  BY <1>3, <1>4, <1>5
<1> QED  BY <1>1, <1>2, <1>3, <1>4, <1>5, <1>6, <1>8, <1>9, <1>10 DEF Asks

LEMMA RequestsAsk ==
  ASSUME TypeOK, Requests
  PROVE  Asks
BY FwInitAsks, StatsGetAsks, RadioAsks, RfTestsAsk, ConfAsks, RegAsks, TellAsks, StatsResetAsks,
   ChgVifStateAsks
   DEF Requests

LEMMA AsksKeepsInv ==
  ASSUME ReqInv, Asks
  PROVE  ReqInv'
<1>1. /\ Idle /\ calls < MAX_CALLS /\ calls' = calls + 1 /\ calls \in Nat
      /\ UNCHANGED <<mode, country, seen, used, reused, gave_up, hasty, wild, denied>>
      /\ unsent \subseteq unsent' /\ unsent' \subseteq Kinds
      /\ dev' \in DevFields /\ Registers
  BY DEF Asks, ReqInv, TypeOK, CallIds, waits
<1>2. CASE call' = AtRest
  <2>1. /\ Idle' /\ call'.wait = "init" /\ call'.op = "none" /\ call'.step = "idle"
        /\ owed' = owed
        /\ \E op \in Ops, w \in Kinds, status \in {"SUCCESS", "FAIL"} :
             /\ result' = [op |-> op, wait |-> w, status |-> status, answered |-> FALSE]
             /\ status = "FAIL" \/ (w = "conf" /\ op \in {"conf_srcoex", "off_raw_tx_start",
                                                          "off_raw_tx_stop"})
    BY <1>2 DEF Asks, AtRest, Idle, NewCall
  <2>2. TypeOK'
    <3>1. call' \in Calls
      BY <1>2 DEF AtRest, Calls, Kinds, Args, Ops
    <3> QED  BY <1>1, <2>1, <3>1 DEF ReqInv, TypeOK, CallIds
  <2>3. CallRight' /\ Polls' /\ Fresh'
    BY <2>1 DEF CallRight, Polls, Fresh, Real
  <2>4. Numbered'
    BY <1>1, <2>1 DEF ReqInv, Numbered, Untouched
  <2>5. Outstanding'
    BY <1>1, <2>1 DEF ReqInv, Outstanding, Real
  <2>6. Buffers'
    <3>1. StatsBuffer'
      BY <1>1, <2>1 DEF ReqInv, Buffers, StatsBuffer, Registers
    <3>2. RfBuffer'
      BY <1>1, <2>1 DEF ReqInv, Buffers, RfBuffer, Registers, Waits
    <3>3. RegBuffer'
      BY <2>1 DEF RegBuffer
    <3> QED  BY <3>1, <3>2, <3>3 DEF Buffers
  <2>7. AnswersMatch'
    BY <1>1, <2>1 DEF ReqInv, AnswersMatch, TrueSuccess, Trusted, RegChangeThere
  <2>8. StaleWrites'
    BY <1>1 DEF ReqInv, StaleWrites
  <2> QED  BY <2>2, <2>3, <2>4, <2>5, <2>6, <2>7, <2>8 DEF ReqInv
<1>3. CASE call' # AtRest
  <2>1. PICK op \in Ops, w \in Kinds \ {"setreg"}, arg \in Args, limit \in {0, Patience},
             status \in {"SUCCESS", "FAIL"} :
          call' = NewCall(op, w, arg, limit, "poll", status)
    BY <1>3 DEF Asks
  <2>2. /\ ~Idle' /\ call'.wait = w /\ call'.op = op /\ call'.step = "poll" /\ call'.count = 0
        /\ call'.limit = limit
    BY <2>1 DEF Idle, NewCall
  <2>3. CallRight' /\ result' = result
    BY <1>3 DEF Asks
  <2>4. \/ op = "stats_reset" /\ owed' = owed
        \/ /\ \/ Pending(call.wait)' /\ op \notin {"stats_reset", "fw_init_again"}
              \/ op = "fw_init_again"
           /\ \E x \in Args : owed' \subseteq owed \cup {[kind |-> w, by |-> calls', arg |-> x]}
    BY <1>3, <2>2 DEF Asks
  <2>5. \E x \in Args : owed' \subseteq owed \cup {[kind |-> w, by |-> calls', arg |-> x]}
    BY <2>1, <2>4
  <2>6. TypeOK'
    <3>1. call' \in Calls
      BY <2>1 DEF NewCall, Calls
    <3>2. owed' \subseteq [kind : Kinds, by : CallIds, arg : Args]
      BY <1>1, <2>5 DEF ReqInv, TypeOK, CallIds
    <3> QED  BY <1>1, <2>3, <3>1, <3>2 DEF ReqInv, TypeOK, CallIds
  <2>7. Polls'
    BY <2>2 DEF Polls
  <2>8. Fresh'
    BY <2>2, <2>4 DEF Fresh, Real
  <2>9. Numbered'
    <3>1. \A k \in Kinds : Untouched(k, calls + 1)
      BY <1>1 DEF ReqInv, Numbered
    <3>2. \A a \in owed' : \/ a \in owed
                           \/ a.kind = w /\ a.by = calls'
      BY <2>5
    <3>3. \A a \in owed' : /\ a.by \in 1 .. calls' /\ <<a.kind, a.by>> \notin used'
                           /\ seen'[a.kind].by # a.by
                           /\ a.kind = "setreg" => a.arg \in Countries
      <4>1. ASSUME NEW a \in owed
            PROVE  /\ a.by \in 1 .. calls' /\ <<a.kind, a.by>> \notin used'
                   /\ seen'[a.kind].by # a.by
                   /\ a.kind = "setreg" => a.arg \in Countries
        BY <1>1 DEF ReqInv, Numbered
      <4>2. ASSUME NEW a \in owed', a.kind = w, a.by = calls'
            PROVE  /\ a.by \in 1 .. calls' /\ <<a.kind, a.by>> \notin used'
                   /\ seen'[a.kind].by # a.by
                   /\ a.kind = "setreg" => a.arg \in Countries
        BY <1>1, <2>1, <3>1, <4>2 DEF Untouched
      <4> QED  BY <3>2, <4>1, <4>2
    <3>4. \A a, b \in owed' : a.kind = b.kind /\ a.by = b.by => a = b
      <4>1. PICK x \in Args : owed' \subseteq owed \cup {[kind |-> w, by |-> calls', arg |-> x]}
        BY <2>5
      <4>2. \A a \in owed : a.by # calls'
        <5>1. \A a \in owed : a.by \in 1 .. calls
          BY DEF ReqInv, Numbered
        <5> QED  BY <1>1, <5>1
      <4>3. \A a \in owed' : a \in owed \/ a = [kind |-> w, by |-> calls', arg |-> x]
        BY <4>1
      <4>4. \A a \in owed' : a \in owed <=> a.by # calls'
        BY <4>2, <4>3
      <4> QED  BY <4>3, <4>4 DEF ReqInv, Numbered
    <3>5. \A k \in Kinds, n \in Nat : n > calls' => Untouched(k, n)'
      <4> SUFFICES ASSUME NEW k \in Kinds, NEW n \in Nat, n > calls'
                   PROVE  Untouched(k, n)'
        OBVIOUS
      <4>1. n > calls /\ n # calls'
        BY <1>1
      <4>2. Untouched(k, n)
        BY <4>1 DEF ReqInv, Numbered
      <4> QED  BY <1>1, <3>2, <4>1, <4>2 DEF Untouched
    <3>6. \A k \in Kinds : k # w => Untouched(k, calls)'
      BY <1>1, <3>1, <3>2 DEF Untouched
    <3>7. {"setreg", "getreg"} \subseteq Kinds
      BY DEF Kinds
    <3> QED  BY <2>2, <3>3, <3>4, <3>5, <3>6, <3>7 DEF Numbered
  <2>10. Outstanding'
    <3>1. ASSUME NEW a \in owed, a.kind \in {"stats", "rf", "getreg"}
          PROVE  a.kind \in gave_up'
      BY <1>1, <3>1 DEF ReqInv, Outstanding, Real
    <3>2. ASSUME NEW a \in owed', a \notin owed, a.kind \in {"stats", "rf", "getreg"}
          PROVE  a.by = calls' /\ Real' /\ call'.wait = a.kind /\ Pending(a.kind)'
      <4>1. a.by = calls' /\ a.kind = w
        BY <2>4, <3>2
      <4>2. op # "fw_init_again"
        BY <2>2, <2>3, <3>2, <4>1 DEF CallRight, StatsOps
      <4>3. op # "stats_reset" /\ Pending(call.wait)'
        BY <2>4, <3>2, <4>2
      <4> QED  BY <2>2, <4>1, <4>2, <4>3 DEF Real, Pending
    <3> QED  BY <3>1, <3>2 DEF Outstanding
  <2>11. Buffers'
    <3>1. StatsBuffer'
      BY <1>1, <2>2 DEF ReqInv, Buffers, StatsBuffer, Registers
    <3>2. RfBuffer'
      BY <1>1, <2>2 DEF ReqInv, Buffers, RfBuffer, Registers, Waits
    <3>3. RegBuffer'
      BY <1>1 DEF RegBuffer, Registers, Waits
    <3> QED  BY <3>1, <3>2, <3>3 DEF Buffers
  <2>12. AnswersMatch'
    BY <1>1, <2>2, <2>3 DEF ReqInv, AnswersMatch, TrueSuccess, Trusted, RegChangeThere
  <2>13. StaleWrites'
    BY <1>1 DEF ReqInv, StaleWrites
  <2> QED  BY <2>3, <2>6, <2>7, <2>8, <2>9, <2>10, <2>11, <2>12, <2>13 DEF ReqInv
<1> QED  BY <1>2, <1>3

(***************************************************************************)
(* Waiting.                                                                *)
(***************************************************************************)

LEMMA SleepKeepsInv ==
  ASSUME ReqInv, SleepThenLook \/ LookThenSleep
  PROVE  ReqInv'
<1>1. /\ call.step = "poll" /\ ~Idle
      /\ UNCHANGED <<mode, dev, calls, rpu, seen, waits, wild, denied, unsent, result>>
  BY DEF SleepThenLook, LookThenSleep, Idle
<1>2. call \in Calls
  BY DEF ReqInv, TypeOK
<1>3. /\ call'.op = call.op /\ call'.wait = call.wait /\ call'.arg = call.arg
      /\ call'.limit = call.limit /\ call'.status = call.status
      /\ \/ /\ call'.step = "poll" /\ call'.count = call.count + 1
            /\ call.count + 1 < call.limit
         \/ /\ call'.step = "finish" /\ call'.count = call.count + 1
            /\ ~Pending(call.wait) \/ ~(call.count + 1 < call.limit)
         \/ /\ call'.step = "finish" /\ call'.count = call.count /\ ~Pending(call.wait)
  BY <1>1, <1>2 DEF SleepThenLook, LookThenSleep, Sleep, Stop, Calls
<1>4. \/ call.limit = 0 /\ call.count = 0
      \/ call.limit = Patience /\ call.count \in Nat /\ call.count < Patience
  BY <1>1, <1>2 DEF ReqInv, Polls, Calls
<1>5. TypeOK'
  <2>1. call' \in Calls
    <3>1. call'.count \in 0 .. Patience /\ call'.step \in {"poll", "finish"}
      BY <1>3, <1>4
    <3>2. DOMAIN call' = DOMAIN call
      BY <1>2, <1>1 DEF SleepThenLook, LookThenSleep, Sleep, Stop, Calls
    <3>3. call' = [step |-> call'.step, op |-> call'.op, wait |-> call'.wait, arg |-> call'.arg,
                   limit |-> call'.limit, count |-> call'.count, status |-> call'.status]
      BY <1>1, <1>2 DEF SleepThenLook, LookThenSleep, Sleep, Stop, Calls
    <3> QED  BY <1>2, <1>3, <3>1, <3>3 DEF Calls
  <2> QED  BY <1>1, <2>1 DEF ReqInv, TypeOK, rpu, waits
<1>6. CallRight'
  BY <1>1, <1>3 DEF ReqInv, CallRight, Idle
<1>7. Pending(call.wait)' <=> Pending(call.wait)
  BY <1>1, <1>3 DEF Pending
<1>8. Polls'
  BY <1>3, <1>4, <1>7 DEF Polls
<1>9. ~Idle' /\ (Real' <=> Real)
  BY <1>1, <1>3 DEF Idle, Real
<1>10. Fresh'
  BY <1>1, <1>3, <1>7, <1>9 DEF ReqInv, Fresh, waits
<1>11. Numbered'
  BY <1>1, <1>3 DEF ReqInv, Numbered, Untouched, rpu, waits
<1>12. Outstanding'
  BY <1>1, <1>3, <1>9 DEF ReqInv, Outstanding, Pending, rpu, waits
<1>13. Buffers'
  BY <1>1, <1>3, <1>9 DEF ReqInv, Buffers, StatsBuffer, RfBuffer, RegBuffer, rpu, waits
<1>14. AnswersMatch'
  BY <1>1, <1>3 DEF ReqInv, AnswersMatch, TrueSuccess, Trusted, RegChangeThere, waits
<1>15. StaleWrites'
  BY <1>1 DEF ReqInv, StaleWrites, waits
<1> QED  BY <1>5, <1>6, <1>8, <1>10, <1>11, <1>12, <1>13, <1>14, <1>15 DEF ReqInv

LEMMA ClearKeepsInv ==
  ASSUME ReqInv, ClearRegStatus
  PROVE  ReqInv'
<1>1. /\ call.step = "sent" /\ ~Idle
      /\ UNCHANGED <<mode, calls, rpu, seen, waits, wild, denied, unsent, result>>
      /\ dev' = [dev EXCEPT !.reg_set_status = FALSE] /\ call' = [call EXCEPT !.step = "poll"]
  BY DEF ClearRegStatus, Idle
<1>2. call \in Calls /\ dev \in DevFields
  BY DEF ReqInv, TypeOK
<1>3. /\ call'.op = call.op /\ call'.wait = call.wait /\ call'.arg = call.arg
      /\ call'.limit = call.limit /\ call'.count = call.count /\ call'.step = "poll"
      /\ call' \in Calls
  BY <1>1, <1>2 DEF Calls
<1>4. /\ dev' \in DevFields /\ ~dev'.reg_set_status
      /\ dev'.stats_req = dev.stats_req /\ dev'.fw_stats = dev.fw_stats
      /\ dev'.rf_test_type = dev.rf_test_type /\ dev'.rf_test_cap_data = dev.rf_test_cap_data
      /\ dev'.reg_chan_info = dev.reg_chan_info /\ dev'.alpha2_valid = dev.alpha2_valid
  BY <1>1, <1>2 DEF DevFields
<1>5. /\ call.wait = "setreg" /\ call.count = 0 /\ call.op = "set_reg" /\ call.limit = Patience
  BY <1>1 DEF ReqInv, CallRight, StatsOps
<1>6. TypeOK'
  BY <1>1, <1>3, <1>4 DEF ReqInv, TypeOK, rpu, waits
<1>7. ~Idle' /\ (Real' <=> Real)
  BY <1>1, <1>3 DEF Idle, Real
<1>8. CallRight'
  BY <1>1, <1>3, <1>7 DEF ReqInv, CallRight
<1>9. Polls' /\ Fresh'
  BY <1>3, <1>4, <1>5 DEF Polls, Fresh, Pending
<1>10. Numbered'
  BY <1>1, <1>3 DEF ReqInv, Numbered, Untouched, rpu, waits
<1>11. Outstanding'
  BY <1>1, <1>5 DEF ReqInv, Outstanding, rpu, waits
<1>12. Buffers'
  BY <1>1, <1>3, <1>4, <1>7 DEF ReqInv, Buffers, StatsBuffer, RfBuffer, RegBuffer, rpu, waits
<1>13. AnswersMatch'
  BY <1>1, <1>4 DEF ReqInv, AnswersMatch, TrueSuccess, Trusted, RegChangeThere, waits
<1>14. StaleWrites'
  BY <1>1 DEF ReqInv, StaleWrites, waits
<1> QED  BY <1>6, <1>8, <1>9, <1>10, <1>11, <1>12, <1>13, <1>14 DEF ReqInv

(* The history of a wait that ends.                                        *)
LEMMA AccountKeeps ==
  ASSUME ReqInv, Real, call.step = "finish", Account(call.wait), UNCHANGED <<calls, seen>>
  PROVE  /\ used' \subseteq Kinds \X CallIds /\ reused' = FALSE
         /\ gave_up \subseteq gave_up' /\ gave_up' \subseteq Kinds
         /\ hasty' \in BOOLEAN /\ (hasty => hasty')
         /\ Pending(call.wait) => call.wait \in gave_up' /\ (call.limit = 0 => hasty')
         /\ \A k \in Kinds, n \in Nat :
              <<k, n>> \in used' => <<k, n>> \in used \/ (k = call.wait /\ n = seen[k].by)
<1>1. call.wait \in Kinds /\ seen[call.wait].by \in CallIds /\ used \subseteq Kinds \X CallIds
  BY DEF ReqInv, TypeOK, Calls
<1>2. ~Pending(call.wait) =>
        seen[call.wait].by = 0 \/ <<call.wait, seen[call.wait].by>> \notin used
  BY DEF ReqInv, Fresh
<1>3. reused = FALSE /\ gave_up \subseteq Kinds /\ hasty \in BOOLEAN
  BY DEF ReqInv, AnswersMatch, TypeOK
<1>4. used' \subseteq used \cup {<<call.wait, seen[call.wait].by>>}
  BY DEF Account
<1>5. used' \subseteq Kinds \X CallIds
  BY <1>1, <1>4
<1>6. reused' = FALSE
  BY <1>2, <1>3 DEF Account
<1>7. /\ gave_up \subseteq gave_up' /\ gave_up' \subseteq Kinds
      /\ Pending(call.wait) => call.wait \in gave_up'
  BY <1>1, <1>3 DEF Account
<1>8. hasty' \in BOOLEAN /\ (hasty => hasty') /\ (Pending(call.wait) /\ call.limit = 0 => hasty')
  BY <1>3 DEF Account
<1>9. \A k \in Kinds, n \in Nat :
        <<k, n>> \in used' => <<k, n>> \in used \/ (k = call.wait /\ n = seen[k].by)
  BY <1>4
<1> QED  BY <1>5, <1>6, <1>7, <1>8, <1>9

(* A call returns: with success only if it is not to be trusted or was     *)
(* answered, and with no buffer left registered that it need not leave.    *)
LEMMA EndKeepsInv ==
  ASSUME ReqInv, NEW status \in {"SUCCESS", "FAIL"}, NEW d \in DevFields,
         NEW w \in Kinds, NEW answered \in BOOLEAN,
         call.step = "finish", Real, Account(call.wait), dev' = d,
         Return(call.op, w, status, answered),
         UNCHANGED <<mode, calls, rpu, seen, wild, denied>>,
         unsent \subseteq unsent', unsent' \subseteq Kinds,
         status = "SUCCESS" /\ Trusted(result)' => answered,
         d.stats_req => /\ dev.stats_req /\ d.fw_stats = dev.fw_stats
                        /\ call.op # "sys_stats_get",
         d.rf_test_type = "rx_cap" =>
           /\ dev.rf_test_type = "rx_cap" /\ d.rf_test_cap_data = dev.rf_test_cap_data
           /\ call.op = "rf_test" => call.limit = 0
  PROVE  ReqInv'
<1>1. /\ dev' = d /\ call' = AtRest
      /\ result' = [op |-> call.op, wait |-> w, status |-> status, answered |-> answered]
      /\ UNCHANGED <<mode, calls, owed, country, seen, wild, denied>>
  BY DEF Return, rpu
<1>2. /\ used' \subseteq Kinds \X CallIds /\ reused' = FALSE
      /\ gave_up \subseteq gave_up' /\ gave_up' \subseteq Kinds
      /\ hasty' \in BOOLEAN /\ (hasty => hasty')
      /\ Pending(call.wait) => call.wait \in gave_up' /\ (call.limit = 0 => hasty')
      /\ \A k \in Kinds, n \in Nat :
           <<k, n>> \in used' => <<k, n>> \in used \/ (k = call.wait /\ n = seen[k].by)
  BY <1>1, AccountKeeps
<1>3. call \in Calls /\ calls \in Nat /\ ~Idle
  BY DEF ReqInv, TypeOK, CallIds, Real
<1>4. /\ Idle' /\ ~Real' /\ call'.step = "idle" /\ call'.op = "none" /\ call'.wait = "init"
      /\ call' \in Calls
  BY <1>1 DEF Idle, Real, AtRest, Calls, Kinds, Ops, Args
<1>5. TypeOK'
  <2>1. result' \in [op : Ops, wait : Kinds, status : {"SUCCESS", "FAIL"}, answered : BOOLEAN]
    BY <1>1, <1>3 DEF Calls
  <2> QED  BY <1>1, <1>2, <1>4, <2>1 DEF ReqInv, TypeOK
<1>6. CallRight' /\ Polls' /\ Fresh'
  BY <1>4 DEF CallRight, Polls, Fresh
<1>7. Numbered'
  <2>1. \A a \in owed : a.kind \in Kinds /\ a.by \in Nat
    BY DEF ReqInv, TypeOK, CallIds
  <2>2. ASSUME NEW a \in owed
        PROVE  <<a.kind, a.by>> \notin used'
    <3>1. <<a.kind, a.by>> \notin used /\ seen[a.kind].by # a.by
      BY DEF ReqInv, Numbered
    <3> QED  BY <1>2, <2>1, <3>1
  <2>3. \A k \in Kinds, n \in Nat : n > calls => Untouched(k, n)'
    <3> SUFFICES ASSUME NEW k \in Kinds, NEW n \in Nat, n > calls
                 PROVE  Untouched(k, n)'
      OBVIOUS
    <3>1. Untouched(k, n)
      BY DEF ReqInv, Numbered
    <3> QED  BY <1>1, <1>2, <3>1 DEF Untouched
  <2> QED  BY <1>1, <1>4, <2>2, <2>3 DEF ReqInv, Numbered
<1>8. Outstanding'
  BY <1>1, <1>2 DEF ReqInv, Outstanding
<1>9. Buffers'
  <2>1. StatsBuffer'
    <3>1. ASSUME d.stats_req PROVE d.fw_stats # 0 /\ ("stats" \in unsent \/ (mode # "SYS" /\ "stats" \in gave_up'))
      <4>1. CASE call.op \in StatsOps
        <5>1. Pending(call.wait) /\ call.wait = "stats" /\ mode # "SYS"
          BY <1>3, <3>1, <4>1 DEF ReqInv, CallRight, StatsOps, Pending
        <5> QED  BY <1>2, <3>1, <5>1 DEF ReqInv, Buffers, StatsBuffer
      <4>2. CASE call.op \notin StatsOps
        BY <1>2, <3>1, <4>2 DEF ReqInv, Buffers, StatsBuffer
      <4> QED  BY <4>1, <4>2
    <3> QED  BY <1>1, <1>4, <3>1 DEF StatsBuffer
  <2>2. RfBuffer'
    <3>1. ASSUME d.rf_test_type = "rx_cap"
          PROVE  \/ d.rf_test_cap_data # 0 /\ (hasty' \/ "rf" \in unsent)
                 \/ \A a \in owed : a.kind # "rf"
      <4>1. dev.rf_test_type = "rx_cap" /\ d.rf_test_cap_data = dev.rf_test_cap_data
        BY <3>1
      <4>2. CASE call.op = "rf_test"
        <5>1. call.wait = "rf" /\ calls # 0 /\ call.limit = 0
          BY <1>3, <3>1, <4>2 DEF ReqInv, CallRight, StatsOps
        <5>2. Pending(call.wait)
          BY <4>1, <5>1 DEF Pending
        <5>3. dev.rf_test_cap_data = calls
          BY <1>3, <4>1, <5>1 DEF ReqInv, Buffers, RfBuffer
        <5> QED  BY <1>2, <4>1, <5>1, <5>2, <5>3
      <4>3. CASE call.op # "rf_test"
        BY <1>2, <4>1, <4>3 DEF ReqInv, Buffers, RfBuffer
      <4> QED  BY <4>2, <4>3
    <3> QED  BY <1>1, <1>4, <3>1 DEF RfBuffer
  <2>3. RegBuffer'
    BY <1>4 DEF RegBuffer
  <2> QED  BY <2>1, <2>2, <2>3 DEF Buffers
<1>10. AnswersMatch'
  <2>1. TrueSuccess'
    BY <1>1 DEF TrueSuccess
  <2> QED  BY <1>2, <1>4, <2>1 DEF AnswersMatch, RegChangeThere
<1>11. StaleWrites'
  BY <1>1, <1>2 DEF ReqInv, StaleWrites
<1> QED  BY <1>5, <1>6, <1>7, <1>8, <1>9, <1>10, <1>11 DEF ReqInv

LEMMA FinishKeepsInv ==
  ASSUME ReqInv, NEW status \in {"SUCCESS", "FAIL"}, NEW d \in DevFields,
         call.step = "finish", Real, Finish(call.wait, status, d),
         status = "SUCCESS" /\ Trusted(result)' => ~Pending(call.wait),
         d.stats_req => /\ dev.stats_req /\ d.fw_stats = dev.fw_stats
                        /\ call.op # "sys_stats_get",
         d.rf_test_type = "rx_cap" =>
           /\ dev.rf_test_type = "rx_cap" /\ d.rf_test_cap_data = dev.rf_test_cap_data
           /\ call.op = "rf_test" => call.limit = 0
  PROVE  ReqInv'
<1>1. /\ Account(call.wait) /\ dev' = d
      /\ Return(call.op, call.wait, status, Answered(call.wait))
      /\ UNCHANGED <<mode, calls, rpu, seen, wild, denied, unsent>>
  BY DEF Finish
<1>2. call.wait \in Kinds /\ Answered(call.wait) \in BOOLEAN /\ unsent \subseteq Kinds
  BY DEF ReqInv, TypeOK, Calls, Answered
<1>3. ~Pending(call.wait) => Answered(call.wait)
  BY DEF ReqInv, Fresh, Answered
<1> QED  BY <1>1, <1>2, <1>3, EndKeepsInv

(* The ends of the functions.                                              *)
LEMMA DoneKeepsInv ==
  ASSUME ReqInv,
         \/ InitDone \/ SysStatsDone \/ OtherStatsDone \/ wait_for_radio_cmd_status
         \/ RfTestDone \/ BatVoltDone \/ GetRegDone \/ SameReg \/ SetRegDone \/ IfFlagsDone
         \/ ConfRegDone
  PROVE  ReqInv'
<1>1. /\ call.step = "finish" /\ Real /\ dev \in DevFields
      /\ call.op \in {"fw_init", "radio", "rf_test", "bat_volt", "get_reg", "set_reg",
                      "chg_vif_state", "off_raw_tx_conf"} \cup StatsOps
  BY DEF InitDone, SysStatsDone, OtherStatsDone, wait_for_radio_cmd_status, RfTestDone, BatVoltDone,
         GetRegDone, SameReg, SetRegDone, IfFlagsDone, ConfRegDone, Finishing, Real, Idle, ReqInv,
         TypeOK, StatsOps
<1>2. CallRight /\ ~Idle
  BY <1>1 DEF ReqInv, Real
<1>3. call.op # "rf_test" /\ ~TimedOut => ~Pending(call.wait)
  BY <1>1, <1>2 DEF ReqInv, Polls, TimedOut, CallRight
<1>4. call.limit # 0 /\ ~TimedOut => ~Pending(call.wait)
  BY <1>1 DEF ReqInv, Polls, TimedOut
<1>5. CASE InitDone
  <2>1. call.op = "fw_init" /\ call.wait = "init"
    BY <1>2, <1>5 DEF InitDone, Finishing, CallRight, StatsOps
  <2>2. PICK status \in {"SUCCESS", "FAIL"} :
          Finish(call.wait, status, dev) /\ (status = "SUCCESS" => ~Pending(call.wait))
    BY <1>5, <2>1 DEF InitDone
  <2> QED  BY <1>1, <2>1, <2>2, FinishKeepsInv
<1>6. CASE SysStatsDone
  <2>1. call.op = "sys_stats_get" /\ call.wait = "stats"
    BY <1>2, <1>6 DEF SysStatsDone, Finishing, CallRight, StatsOps
  <2>2. CASE TimedOut
    <3> DEFINE d == [dev EXCEPT !.stats_req = FALSE]
    <3>1. /\ d \in DevFields /\ ~d.stats_req
          /\ d.rf_test_type = dev.rf_test_type /\ d.rf_test_cap_data = dev.rf_test_cap_data
      BY <1>1 DEF DevFields
    <3>2. Finish(call.wait, "FAIL", d)
      BY <1>6, <2>1, <2>2 DEF SysStatsDone
    <3> HIDE DEF d
    <3> QED  BY <1>1, <2>1, <3>1, <3>2, FinishKeepsInv
  <2>3. CASE ~TimedOut
    <3>1. ~Pending(call.wait) /\ ~dev.stats_req
      BY <1>3, <2>1, <2>3 DEF Pending
    <3>2. Finish(call.wait, "SUCCESS", dev)
      BY <1>6, <2>1, <2>3 DEF SysStatsDone
    <3> QED  BY <1>1, <2>1, <3>1, <3>2, FinishKeepsInv
  <2> QED  BY <2>2, <2>3
<1>7. CASE OtherStatsDone
  <2>1. call.op \in {"rt_stats_get", "ort_stats_get"} /\ call.wait = "stats"
    BY <1>2, <1>7 DEF OtherStatsDone, Finishing, CallRight, StatsOps
  <2>2. Finish(call.wait, "SUCCESS", dev)
    BY <1>7, <2>1 DEF OtherStatsDone
  <2>3. ~Trusted(result)'
    BY <2>1, <2>2 DEF Finish, Return, Trusted
  <2> QED  BY <1>1, <2>1, <2>2, <2>3, FinishKeepsInv
<1>8. CASE wait_for_radio_cmd_status
  <2>1. call.op = "radio" /\ call.wait = "radio"
    BY <1>2, <1>8 DEF wait_for_radio_cmd_status, Finishing, CallRight, StatsOps
  <2>2. PICK status \in {"SUCCESS", "FAIL"} :
          Finish(call.wait, status, dev) /\ (status = "SUCCESS" => ~TimedOut)
    BY <1>8, <2>1 DEF wait_for_radio_cmd_status
  <2> QED  BY <1>1, <1>3, <2>1, <2>2, FinishKeepsInv
<1>9. CASE RfTestDone
  <2>1. call.op = "rf_test" /\ call.wait = "rf"
    BY <1>2, <1>9 DEF RfTestDone, Finishing, CallRight, StatsOps
  <2>2. CASE TimedOut
    <3> DEFINE d == [dev EXCEPT !.rf_test_type = "MAX", !.rf_test_cap_data = 0]
    <3>1. /\ d \in DevFields /\ d.rf_test_type = "MAX"
          /\ d.stats_req = dev.stats_req /\ d.fw_stats = dev.fw_stats
      <4>1. 0 \in CallIds
        BY DEF CallIds
      <4> QED  BY <1>1, <4>1 DEF DevFields
    <3>2. Finish(call.wait, "FAIL", d)
      BY <1>9, <2>1, <2>2 DEF RfTestDone
    <3> HIDE DEF d
    <3> QED  BY <1>1, <2>1, <3>1, <3>2, FinishKeepsInv
  <2>3. CASE ~TimedOut
    <3>1. Finish(call.wait, "SUCCESS", dev)
      BY <1>9, <2>1, <2>3 DEF RfTestDone
    <3>2. dev.rf_test_type = "rx_cap" => call.limit = 0
      BY <1>4, <2>1, <2>3 DEF Pending
    <3>3. Pending(call.wait) => hasty'
      BY <1>4, <2>1, <2>3, <3>1 DEF Finish, Account
    <3>4. Trusted(result)' => ~Pending(call.wait)
      BY <2>1, <3>1, <3>3 DEF Finish, Return, Trusted
    <3> QED  BY <1>1, <2>1, <3>1, <3>2, <3>4, FinishKeepsInv
  <2> QED  BY <2>2, <2>3
<1>10. CASE BatVoltDone
  <2>1. call.op = "bat_volt" /\ call.wait = "rf"
    BY <1>2, <1>10 DEF BatVoltDone, Finishing, CallRight, StatsOps
  <2>2. Finish(call.wait, "SUCCESS", dev)
    BY <1>10, <2>1 DEF BatVoltDone
  <2>3. ~Trusted(result)'
    BY <2>1, <2>2 DEF Finish, Return, Trusted
  <2> QED  BY <1>1, <2>1, <2>2, <2>3, FinishKeepsInv
<1>11. CASE GetRegDone \/ SameReg
  <2>1. call.op \in {"get_reg", "set_reg"} /\ call.wait = "getreg"
    BY <1>2, <1>11 DEF GetRegDone, SameReg, Finishing, CallRight, StatsOps
  <2>2. Finish(call.wait, "SUCCESS", dev)
    BY <1>11, <2>1 DEF GetRegDone, SameReg
  <2>3. ~Trusted(result)'
    BY <2>1, <2>2 DEF Finish, Return, Trusted
  <2> QED  BY <1>1, <2>1, <2>2, <2>3, FinishKeepsInv
<1>12. CASE SetRegDone
  <2>1. call.op = "set_reg" /\ call.wait = "setreg"
    BY <1>2, <1>12 DEF SetRegDone, Finishing
  <2> DEFINE e == [dev EXCEPT !.waiting_for_reg_event = FALSE, !.reg_change = NoChange]
  <2>2. /\ e \in DevFields /\ e.rf_test_type = dev.rf_test_type
        /\ e.rf_test_cap_data = dev.rf_test_cap_data
        /\ e.stats_req = dev.stats_req /\ e.fw_stats = dev.fw_stats
    BY <1>1 DEF DevFields
  <2>3. Verdicts \subseteq {"SUCCESS", "FAIL"}
    BY DEF Verdicts
  <2>4. PICK status \in {"SUCCESS", "FAIL"}, d \in {dev, e} :
          Finish(call.wait, status, d) /\ (status = "SUCCESS" => ~Pending(call.wait))
    BY <1>12, <2>1, <2>3 DEF SetRegDone
  <2> HIDE DEF e
  <2> QED  BY <1>1, <2>1, <2>2, <2>4, FinishKeepsInv
<1>13. CASE IfFlagsDone
  <2>1. call.op = "chg_vif_state" /\ call.wait = "ifflags" /\ call.status \in {"SUCCESS", "FAIL"}
    BY <1>2, <1>13 DEF IfFlagsDone, Finishing, CallRight, StatsOps, ReqInv, TypeOK, Calls
  <2> DEFINE e == [dev EXCEPT !.bcast_peer = (call.arg = "up")]
  <2>2. /\ e \in DevFields /\ e.rf_test_type = dev.rf_test_type
        /\ e.rf_test_cap_data = dev.rf_test_cap_data
        /\ e.stats_req = dev.stats_req /\ e.fw_stats = dev.fw_stats
    <3>1. PICK up \in BOOLEAN : up = (call.arg = "up")
      OBVIOUS
    <3>2. e = [dev EXCEPT !.bcast_peer = up]
      BY <3>1
    <3> HIDE DEF e
    <3>3. e \in DevFields
      BY <1>1, <3>2 DEF DevFields
    <3> QED  BY <1>1, <3>2, <3>3 DEF DevFields
  <2>3. PICK status \in {"SUCCESS", "FAIL"}, d \in {dev, e} :
          Finish(call.wait, status, d) /\ (status = "SUCCESS" => ~TimedOut)
    BY <1>13, <2>1 DEF IfFlagsDone
  <2> HIDE DEF e
  <2> QED  BY <1>1, <1>3, <2>1, <2>2, <2>3, FinishKeepsInv
<1>14. CASE ConfRegDone
  <2>1. call.op = "off_raw_tx_conf" /\ call.wait = "getreg"
    BY <1>14 DEF ConfRegDone, Finishing
  <2>2. Finish(call.wait, "FAIL", dev)
    BY <1>14, <2>1 DEF ConfRegDone
  <2> QED  BY <1>1, <2>1, <2>2, FinishKeepsInv
<1> QED  BY <1>5, <1>6, <1>7, <1>8, <1>9, <1>10, <1>11, <1>12, <1>13, <1>14

(* A function that goes on to ask for something else.                      *)
LEMMA AgainKeepsInv ==
  ASSUME ReqInv, NEW k \in {"getreg", "setreg"}, NEW st \in {"sent", "poll"}, NEW x \in Args,
         call.step = "finish", Real, Account(call.wait), dev' \in DevFields,
         dev'.stats_req = dev.stats_req, dev'.fw_stats = dev.fw_stats,
         dev'.rf_test_type = dev.rf_test_type, dev'.rf_test_cap_data = dev.rf_test_cap_data,
         UNCHANGED <<mode, calls, country, seen, wild, denied, unsent, result>>,
         \/ /\ call.op = "set_reg" /\ call.wait = "getreg" /\ k = "setreg" /\ st = "sent"
            /\ x \in Countries
         \/ /\ call.op = "off_raw_tx_conf" /\ call.wait = "conf" /\ k = "getreg" /\ st = "poll"
            /\ ~dev'.alpha2_valid /\ dev'.reg_chan_info = 0,
         call' = [call EXCEPT !.wait = k, !.step = st, !.count = 0],
         owed' = owed \cup {[kind |-> k, by |-> calls, arg |-> x]}
  PROVE  ReqInv'
<1>1. /\ used' \subseteq Kinds \X CallIds /\ reused' = FALSE
      /\ gave_up \subseteq gave_up' /\ gave_up' \subseteq Kinds
      /\ hasty' \in BOOLEAN /\ (hasty => hasty')
      /\ Pending(call.wait) => call.wait \in gave_up' /\ (call.limit = 0 => hasty')
      /\ \A q \in Kinds, n \in Nat :
           <<q, n>> \in used' => <<q, n>> \in used \/ (q = call.wait /\ n = seen[q].by)
  BY AccountKeeps
<1>2. call \in Calls /\ calls \in CallIds /\ ~Idle /\ k \in Kinds
  BY DEF ReqInv, TypeOK, Real, Kinds
<1>3. /\ call'.op = call.op /\ call'.wait = k /\ call'.step = st /\ call'.count = 0
      /\ call'.arg = call.arg /\ call'.limit = call.limit
  BY <1>2 DEF Calls
<1>4. ~Idle' /\ Real'
  BY <1>3 DEF Idle, Real
<1>5. call.limit = Patience /\ calls > 0 /\ calls \in Nat
  BY <1>2 DEF ReqInv, CallRight, CallIds
<1>6. TypeOK'
  <2>1. call' \in Calls
    <3>1. k \in Kinds /\ st \in {"idle", "sent", "poll", "finish"} /\ 0 \in 0 .. Patience
      BY <1>2
    <3> QED  BY <1>2, <3>1 DEF Calls
  <2>2. owed' \subseteq [kind : Kinds, by : CallIds, arg : Args]
    BY <1>2 DEF ReqInv, TypeOK
  <2> QED  BY <1>1, <2>1, <2>2 DEF ReqInv, TypeOK
<1>7. CallRight'
  BY <1>2, <1>3, <1>4, <1>5 DEF ReqInv, CallRight
<1>8. Polls'
  BY <1>3, <1>5 DEF Polls
<1>9. k = "getreg" => Pending("getreg")'
  BY DEF Pending
<1>10. Fresh'
  BY <1>3, <1>9 DEF Fresh, Pending
<1>11. Numbered'
  <2>1. \A a \in owed : a.kind \in Kinds /\ a.by \in Nat
    BY DEF ReqInv, TypeOK, CallIds
  <2>2. Untouched(k, calls) /\ <<k, calls>> \notin used' /\ k # call.wait
    <3>1. Untouched(k, calls) /\ k # call.wait
      BY DEF ReqInv, Numbered
    <3> QED  BY <1>1, <1>2, <1>5, <3>1 DEF Untouched
  <2>3. \A a \in owed' : a \in owed \/ a = [kind |-> k, by |-> calls, arg |-> x]
    OBVIOUS
  <2>4. \A a \in owed : /\ a.by \in 1 .. calls /\ <<a.kind, a.by>> \notin used'
                        /\ seen[a.kind].by # a.by
                        /\ a.kind = "setreg" => a.arg \in Countries
    <3>1. \A a \in owed : /\ a.by \in 1 .. calls /\ <<a.kind, a.by>> \notin used
                          /\ seen[a.kind].by # a.by
                          /\ a.kind = "setreg" => a.arg \in Countries
      BY DEF ReqInv, Numbered
    <3>2. \A a \in owed : <<a.kind, a.by>> \notin used'
      <4> SUFFICES ASSUME NEW a \in owed, <<a.kind, a.by>> \in used' PROVE FALSE
        OBVIOUS
      <4>1. a.kind \in Kinds /\ a.by \in Nat
        BY <2>1
      <4>2. <<a.kind, a.by>> \in used \/ a.by = seen[a.kind].by
        BY <1>1, <4>1
      <4> QED  BY <3>1, <4>2
    <3> QED  BY <3>1, <3>2
  <2>5. \A a \in owed' : /\ a.by \in 1 .. calls /\ <<a.kind, a.by>> \notin used'
                         /\ seen[a.kind].by # a.by
                         /\ a.kind = "setreg" => a.arg \in Countries
    <3>1. seen[k].by # calls /\ calls \in 1 .. calls
      BY <1>5, <2>2 DEF Untouched
    <3>2. k = "setreg" => x \in Countries
      OBVIOUS
    <3>3. ASSUME NEW a \in owed', a = [kind |-> k, by |-> calls, arg |-> x]
          PROVE  /\ a.by \in 1 .. calls /\ <<a.kind, a.by>> \notin used'
                 /\ seen[a.kind].by # a.by
                 /\ a.kind = "setreg" => a.arg \in Countries
      BY <2>2, <3>1, <3>2, <3>3
    <3> QED  BY <2>3, <2>4, <3>3
  <2>6. \A a, b \in owed' : a.kind = b.kind /\ a.by = b.by => a = b
    <3>1. \A a \in owed : ~(a.kind = k /\ a.by = calls)
      BY <2>2 DEF Untouched
    <3>2. \A a, b \in owed : a.kind = b.kind /\ a.by = b.by => a = b
      BY DEF ReqInv, Numbered
    <3> QED  BY <2>3, <3>1, <3>2
  <2>7. \A q \in Kinds, n \in Nat : n > calls => Untouched(q, n)'
    <3> SUFFICES ASSUME NEW q \in Kinds, NEW n \in Nat, n > calls
                 PROVE  Untouched(q, n)'
      OBVIOUS
    <3>1. Untouched(q, n)
      BY DEF ReqInv, Numbered
    <3>2. n # calls
      BY <1>5
    <3> QED  BY <1>1, <2>3, <3>1, <3>2 DEF Untouched
  <2> QED  BY <1>3, <2>5, <2>6, <2>7 DEF Numbered
<1>12. Outstanding'
  <2>1. ASSUME NEW a \in owed, a.kind \in {"stats", "rf", "getreg"}
        PROVE  a.kind \in gave_up'
    BY <1>1, <2>1 DEF ReqInv, Outstanding
  <2>2. \A a \in owed' : a \in owed \/ (a.kind = k /\ a.by = calls)
    OBVIOUS
  <2> QED  BY <1>3, <1>4, <1>9, <2>1, <2>2 DEF Outstanding
<1>13. Buffers'
  <2>1. StatsBuffer'
    BY <1>1, <1>2, <1>3, <1>4 DEF ReqInv, Buffers, StatsBuffer, StatsOps
  <2>2. RfBuffer'
    <3>1. call.op # "rf_test" /\ call'.wait # "rf" /\ \A a \in owed' : a.kind = "rf" => a \in owed
      BY <1>3
    <3> QED  BY <1>1, <1>3, <3>1 DEF ReqInv, Buffers, RfBuffer
  <2>3. RegBuffer'
    BY <1>3 DEF RegBuffer
  <2> QED  BY <2>1, <2>2, <2>3 DEF Buffers
<1>14. AnswersMatch'
  BY <1>1, <1>3 DEF ReqInv, AnswersMatch, TrueSuccess, Trusted, RegChangeThere
<1>15. StaleWrites'
  BY <1>1 DEF ReqInv, StaleWrites
<1> QED  BY <1>6, <1>7, <1>8, <1>10, <1>11, <1>12, <1>13, <1>14, <1>15 DEF ReqInv

LEMMA NewRegKeepsInv ==
  ASSUME ReqInv, NewReg
  PROVE  ReqInv'
<1>1. /\ call.step = "finish" /\ call.op = "set_reg" /\ call.wait = "getreg" /\ Real
      /\ Account(call.wait) /\ UNCHANGED <<mode, calls, country, seen, wild, denied>>
      /\ dev' = [dev EXCEPT !.reg_set_status = FALSE, !.waiting_for_reg_event = TRUE]
  BY DEF NewReg, Finishing, Real, Idle
<1>2. /\ dev' \in DevFields
      /\ dev'.stats_req = dev.stats_req /\ dev'.fw_stats = dev.fw_stats
      /\ dev'.rf_test_type = dev.rf_test_type /\ dev'.rf_test_cap_data = dev.rf_test_cap_data
  <2>1. dev \in DevFields
    BY DEF ReqInv, TypeOK
  <2>2. dev' \in DevFields
    BY <1>1, <2>1 DEF DevFields
  <2> QED  BY <1>1, <2>1, <2>2 DEF DevFields
<1>3. call.arg \in Countries /\ call.arg \in Args
  BY <1>1 DEF ReqInv, CallRight, Real, Args, StatsOps
<1>4. ASSUME call' = [call EXCEPT !.wait = "setreg", !.step = "sent", !.count = 0],
             Sent(umac_cmd_cfg("setreg", call.arg), calls), UNCHANGED <<unsent, result>>
      PROVE  ReqInv'
  <2>1. owed' = owed \cup {[kind |-> "setreg", by |-> calls, arg |-> call.arg]}
    BY <1>4 DEF Sent, umac_cmd_cfg, Command
  <2> QED  BY <1>1, <1>2, <1>3, <1>4, <2>1, AgainKeepsInv
<1>5. ASSUME Return(call.op, "setreg", "FAIL", FALSE),
             NotSent(umac_cmd_cfg("setreg", call.arg)), UNCHANGED owed
      PROVE  ReqInv'
  <2>1. /\ unsent \subseteq unsent' /\ unsent' \subseteq Kinds /\ "setreg" \in Kinds
        /\ UNCHANGED rpu
    BY <1>1, <1>5 DEF NotSent, umac_cmd_cfg, Command, ReqInv, TypeOK, Kinds, rpu
  <2> QED  BY <1>1, <1>2, <1>5, <2>1, EndKeepsInv
<1> QED  BY <1>4, <1>5 DEF NewReg

LEMMA ConfKeepsInv ==
  ASSUME ReqInv, ConfDone
  PROVE  ReqInv'
<1>1. /\ call.step = "finish" /\ call.op = "off_raw_tx_conf" /\ call.wait = "conf" /\ Real
  BY DEF ConfDone, Finishing, Real, Idle
<1>2. CASE Finish("conf", "SUCCESS", dev)
  <2>1. ~Trusted(result)'
    BY <1>1, <1>2 DEF Finish, Return, Trusted
  <2>2. dev \in DevFields
    BY DEF ReqInv, TypeOK
  <2> QED  BY <1>1, <1>2, <2>1, <2>2, FinishKeepsInv
<1>3. CASE ~Finish("conf", "SUCCESS", dev)
  <2>1. /\ Account(call.wait) /\ UNCHANGED <<mode, calls, country, seen, wild, denied>>
        /\ dev' = [dev EXCEPT !.alpha2_valid = FALSE, !.reg_chan_info = 0]
    BY <1>1, <1>3 DEF ConfDone
  <2>2. /\ dev' \in DevFields /\ ~dev'.alpha2_valid /\ dev'.reg_chan_info = 0
        /\ dev'.stats_req = dev.stats_req /\ dev'.fw_stats = dev.fw_stats
        /\ dev'.rf_test_type = dev.rf_test_type /\ dev'.rf_test_cap_data = dev.rf_test_cap_data
    <3>1. 0 \in CallIds /\ dev \in DevFields
      BY DEF CallIds, ReqInv, TypeOK
    <3> QED  BY <2>1, <3>1 DEF DevFields
  <2>3. "none" \in Args /\ "conf" \in Kinds /\ "getreg" \in Kinds
    BY DEF Args, Kinds
  <2>4. ASSUME call' = [call EXCEPT !.wait = "getreg", !.step = "poll", !.count = 0],
               Sent(umac_cmd_cfg("getreg", "none"), calls), UNCHANGED <<unsent, result>>
        PROVE  ReqInv'
    <3>1. owed' = owed \cup {[kind |-> "getreg", by |-> calls, arg |-> "none"]}
      BY <2>4 DEF Sent, umac_cmd_cfg, Command
    <3> QED  BY <1>1, <2>1, <2>2, <2>3, <2>4, <3>1, AgainKeepsInv
  <2>5. ASSUME Return(call.op, "conf", "FAIL", Answered("conf")),
               NotSent(umac_cmd_cfg("getreg", "none")), UNCHANGED owed
        PROVE  ReqInv'
    <3>1. /\ unsent \subseteq unsent' /\ unsent' \subseteq Kinds /\ UNCHANGED rpu
          /\ Answered("conf") \in BOOLEAN
      BY <2>1, <2>3, <2>5 DEF NotSent, umac_cmd_cfg, Command, ReqInv, TypeOK, rpu, Answered
    <3>2. PICK d \in DevFields : d = dev'
      BY <2>2
    <3>3. PICK answered \in BOOLEAN : answered = Answered("conf")
      BY <3>1
    <3>4. /\ call.step = "finish" /\ Real /\ Account(call.wait) /\ dev' = d
          /\ Return(call.op, "conf", "FAIL", answered)
      BY <1>1, <2>1, <2>5, <3>2, <3>3
    <3>5. UNCHANGED <<mode, calls, rpu, seen, wild, denied>>
      BY <2>1, <3>1
    <3>6. /\ d.stats_req => /\ dev.stats_req /\ d.fw_stats = dev.fw_stats
                            /\ call.op # "sys_stats_get"
          /\ d.rf_test_type = "rx_cap" =>
                /\ dev.rf_test_type = "rx_cap" /\ d.rf_test_cap_data = dev.rf_test_cap_data
                /\ call.op = "rf_test" => call.limit = 0
      BY <1>1, <2>2, <3>2
    <3> QED  BY <2>3, <3>1, <3>4, <3>5, <3>6, EndKeepsInv
  <2> QED  BY <1>3, <2>4, <2>5 DEF ConfDone
<1> QED  BY <1>2, <1>3

(* Functions that waited for no answer of their own.                       *)
LEMMA UnansweredKeepsInv ==
  ASSUME ReqInv, StatsResetDone \/ InitAgainDone
  PROVE  ReqInv'
<1>1. /\ call.op \in {"stats_reset", "fw_init_again"} /\ ~Idle /\ ~Real /\ call' = AtRest
      /\ \E w \in {"stats", "init"} :
           result' = [op |-> call.op, wait |-> w, status |-> "SUCCESS", answered |-> FALSE]
      /\ UNCHANGED <<mode, dev, calls, owed, country, seen, used, reused, gave_up, hasty, wild,
                  denied, unsent>>
  BY DEF StatsResetDone, InitAgainDone, Finishing, Idle, Real, Return, rpu, waits
<1>2. /\ Idle' /\ ~Real' /\ call'.step = "idle" /\ call'.op = "none" /\ call'.wait = "init"
      /\ call' \in Calls
  BY <1>1 DEF Idle, Real, AtRest, Calls, Kinds, Ops, Args
<1>3. call.wait \in {"stats", "init"} /\ call.op \notin StatsOps \cup {"rf_test"}
  BY <1>1 DEF ReqInv, CallRight, StatsOps
<1>4. TypeOK'
  <2>1. result' \in [op : Ops, wait : Kinds, status : {"SUCCESS", "FAIL"}, answered : BOOLEAN]
    BY <1>1 DEF Ops, Kinds
  <2> QED  BY <1>1, <1>2, <2>1 DEF ReqInv, TypeOK
<1>5. CallRight' /\ Polls' /\ Fresh'
  BY <1>2 DEF CallRight, Polls, Fresh
<1>6. Numbered'
  BY <1>1, <1>2 DEF ReqInv, Numbered, Untouched
<1>7. Outstanding'
  BY <1>1 DEF ReqInv, Outstanding
<1>8. Buffers'
  BY <1>1, <1>2, <1>3 DEF ReqInv, Buffers, StatsBuffer, RfBuffer, RegBuffer, StatsOps
<1>9. AnswersMatch'
  BY <1>1, <1>2 DEF ReqInv, AnswersMatch, TrueSuccess, Trusted, RegChangeThere
<1>10. StaleWrites'
  BY <1>1 DEF ReqInv, StaleWrites
<1> QED  BY <1>4, <1>5, <1>6, <1>7, <1>8, <1>9, <1>10 DEF ReqInv

(***************************************************************************)
(* Answers.                                                                *)
(***************************************************************************)

(* What the handlers have in common: an answer is ignored, or sets the     *)
(* flag of its kind and may write to a buffer that is registered; it       *)
(* touches no other flag.  A regulatory change that finds no memory takes  *)
(* the earlier one away.                                                   *)
Handled(a) ==
  /\ UNCHANGED <<mode, calls, call, waits, unsent, result>>
  /\ dev' \in DevFields /\ denied' \in BOOLEAN
  /\ country' = IF a.kind = "setreg" THEN a.arg ELSE country
  /\ \A w \in Kinds \ {a.kind} : Pending(w)' <=> Pending(w)
  /\ dev'.fw_stats = dev.fw_stats /\ dev'.rf_test_cap_data = dev.rf_test_cap_data
  /\ dev'.reg_chan_info = dev.reg_chan_info
  /\ dev'.rf_test_type \in {dev.rf_test_type, "MAX"}
  /\ \/ /\ seen' = seen /\ wild' = wild
        /\ Pending(a.kind)' <=> Pending(a.kind)
        /\ (dev'.reg_change = dev.reg_change /\ denied' = denied) \/ denied'
     \/ /\ seen' = [seen EXCEPT ![a.kind] =
                      [by |-> a.by, during |-> IF Idle THEN 0 ELSE calls]]
        /\ ~Pending(a.kind)'
        /\ IF a.kind = "setreg" THEN dev'.reg_change # NoChange
           ELSE dev'.reg_change = dev.reg_change /\ denied' = denied
        /\ \/ wild' = wild
           \/ a.kind = "stats" /\ dev.stats_req /\ Write("stats", dev.fw_stats)
           \/ a.kind = "rf" /\ dev.rf_test_type = "rx_cap" /\ Write("rf", dev.rf_test_cap_data)
           \/ a.kind = "getreg" /\ Write("getreg", dev.reg_chan_info)

(* The flags of the other kinds stay.                                      *)
OtherFlags(k) ==
  /\ k # "init" => dev'.fw_init_done = dev.fw_init_done
  /\ k # "stats" => dev'.stats_req = dev.stats_req
  /\ k # "radio" => dev'.radio_cmd_done = dev.radio_cmd_done
  /\ k # "rf" => dev'.rf_test_type = dev.rf_test_type
  /\ k # "conf" => dev'.off_raw_tx_cmd_done = dev.off_raw_tx_cmd_done
  /\ k # "getreg" => dev'.alpha2_valid = dev.alpha2_valid
  /\ k # "setreg" => dev'.reg_set_status = dev.reg_set_status
  /\ k # "ifflags" => dev'.ifflags = dev.ifflags

OtherFields ==
  /\ dev' \in DevFields
  /\ dev'.fw_stats = dev.fw_stats /\ dev'.rf_test_cap_data = dev.rf_test_cap_data
  /\ dev'.reg_chan_info = dev.reg_chan_info

LEMMA OthersPending ==
  ASSUME NEW k \in Kinds, OtherFlags(k)
  PROVE  \A w \in Kinds \ {k} : Pending(w)' <=> Pending(w)
<1> SUFFICES ASSUME NEW w \in Kinds, w # k PROVE Pending(w)' <=> Pending(w)
  OBVIOUS
<1>1. \/ w = "init" \/ w = "stats" \/ w = "radio" \/ w = "rf" \/ w = "conf" \/ w = "getreg"
      \/ w = "setreg" \/ w = "ifflags"
  BY DEF Kinds
<1> QED  BY <1>1 DEF OtherFlags, Pending

LEMMA EventHandled ==
  ASSUME TypeOK, NEW a, a.kind \in Kinds, a.by \in CallIds, a.arg \in Args,
         a.kind = "setreg" => a.arg \in Countries, Event(a)
  PROVE  Handled(a)
<1>1. /\ UNCHANGED <<mode, calls, call, waits, unsent, result>>
      /\ country' = IF a.kind = "setreg" THEN a.arg ELSE country
  BY DEF Event
<1>2. dev \in DevFields /\ country \in Countries /\ Countries \subseteq Countries \cup {"none"}
  BY DEF TypeOK
<1> denied \in BOOLEAN
  BY DEF TypeOK
<1>3. CASE dev' = dev /\ seen' = seen /\ wild' = wild /\ denied' = denied
  BY <1>1, <1>2, <1>3 DEF Handled, Pending
<1>4. CASE INIT_DONE(a) /\ a.kind = "init" /\ denied' = denied
  <2>1. OtherFlags("init") /\ OtherFields /\ dev'.reg_change = dev.reg_change /\ dev'.fw_init_done
    <3>1. dev' = [dev EXCEPT !.fw_init_done = TRUE]
      BY <1>4 DEF INIT_DONE, Accept
    <3>2. dev' \in DevFields
      BY <1>2, <3>1 DEF DevFields
    <3> QED  BY <1>2, <3>1, <3>2 DEF OtherFlags, OtherFields, DevFields
  <2> QED  BY <1>1, <1>4, <2>1, OthersPending DEF Handled, OtherFlags, OtherFields, INIT_DONE, Accept, Pending
<1>5. CASE stats_process(a) /\ a.kind = "stats" /\ dev.stats_req /\ denied' = denied
  <2>1. OtherFlags("stats") /\ OtherFields /\ dev'.reg_change = dev.reg_change /\ ~dev'.stats_req
    <3>1. dev' = [dev EXCEPT !.stats_req = FALSE]
      BY <1>5 DEF stats_process, Accept
    <3>2. dev' \in DevFields
      BY <1>2, <3>1 DEF DevFields
    <3> QED  BY <1>2, <3>1, <3>2 DEF OtherFlags, OtherFields, DevFields
  <2> QED  BY <1>1, <1>5, <2>1, OthersPending
           DEF Handled, OtherFlags, OtherFields, stats_process, Accept, Pending
<1>6. CASE rf_test_process(a) /\ a.kind = "rf" /\ a.arg = dev.rf_test_type /\ denied' = denied
  <2>1. OtherFlags("rf") /\ OtherFields /\ dev'.reg_change = dev.reg_change /\ dev'.rf_test_type = "MAX"
    <3>1. dev' = [dev EXCEPT !.rf_test_type = "MAX"]
      BY <1>6 DEF rf_test_process, Accept
    <3>2. dev' \in DevFields
      BY <1>2, <3>1 DEF DevFields
    <3> QED  BY <1>2, <3>1, <3>2 DEF OtherFlags, OtherFields, DevFields
  <2> QED  BY <1>1, <1>6, <2>1, OthersPending
           DEF Handled, OtherFlags, OtherFields, rf_test_process, Accept, Pending
<1>7. CASE RADIOCMD_STATUS(a) /\ a.kind = "radio" /\ denied' = denied
  <2>1. OtherFlags("radio") /\ OtherFields /\ dev'.reg_change = dev.reg_change /\ dev'.radio_cmd_done
    <3>1. PICK st \in {"ok", "bad"} : dev' = [dev EXCEPT !.radio_cmd_status = st, !.radio_cmd_done = TRUE]
      BY <1>7 DEF RADIOCMD_STATUS, Accept
    <3>2. dev' \in DevFields
      BY <1>2, <3>1 DEF DevFields
    <3> QED  BY <1>2, <3>1, <3>2 DEF OtherFlags, OtherFields, DevFields
  <2> QED  BY <1>1, <1>7, <2>1, OthersPending
           DEF Handled, OtherFlags, OtherFields, RADIOCMD_STATUS, Accept, Pending
<1>8. CASE OFFLOADED_RAWTX_STATUS(a) /\ a.kind = "conf" /\ denied' = denied
  <2>1. OtherFlags("conf") /\ OtherFields /\ dev'.reg_change = dev.reg_change
        /\ ~dev'.off_raw_tx_cmd_done
    <3>1. PICK st \in {"ok", "bad"} : dev' = [dev EXCEPT !.off_raw_tx_cmd_status = st, !.off_raw_tx_cmd_done = FALSE]
      BY <1>8 DEF OFFLOADED_RAWTX_STATUS, Accept
    <3>2. dev' \in DevFields
      BY <1>2, <3>1 DEF DevFields
    <3> QED  BY <1>2, <3>1, <3>2 DEF OtherFlags, OtherFields, DevFields
  <2> QED  BY <1>1, <1>8, <2>1, OthersPending
           DEF Handled, OtherFlags, OtherFields, OFFLOADED_RAWTX_STATUS, Accept, Pending
<1>9. CASE GET_REG(a) /\ a.kind = "getreg" /\ denied' = denied
  <2>1. OtherFlags("getreg") /\ OtherFields /\ dev'.reg_change = dev.reg_change
        /\ dev'.alpha2_valid
    <3>1. dev' = [dev EXCEPT !.alpha2 = country, !.alpha2_valid = TRUE]
      BY <1>9 DEF GET_REG, Accept
    <3>2. dev' \in DevFields
      BY <1>2, <3>1 DEF DevFields
    <3> QED  BY <1>2, <3>1, <3>2 DEF OtherFlags, OtherFields, DevFields
  <2> QED  BY <1>1, <1>9, <2>1, OthersPending
           DEF Handled, OtherFlags, OtherFields, GET_REG, Accept, Pending
<1>10. CASE a.kind = "setreg" /\ REG_CHANGE(a, [alpha2 |-> a.arg, user |-> a.by # 0])
  <2>1. [alpha2 |-> a.arg, user |-> a.by # 0] \in [alpha2 : Countries, user : BOOLEAN]
    BY <1>10
  <2>2. [alpha2 |-> a.arg, user |-> a.by # 0] # NoChange
    BY <1>10 DEF NoChange
  <2>3. ASSUME Accept(a, [dev EXCEPT !.reg_change = [alpha2 |-> a.arg, user |-> a.by # 0],
                                     !.reg_set_status = TRUE]), UNCHANGED wild,
               denied' \in BOOLEAN
        PROVE  Handled(a)
    <3>1. OtherFlags("setreg") /\ OtherFields /\ dev'.reg_set_status
          /\ dev'.reg_change = [alpha2 |-> a.arg, user |-> a.by # 0]
      <4>1. PICK change : change = [alpha2 |-> a.arg, user |-> a.by # 0]
        OBVIOUS
      <4>2. dev' = [dev EXCEPT !.reg_change = change, !.reg_set_status = TRUE]
        BY <2>3, <4>1 DEF Accept
      <4>3. change \in {NoChange} \cup [alpha2 : Countries, user : BOOLEAN]
        BY <2>1, <4>1
      <4>4. dev' \in DevFields
        BY <1>2, <4>2, <4>3 DEF DevFields
      <4>5. OtherFlags("setreg") /\ OtherFields
        BY <1>2, <4>2, <4>4 DEF OtherFlags, OtherFields, DevFields
      <4>6. dev'.reg_set_status /\ dev'.reg_change = change
        BY <1>2, <4>2 DEF DevFields
      <4> QED  BY <4>1, <4>5, <4>6
    <3>2. \A w \in Kinds \ {"setreg"} : Pending(w)' <=> Pending(w)
      BY <1>10, <3>1, OthersPending
    <3>3. dev'.reg_change # NoChange /\ dev'.rf_test_type = dev.rf_test_type
      BY <2>2, <3>1 DEF OtherFlags
    <3>4. ~Pending("setreg")'
      BY <3>1 DEF Pending
    <3>5. /\ seen' = [seen EXCEPT ![a.kind] =
                        [by |-> a.by, during |-> IF Idle THEN 0 ELSE calls]]
          /\ \A w \in Kinds \ {a.kind} : Pending(w)' <=> Pending(w)
          /\ ~Pending(a.kind)'
      BY <1>10, <2>3, <3>2, <3>4 DEF Accept
    <3> HIDE DEF Accept
    <3> QED  BY <1>1, <1>10, <2>3, <3>1, <3>3, <3>5, ZenonT(30) DEF Handled, OtherFields
  <2>4. ASSUME dev' = [dev EXCEPT !.reg_change = NoChange], denied' = TRUE,
               UNCHANGED <<seen, wild>>
        PROVE  Handled(a)
    <3>1. dev' \in DevFields
      BY <1>2, <2>4 DEF DevFields
    <3>2. \A w \in Kinds : Pending(w)' <=> Pending(w)
      BY <1>2, <2>4 DEF DevFields, Pending
    <3>3. /\ dev'.fw_stats = dev.fw_stats /\ dev'.rf_test_cap_data = dev.rf_test_cap_data
          /\ dev'.reg_chan_info = dev.reg_chan_info /\ dev'.rf_test_type = dev.rf_test_type
      BY <1>2, <2>4 DEF DevFields
    <3> QED  BY <1>1, <2>4, <3>1, <3>2, <3>3 DEF Handled
  <2> QED  BY <1>10, <2>3, <2>4 DEF REG_CHANGE
<1>11. CASE a.kind = "ifflags" /\ IFFLAGS_STATUS(a) /\ denied' = denied
  <2>1. ASSUME Accept(a, [dev EXCEPT !.ifflags = TRUE]), UNCHANGED wild
        PROVE  Handled(a)
    <3>1. OtherFlags("ifflags") /\ OtherFields /\ dev'.reg_change = dev.reg_change
          /\ dev'.ifflags
      BY <1>2, <2>1 DEF Accept, OtherFlags, OtherFields, DevFields
    <3> QED  BY <1>1, <1>11, <2>1, <3>1, OthersPending
             DEF Handled, OtherFlags, OtherFields, Accept, Pending
  <2> QED  BY <1>3, <1>11, <2>1 DEF IFFLAGS_STATUS, Ignore
<1>12. CASE /\ \/ stats_process(a) /\ ~dev.stats_req
               \/ rf_test_process(a) /\ a.arg # dev.rf_test_type
            /\ denied' = denied
  BY <1>3, <1>12 DEF stats_process, rf_test_process, Ignore
<1> QED
  BY <1>3, <1>4, <1>5, <1>6, <1>7, <1>8, <1>9, <1>10, <1>11, <1>12
  DEF Event, sys_fmac_event_callback, rt_fmac_event_callback, off_raw_tx_fmac_event_callback,
      sys_proc_events, rt_proc_events, off_raw_tx_proc_events, rt_ctrl_process,
      off_raw_tx_ctrl_process, Ignore

(* Who asked for an answer that is written to a buffer, and who gave up.   *)
LEMMA WriteAllowed ==
  ASSUME ReqInv, NEW a \in owed, Handled(a)
  PROVE  StaleWrites'
<1>1. UNCHANGED <<mode, calls, call, used, reused, gave_up, hasty, unsent>> /\ calls \in Nat
  BY DEF Handled, ReqInv, TypeOK, CallIds, waits
<1>2. a.kind \in {"stats", "rf", "getreg"} =>
        \/ a.kind \in gave_up
        \/ ~Idle /\ call.op # "stats_reset" /\ call.wait = a.kind
  BY DEF ReqInv, Outstanding, Real
<1>3. CASE wild' = wild
  BY <1>1, <1>3 DEF ReqInv, StaleWrites
<1>4. CASE a.kind = "stats" /\ dev.stats_req /\ Write("stats", dev.fw_stats)
  <2>1. CASE ~Idle /\ call.op \in StatsOps
    <3>1. wild' = wild
      BY <1>4, <2>1 DEF ReqInv, Buffers, StatsBuffer, Write, Live
    <3> QED  BY <1>3, <3>1
  <2>2. CASE ~(~Idle /\ call.op \in StatsOps)
    <3>1. "stats" \in gave_up
      BY <1>2, <1>4, <2>2 DEF ReqInv, CallRight, StatsOps
    <3>2. dev.fw_stats # 0 /\ ("stats" \in unsent \/ mode # "SYS")
      BY <1>4, <2>2 DEF ReqInv, Buffers, StatsBuffer
    <3>3. wild' \subseteq wild \cup {<<"stats", "stale">>}
      BY <1>4, <3>2 DEF Write
    <3> QED  BY <1>1, <3>1, <3>2, <3>3 DEF ReqInv, StaleWrites
  <2> QED  BY <2>1, <2>2
<1>5. CASE a.kind = "rf" /\ dev.rf_test_type = "rx_cap" /\ Write("rf", dev.rf_test_cap_data)
  <2>1. CASE ~Idle /\ call.op = "rf_test" /\ dev.rf_test_cap_data = calls
    <3>1. wild' = wild
      BY <1>5, <2>1 DEF Write, Live
    <3> QED  BY <1>3, <3>1
  <2>2. CASE ~(~Idle /\ call.op = "rf_test" /\ dev.rf_test_cap_data = calls)
    <3>1. /\ Idle \/ call.wait # "rf"
          /\ dev.rf_test_cap_data # 0 /\ (hasty \/ "rf" \in unsent)
      BY <1>5, <2>2 DEF ReqInv, Buffers, RfBuffer
    <3>2. "rf" \in gave_up
      BY <1>2, <1>5, <3>1
    <3>3. wild' \subseteq wild \cup {<<"rf", "stale">>}
      BY <1>5, <3>1 DEF Write
    <3> QED  BY <1>1, <3>1, <3>2, <3>3 DEF ReqInv, StaleWrites
  <2> QED  BY <2>1, <2>2
<1>6. CASE a.kind = "getreg" /\ Write("getreg", dev.reg_chan_info)
  <2>1. CASE ~Idle /\ call.wait = "getreg"
    <3>1. wild' \subseteq wild \cup {<<"getreg", "null">>}
      BY <1>6, <2>1 DEF ReqInv, Buffers, RegBuffer, Write, Live
    <3> QED  BY <1>1, <3>1 DEF ReqInv, StaleWrites
  <2>2. CASE ~(~Idle /\ call.wait = "getreg")
    <3>1. "getreg" \in gave_up
      BY <1>2, <1>6, <2>2
    <3>2. wild' \subseteq wild \cup {<<"getreg", "null">>, <<"getreg", "stale">>}
      BY <1>6 DEF Write
    <3> QED  BY <1>1, <3>1, <3>2 DEF ReqInv, StaleWrites
  <2> QED  BY <2>1, <2>2
<1> QED  BY <1>3, <1>4, <1>5, <1>6 DEF Handled

LEMMA EventKeepsInv ==
  ASSUME ReqInv, NEW a, Handled(a), a.kind \in Kinds, a.arg \in Args,
         \/ a \in owed /\ owed' = owed \ {a}
         \/ a.kind = "setreg" /\ a.by = 0 /\ a.arg \in Countries /\ owed' = owed
  PROVE  ReqInv'
<1>1. /\ UNCHANGED <<mode, calls, call, used, reused, gave_up, hasty, unsent, result>>
      /\ dev' \in DevFields /\ calls \in Nat /\ owed' \subseteq owed
  BY DEF Handled, ReqInv, TypeOK, CallIds, waits
<1>2. /\ a.kind = "setreg" => a.arg \in Countries
      /\ a.by = 0 \/ (a \in owed /\ owed' = owed \ {a} /\ a.by \in 1 .. calls /\ <<a.kind, a.by>> \notin used)
      /\ a.by \in CallIds /\ a.by <= calls
  BY <1>1 DEF ReqInv, Numbered, TypeOK, CallIds
<1>3. /\ dev'.fw_stats = dev.fw_stats /\ dev'.rf_test_cap_data = dev.rf_test_cap_data
      /\ dev'.reg_chan_info = dev.reg_chan_info
      /\ dev'.rf_test_type \in {dev.rf_test_type, "MAX"}
      /\ \A w \in Kinds \ {a.kind} : Pending(w)' <=> Pending(w)
      /\ \/ /\ seen' = seen /\ (Pending(a.kind)' <=> Pending(a.kind))
            /\ (dev'.reg_change = dev.reg_change /\ denied' = denied) \/ denied'
         \/ /\ seen' = [seen EXCEPT ![a.kind] =
                          [by |-> a.by, during |-> IF Idle THEN 0 ELSE calls]]
            /\ ~Pending(a.kind)'
            /\ IF a.kind = "setreg" THEN dev'.reg_change # NoChange
               ELSE dev'.reg_change = dev.reg_change /\ denied' = denied
  BY DEF Handled
<1>4. \A w \in Kinds : Pending(w)' => Pending(w)
  BY <1>3
<1>5. call.wait \in Kinds
  BY DEF ReqInv, TypeOK, Calls
<1>7. TypeOK'
  <2>1. seen' \in [Kinds -> [by : CallIds, during : CallIds]]
    BY <1>2, <1>3 DEF ReqInv, TypeOK, CallIds
  <2>2. country' \in Countries
    BY <1>2 DEF Handled, ReqInv, TypeOK
  <2>3. wild' \subseteq {"stats", "rf", "getreg"} \X {"stale", "null"}
    BY DEF Handled, Write, ReqInv, TypeOK
  <2>4. denied' \in BOOLEAN
    BY DEF Handled
  <2> QED  BY <1>1, <2>1, <2>2, <2>3, <2>4 DEF ReqInv, TypeOK
<1>8. CallRight'
  BY <1>1 DEF ReqInv, CallRight, Idle
<1>9. Polls'
  BY <1>1, <1>4, <1>5 DEF ReqInv, Polls
<1>10. Fresh'
  <2>1. call' = call /\ calls' = calls /\ used' = used
    BY <1>1
  <2>2. seen \in [Kinds -> [by : CallIds, during : CallIds]]
    BY DEF ReqInv, TypeOK
  <2>3. CASE seen' = seen /\ (Pending(a.kind)' <=> Pending(a.kind))
    <3>1. \A w \in Kinds : Pending(w)' <=> Pending(w)
      BY <1>3, <2>3
    <3>2. Pending(call.wait)' <=> Pending(call.wait)
      BY <1>5, <2>1, <3>1
    <3> QED  BY <2>1, <2>3, <3>2 DEF ReqInv, Fresh, Real, Idle
  <2>4. CASE ~(seen' = seen /\ (Pending(a.kind)' <=> Pending(a.kind))) /\ Real
    <3>1. /\ seen' = [seen EXCEPT ![a.kind] = [by |-> a.by, during |-> calls]]
          /\ \A w \in Kinds \ {a.kind} : Pending(w)' <=> Pending(w)
      BY <1>3, <2>4 DEF Real
    <3>2. CASE call.wait = a.kind
      <4>1. seen'[call.wait].during = calls /\ seen'[call.wait].by = a.by
        BY <2>2, <3>1, <3>2
      <4>2. a.by = 0 \/ <<call.wait, a.by>> \notin used
        BY <1>2, <3>2
      <4> QED  BY <2>1, <4>1, <4>2 DEF Fresh
    <3>3. CASE call.wait # a.kind
      <4>1. seen'[call.wait] = seen[call.wait]
        BY <1>5, <2>2, <3>1, <3>3
      <4>2. Pending(call.wait)' <=> Pending(call.wait)
        BY <1>5, <2>1, <3>1, <3>3
      <4> QED  BY <2>1, <2>4, <4>1, <4>2 DEF ReqInv, Fresh
    <3> QED  BY <3>2, <3>3
  <2>5. CASE ~Real
    BY <2>1, <2>5 DEF Fresh, Real, Idle
  <2> QED  BY <2>3, <2>4, <2>5
<1>11. Numbered'
  <2>1. \A b \in owed' : b \in owed /\ b.kind \in Kinds /\ b # a
    BY <1>1, <1>2 DEF ReqInv, TypeOK, Numbered
  <2>2. \A b \in owed' : seen'[b.kind].by # b.by
    <3> SUFFICES ASSUME NEW b \in owed' PROVE seen'[b.kind].by # b.by
      OBVIOUS
    <3>1. b \in owed /\ b.by \in 1 .. calls /\ seen[b.kind].by # b.by
      BY <2>1 DEF ReqInv, Numbered
    <3>2. ~(b.kind = a.kind /\ b.by = a.by)
      BY <1>1, <1>2, <2>1, <3>1 DEF ReqInv, Numbered
    <3> QED  BY <1>3, <2>1, <3>1, <3>2 DEF ReqInv, TypeOK
  <2>3. \A k \in Kinds, n \in Nat : n # 0 /\ Untouched(k, n) => Untouched(k, n)'
    <3> SUFFICES ASSUME NEW k \in Kinds, NEW n \in Nat, n # 0, Untouched(k, n)
                 PROVE  Untouched(k, n)'
      OBVIOUS
    <3>1. ~(a.kind = k /\ a.by = n)
      BY <1>2 DEF Untouched
    <3>2. seen'[k].by # n
      BY <1>3, <3>1 DEF Untouched, ReqInv, TypeOK
    <3> QED  BY <1>1, <3>2 DEF Untouched
  <2>4. \A k \in Kinds, n \in Nat : n > calls => Untouched(k, n)'
    BY <1>1, <2>3 DEF ReqInv, Numbered
  <2>5. call.op # "none" => calls > 0
    BY DEF ReqInv, CallRight
  <2>6. {"setreg", "getreg"} \subseteq Kinds
    BY DEF Kinds
  <2>7. /\ call.op = "set_reg" /\ call.wait = "getreg" => Untouched("setreg", calls)'
        /\ call.op = "off_raw_tx_conf" /\ call.wait = "conf" => Untouched("getreg", calls)'
    BY <1>1, <2>3, <2>5, <2>6 DEF ReqInv, Numbered
  <2>8. \A b \in owed' : /\ b.by \in 1 .. calls /\ <<b.kind, b.by>> \notin used
                         /\ b.kind = "setreg" => b.arg \in Countries
    BY <2>1 DEF ReqInv, Numbered
  <2>9. \A b, c \in owed' : b.kind = c.kind /\ b.by = c.by => b = c
    BY <2>1 DEF ReqInv, Numbered
  <2> QED  BY <1>1, <2>2, <2>4, <2>7, <2>8, <2>9 DEF Numbered, Untouched
<1>12. Outstanding'
  <2> SUFFICES ASSUME NEW b \in owed', b.kind \in {"stats", "rf", "getreg"}, b.kind \notin gave_up
               PROVE  b.by = calls /\ Real /\ call.wait = b.kind /\ Pending(b.kind)'
    BY <1>1 DEF Outstanding, Real, Idle
  <2>1. b \in owed /\ b.by = calls /\ Real /\ call.wait = b.kind /\ Pending(b.kind)
    BY <1>1 DEF ReqInv, Outstanding
  <2>2. b.kind # a.kind
    <3>1. ASSUME b.kind = a.kind PROVE FALSE
      <4>1. a \in owed /\ owed' = owed \ {a}
        BY <3>1
      <4>2. a.by = calls
        BY <3>1, <4>1 DEF ReqInv, Outstanding
      <4>3. a = b
        BY <2>1, <3>1, <4>1, <4>2 DEF ReqInv, Numbered
      <4> QED  BY <4>1, <4>3
    <3> QED  BY <3>1
  <2>3. Pending(b.kind)'
    <3>1. b.kind \in Kinds
      BY DEF Kinds
    <3> QED  BY <1>3, <2>1, <2>2, <3>1
  <2> QED  BY <2>1, <2>3
<1>13. Buffers'
  <2>1. {"stats", "rf"} \subseteq Kinds
    BY DEF Kinds
  <2>2. dev'.stats_req => dev.stats_req
    BY <1>4, <2>1 DEF Pending
  <2>3. dev'.rf_test_type = "rx_cap" => dev.rf_test_type = "rx_cap"
    BY <1>3
  <2>4. /\ dev'.fw_stats = dev.fw_stats /\ dev'.rf_test_cap_data = dev.rf_test_cap_data
        /\ dev'.reg_chan_info = dev.reg_chan_info
    BY <1>3
  <2>5. Idle' <=> Idle
    BY <1>1 DEF Idle
  <2>6. StatsBuffer'
    BY <1>1, <2>2, <2>4, <2>5 DEF ReqInv, Buffers, StatsBuffer
  <2>7. RfBuffer'
    BY <1>1, <2>3, <2>4, <2>5 DEF ReqInv, Buffers, RfBuffer
  <2>8. RegBuffer'
    BY <1>1, <2>4, <2>5 DEF ReqInv, Buffers, RegBuffer
  <2> QED  BY <2>6, <2>7, <2>8 DEF Buffers
<1>14. AnswersMatch'
  <2>1. RegChangeThere'
    <3>1. "setreg" \in Kinds
      BY DEF Kinds
    <3>2. \/ /\ Pending("setreg")' <=> Pending("setreg")
             /\ (dev'.reg_change = dev.reg_change /\ denied' = denied) \/ denied'
          \/ dev'.reg_change # NoChange
      BY <1>3, <3>1
    <3>3. CASE dev'.reg_change # NoChange \/ denied'
      BY <3>3 DEF RegChangeThere
    <3>4. CASE dev'.reg_change = NoChange /\ ~denied'
      <4>1. dev'.reg_set_status <=> dev.reg_set_status
        BY <3>2, <3>4 DEF Pending
      <4> QED  BY <1>1, <3>2, <3>4, <4>1 DEF ReqInv, AnswersMatch, RegChangeThere
    <3> QED  BY <3>3, <3>4
  <2> QED  BY <1>1, <2>1 DEF ReqInv, AnswersMatch, TrueSuccess, Trusted
<1>15. StaleWrites'
  <2>1. CASE a \in owed
    BY <2>1, WriteAllowed
  <2>2. CASE a.kind = "setreg"
    BY <1>1, <2>2 DEF Handled, ReqInv, StaleWrites
  <2> QED  BY <2>1, <2>2
<1> QED  BY <1>7, <1>8, <1>9, <1>10, <1>11, <1>12, <1>13, <1>14, <1>15 DEF ReqInv

LEMMA NextKeepsInv ==
  ASSUME ReqInv, [Next]_vars
  PROVE  ReqInv'
<1>1. CASE Requests
  BY <1>1, RequestsAsk, AsksKeepsInv DEF ReqInv
<1>2. CASE Waiting
  BY <1>2, SleepKeepsInv, ClearKeepsInv, DoneKeepsInv, UnansweredKeepsInv, NewRegKeepsInv, ConfKeepsInv
     DEF Waiting
<1>3. CASE Answer
  <2>1. PICK a \in owed : owed' = owed \ {a} /\ Event(a)
    BY <1>3 DEF Answer
  <2>2. /\ a.kind \in Kinds /\ a.by \in CallIds /\ a.arg \in Args
        /\ a.kind = "setreg" => a.arg \in Countries
    BY DEF ReqInv, TypeOK, Numbered
  <2>3. Handled(a)
    BY <2>1, <2>2, EventHandled DEF ReqInv
  <2> QED  BY <2>1, <2>2, <2>3, EventKeepsInv
<1>4. CASE DomainChanges
  <2>1. PICK c \in Countries : Event([kind |-> "setreg", by |-> 0, arg |-> c])
    BY <1>4 DEF DomainChanges
  <2> DEFINE a == [kind |-> "setreg", by |-> 0, arg |-> c]
  <2>2. /\ a.kind = "setreg" /\ a.by = 0 /\ a.arg = c /\ owed' = owed
        /\ a.kind \in Kinds /\ a.by \in CallIds /\ a.arg \in Args
    BY <1>4 DEF DomainChanges, Kinds, CallIds, Args
  <2>3. Event(a)
    BY <2>1
  <2> HIDE DEF a
  <2>4. Handled(a)
    BY <2>2, <2>3, EventHandled DEF ReqInv
  <2> QED  BY <2>2, <2>4, EventKeepsInv
<1>5. CASE UNCHANGED vars
  <2> USE <1>5 DEF ReqInv, vars, rpu, waits
  <2>1. TypeOK'
    BY DEF TypeOK
  <2>2. CallRight'
    BY DEF CallRight, Idle
  <2>3. Polls'
    BY DEF Polls, Pending
  <2>4. Fresh'
    BY DEF Fresh, Real, Idle, Pending
  <2>5. Numbered'
    BY DEF Numbered, Untouched
  <2>6. Outstanding'
    BY DEF Outstanding, Real, Idle, Pending
  <2>7. StatsBuffer'
    BY DEF Buffers, StatsBuffer, Idle
  <2>8. RfBuffer' /\ RegBuffer'
    BY DEF Buffers, RfBuffer, RegBuffer, Idle
  <2>9. AnswersMatch'
    BY DEF AnswersMatch, TrueSuccess, Trusted, RegChangeThere
  <2>10. StaleWrites'
    BY DEF StaleWrites
  <2> QED  BY <2>1, <2>2, <2>3, <2>4, <2>5, <2>6, <2>7, <2>8, <2>9, <2>10 DEF Buffers
<1> QED  BY <1>1, <1>2, <1>3, <1>4, <1>5 DEF Next

(***************************************************************************)
(* Theorems.                                                               *)
(***************************************************************************)

(* The invariant of the requests and of the answers that are owed.         *)
THEOREM RequestInvariant == Spec => []ReqInv
BY InvInit, NextKeepsInv, PTL DEF Spec

(* Every variable keeps its type.                                          *)
THEOREM TypeCorrect == Spec => []TypeOK
<1>1. ReqInv => TypeOK
  BY DEF ReqInv
<1> QED  BY <1>1, RequestInvariant, PTL

(* A request that succeeds was answered while it ran, no answer serves two *)
(* of them: the flags are cleared before the commands are sent             *)
(* (fmac_api.c).  The change set_reg reads is there, unless another one    *)
(* came after it and found no memory (radio_test/fmac_event.c).            *)
THEOREM AnswersToTheirCalls == Spec => []AnswersMatch
<1>1. ReqInv => AnswersMatch
  BY DEF ReqInv
<1> QED  BY <1>1, RequestInvariant, PTL

(* Requests leave nothing registered that a late answer finds, but for the *)
(* named cases (fmac_api.c, fmac_event.c).                                 *)
THEOREM NothingIsLeft == Spec => []NothingLeft
<1>1. ReqInv => NothingLeft
  <2> SUFFICES ASSUME ReqInv PROVE NotStuck
    BY DEF ReqInv, NothingLeft
  <2> QED  BY DEF ReqInv, Buffers, StatsBuffer, NotStuck
<1> QED  BY <1>1, RequestInvariant, PTL

=============================================================================
