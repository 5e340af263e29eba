------------------------------- MODULE FwLoad -------------------------------
(***************************************************************************)
(* Loading firmware: fw_parse and fw_load of the FMAC, and what they call  *)
(* in the HAL to reset the two processors of the RPU, to copy the patches  *)
(* to their memories in chunks, and to boot them.                          *)
(*                                                                         *)
(* A patch has two parts, measured in units of which CHUNK make a chunk.   *)
(* Any access of the RPU, and any allocation, may fail.  A processor may   *)
(* stay in reset, or not come up.  Loads follow one another, with or       *)
(* without a loss of the RPU's power between them: its memory and its      *)
(* sleep control registers keep what they hold until then; the host's      *)
(* static table wifi_proc keeps it for ever.                               *)
(***************************************************************************)
EXTENDS Integers, Sequences

CONSTANTS
  CHUNK,      (* MAX_PATCH_CHUNK_SIZE, in units                            *)
  Sizes,      (* of the parts of patches; 0: the part is not there         *)
  Features,   (* feature flags of firmware files                           *)
  Wanted,     (* those of them that the op mode accepts                    *)
  MAX_LOADS   (* bound: calls of fw_load                                   *)

ASSUME FwAssumption ==
  CHUNK \in Nat \ {0} /\ Sizes \subseteq Nat /\ Wanted \subseteq Features /\ MAX_LOADS \in Nat

P     == {"LMAC", "UMAC"}
Units == UNION {1 .. n : n \in Sizes}

VARIABLES
  present,    (* wifi_proc[].is_patch_present                              *)
  loads,      (* loads begun                                               *)
  offer,      (* sizes of the parts in the file that is loaded             *)
  pc, proc, part, chunk,
              (* the step of fw_load, and what it is at                    *)
  curr,       (* curr_proc                                                 *)
  result,     (* of the last load                                          *)
  mem,        (* for each unit of patch memory, the load that wrote it     *)
  sleepctrl,  (* the patch offset is in the sleep control register         *)
  rpu,        (* "off", "reset", "waiting", "booting" or "running"         *)
  signature,  (* the boot signature is in memory                           *)
  boot,       (* the load that booted the processor last                   *)
  asked       (* that boot asked for the patch                             *)

host == <<present, loads, offer, proc, part, chunk, curr, result, pc>>
dev  == <<mem, sleepctrl, rpu, signature, boot, asked>>
vars == <<host, dev>>

Nothing == [p \in P |-> [q \in {"bimg", "bin"} |-> [u \in Units |-> 0]]]
NoPatch == [p \in P |-> [q \in {"bimg", "bin"} |-> 0]]

Init ==
  /\ present = [p \in P |-> TRUE] /\ loads = 0 /\ offer = NoPatch
  /\ pc = "idle" /\ proc = "LMAC" /\ part = "bimg" /\ chunk = 0
  /\ curr = "LMAC" /\ result = "none"
  /\ mem = Nothing /\ sleepctrl = [p \in P |-> FALSE] /\ rpu = [p \in P |-> "off"]
  /\ signature = [p \in P |-> FALSE]
  /\ boot = [p \in P |-> 0] /\ asked = [p \in P |-> FALSE]

At(step, p) == pc' = step /\ proc' = p
Same == UNCHANGED <<part, chunk>>

(* The call ends without success; curr_proc is LMAC on the way out.        *)
Fail ==
  /\ pc' = "idle" /\ result' = "fail" /\ curr' = "LMAC"
  /\ UNCHANGED <<present, loads, offer, proc, part, chunk>>

(***************************************************************************)
(* Parsing.                                                                *)
(***************************************************************************)

nrf_wifi_patch_feature_flags_compat(flags) == flags \in Wanted

nrf_wifi_fmac_fw_parse ==
  /\ pc = "idle" /\ loads < MAX_LOADS
  /\ \E flags \in Features, ok \in BOOLEAN, sizes \in [P -> [{"bimg", "bin"} -> Sizes]] :
       IF ok /\ nrf_wifi_patch_feature_flags_compat(flags)
       THEN /\ loads' = loads + 1 /\ offer' = sizes /\ result' = "none"
            /\ At("pulse", "LMAC")
            /\ UNCHANGED <<present, part, chunk, curr>>
       ELSE Fail
  /\ UNCHANGED dev

Offered(p) == \A q \in {"bimg", "bin"} : offer[p][q] # 0

(***************************************************************************)
(* nrf_wifi_fmac_fw_reset, of the LMAC and then of the UMAC.               *)
(***************************************************************************)

nrf_wifi_hal_proc_reset ==
  /\ pc = "pulse"
  /\ \/ /\ At("poll", proc) /\ curr' = proc
        /\ rpu' = [rpu EXCEPT ![proc] = "reset"]
        /\ UNCHANGED <<present, loads, offer, result, mem, sleepctrl, signature, boot, asked>> /\ Same
     \/ Fail /\ UNCHANGED dev

AfterReset == IF proc = "LMAC" THEN At("pulse", "UMAC") ELSE At("load", "UMAC")

(* 51 readings.  The count is past zero after the last, so that nothing is *)
(* reported when none matches and the last could be read; it is zero, and  *)
(* a time-out is reported, when the last is the one that matches.          *)
nrf_wifi_hal_poll_reg ==
  /\ pc = "poll"
  /\ \/ /\ AfterReset /\ curr' = "LMAC"
        /\ \E state \in {"waiting", "reset"} : rpu' = [rpu EXCEPT ![proc] = state]
        /\ UNCHANGED <<present, loads, offer, result, mem, sleepctrl, signature, boot, asked>> /\ Same
     \/ /\ \E state \in {"waiting", "reset"} : rpu' = [rpu EXCEPT ![proc] = state]
        /\ Fail /\ UNCHANGED <<mem, sleepctrl, signature, boot, asked>>

(***************************************************************************)
(* Copying the patches, of the UMAC and then of the LMAC.                  *)
(***************************************************************************)

AfterLoad == IF proc = "UMAC" THEN At("load", "LMAC") ELSE At("clear", "LMAC")

nrf_wifi_fmac_fw_load ==
  /\ pc = "load"
  /\ IF Offered(proc)
     THEN /\ At("chunk", proc) /\ curr' = proc /\ part' = "bimg" /\ chunk' = 0
          /\ UNCHANGED present
     ELSE /\ AfterLoad /\ present' = [present EXCEPT ![proc] = FALSE]
          /\ UNCHANGED curr /\ Same
  /\ UNCHANGED <<loads, offer, result, dev>>

LastChunkSize == offer[proc][part] % CHUNK
NumChunks     == offer[proc][part] \div CHUNK + (IF LastChunkSize # 0 THEN 1 ELSE 0)
ChunkSize     == IF chunk = NumChunks - 1 THEN LastChunkSize ELSE CHUNK

(* A mutant: relies on the context that nrf_wifi_hal_fw_patch_load has set.*)
SetOnce == curr

(* The processor whose memory a chunk goes to.                             *)
hal_fw_patch_chunk_load == proc

nrf_wifi_hal_fw_patch_load ==
  /\ pc = "chunk"
  /\ \/ /\ mem' = [mem EXCEPT ![hal_fw_patch_chunk_load][part] =
             [u \in Units |-> IF u - chunk * CHUNK \in 1 .. ChunkSize THEN loads ELSE @[u]]]
        /\ curr' = "LMAC"
        /\ IF chunk < NumChunks - 1
           THEN chunk' = chunk + 1 /\ UNCHANGED <<pc, proc, part>>
           ELSE /\ chunk' = 0
                /\ IF part = "bimg" THEN part' = "bin" /\ UNCHANGED <<pc, proc>>
                                    ELSE part' = "bimg" /\ AfterLoad
        /\ UNCHANGED <<present, loads, offer, result, sleepctrl, rpu, signature, boot, asked>>
     \/ Fail /\ UNCHANGED dev

(***************************************************************************)
(* nrf_wifi_fmac_fw_boot, of the LMAC and then of the UMAC.                *)
(***************************************************************************)

(* A mutant: the signature of the last boot is left.                       *)
KeepSignature(p) == UNCHANGED signature

ClearSignature(p) == signature' = [signature EXCEPT ![p] = FALSE]

nrf_wifi_hal_fw_patch_boot ==
  \/ /\ pc = "clear" /\ At("run", proc) /\ curr' = proc
     /\ ClearSignature(proc)
     /\ UNCHANGED <<present, loads, offer, result, mem, sleepctrl, rpu, boot, asked>> /\ Same
  \/ /\ pc = "run"
     /\ sleepctrl' = [sleepctrl EXCEPT ![proc] = @ \/ present[proc]]
     /\ boot' = [boot EXCEPT ![proc] = loads] /\ asked' = [asked EXCEPT ![proc] = present[proc]]
     /\ rpu' = [rpu EXCEPT ![proc] = "booting"]
     /\ At("check", proc) /\ curr' = "LMAC"
     /\ UNCHANGED <<present, loads, offer, result, mem, signature>> /\ Same
  \/ (* the sleep control may be written before a boot vector is not       *)
     /\ pc \in {"clear", "run"} /\ Fail
     /\ sleepctrl' \in {sleepctrl, IF pc = "run" THEN [sleepctrl EXCEPT ![proc] = @ \/ present[proc]]
                                                 ELSE sleepctrl}
     /\ UNCHANGED <<mem, rpu, signature, boot, asked>>

(* A processor that was started comes up, maybe after it is given up.      *)
RpuBoots(p) ==
  /\ rpu[p] = "booting"
  /\ rpu' = [rpu EXCEPT ![p] = "running"]
  /\ signature' = [signature EXCEPT ![p] = TRUE]
  /\ UNCHANGED <<host, mem, sleepctrl, boot, asked>>

(* 100 readings; one that matches only at the last fails.                  *)
nrf_wifi_hal_fw_chk_boot ==
  /\ pc = "check"
  /\ \/ /\ signature[proc] /\ curr' = "LMAC"
        /\ IF proc = "LMAC" THEN At("clear", "UMAC") /\ UNCHANGED result
                            ELSE At("idle", proc) /\ result' = "success"
        /\ UNCHANGED <<present, loads, offer>> /\ Same
     \/ Fail
  /\ UNCHANGED dev

(* The RPU is powered off and on again, between two loads.                 *)
PowerCycle ==
  /\ pc = "idle" /\ result' = "none"
  /\ mem' = Nothing /\ sleepctrl' = [p \in P |-> FALSE] /\ rpu' = [p \in P |-> "off"]
  /\ signature' = [p \in P |-> FALSE]
  /\ boot' = [p \in P |-> 0] /\ asked' = [p \in P |-> FALSE]
  /\ UNCHANGED <<present, loads, offer, pc, proc, part, chunk, curr>>

Next ==
  \/ nrf_wifi_fmac_fw_parse \/ nrf_wifi_hal_proc_reset \/ nrf_wifi_hal_poll_reg
  \/ nrf_wifi_fmac_fw_load \/ nrf_wifi_hal_fw_patch_load \/ nrf_wifi_hal_fw_patch_boot
  \/ (\E p \in P : RpuBoots(p)) \/ nrf_wifi_hal_fw_chk_boot \/ PowerCycle

Spec == Init /\ [][Next]_vars

(***************************************************************************)
(* Properties.                                                             *)
(***************************************************************************)

TypeOK ==
  /\ present \in [P -> BOOLEAN] /\ loads \in 0 .. MAX_LOADS
  /\ offer \in [P -> [{"bimg", "bin"} -> Sizes \cup {0}]]
  /\ pc \in {"idle", "pulse", "poll", "load", "chunk", "clear", "run", "check"}
  /\ proc \in P /\ part \in {"bimg", "bin"} /\ chunk \in Nat /\ curr \in P
  /\ result \in {"none", "fail", "success"}
  /\ mem \in [P -> [{"bimg", "bin"} -> [Units -> 0 .. MAX_LOADS]]]
  /\ sleepctrl \in [P -> BOOLEAN] /\ signature \in [P -> BOOLEAN]
  /\ rpu \in [P -> {"off", "reset", "waiting", "booting", "running"}]
  /\ boot \in [P -> 0 .. MAX_LOADS] /\ asked \in [P -> BOOLEAN]

(* How much of a part is copied.  The last chunk of a part of a whole      *)
(* number of chunks has size zero: it is never copied, and of a part of    *)
(* exactly one chunk nothing is.                                           *)
Cut(n) == IF n # 0 /\ n % CHUNK = 0 THEN n - CHUNK ELSE n

Copied(p) ==
  \A q \in {"bimg", "bin"}, u \in Units :
    mem[p][q][u] = loads <=> u \in 1 .. Cut(offer[p][q])

(* Once a load of a file without it has been seen, no patch is asked for.  *)
Forgotten(p) == ~present[p]

(* The register is never cleared: an earlier load's patch is asked for.    *)
Kept(p) == sleepctrl[p] /\ ~asked[p]

(* After a load that succeeds both processors run, started by this load,   *)
(* with the patch of the file if and only if it has one; the cases in      *)
(* which they do not are named.                                            *)
LoadedRuns ==
  result = "success" =>
    \A p \in P :
      /\ rpu[p] = "running" /\ boot[p] = loads
      /\ Offered(p) => (sleepctrl[p] \/ Forgotten(p))
      /\ ~Offered(p) => (~sleepctrl[p] \/ Kept(p))

(* A processor that a load starts with a patch has, of each part, what its *)
(* own load copies, in its own memory, and not one unit more of that load: *)
(* whatever earlier loads left, and wherever they stopped, the first       *)
(* Cut(n) units of a part of n are this load's.  The others are not, and   *)
(* where n is a whole number of chunks the last chunk of the file is among *)
(* them: there the processor runs what an earlier load, or none, put.      *)
PatchUpToCut ==
  \A p \in P : ((pc = "check" /\ proc = p) \/ result = "success") /\ boot[p] = loads /\ asked[p]
               => Offered(p) /\ Copied(p)
=============================================================================
