---------------------------- MODULE RpuMemProofs ----------------------------
(***************************************************************************)
(* Proofs about what the host puts into the memories of the RPU: firmware  *)
(* (FwLoad), for parts and chunks of any size, any files and any number of *)
(* loads; and frames and receive buffers (PktRam), for any layout.         *)
(*                                                                         *)
(* The invariant of FwLoad follows a load: both processors are quiet       *)
(* before anything is copied, each part is copied up to the chunk that is  *)
(* next and has nothing of this load beyond it, and a processor has what   *)
(* is copied of this load's patch before it is booted.                     *)
(*                                                                         *)
(* That of PktRam follows a command: the lengths gathered add up, of each  *)
(* token's frames the first ones are mapped, each where the last ended,    *)
(* and with 3 bytes for alignment they do not end beyond what was gathered *)
(* for.                                                                    *)
(***************************************************************************)
EXTENDS FwLoad, PktRam, TLAPS

(***************************************************************************)
(* Loading of firmware.                                                    *)
(***************************************************************************)

USE FwAssumption

Q == {"bimg", "bin"}

(* The types on which the copying relies.                                  *)
LEMMA Types ==
  ASSUME TypeOK
  PROVE  /\ proc \in P /\ part \in Q /\ chunk \in Nat
         /\ \A p \in P, q \in Q : offer[p][q] \in Nat
<1>1. offer \in [P -> [Q -> Sizes \cup {0}]] /\ Sizes \cup {0} \subseteq Nat
  BY DEF TypeOK, Q
<1>2. \A p \in P, q \in Q : offer[p][q] \in Nat
  BY <1>1
<1> QED  BY <1>2 DEF TypeOK, Q

(* What a division of a size by that of chunks leaves.                     *)
LEMMA Division ==
  ASSUME NEW n \in Nat
  PROVE  /\ n \div CHUNK \in Nat /\ n % CHUNK \in Nat
         /\ n = (CHUNK * (n \div CHUNK)) + (n % CHUNK)
OBVIOUS

Quiet(p) == rpu[p] \in {"waiting", "reset"}

Booting == pc \in {"clear", "run", "check"}

(* Nothing runs while a load copies, and what is booted comes last.        *)
Silent ==
  /\ pc \in {"pulse", "poll"} /\ proc = "UMAC" => Quiet("LMAC")
  /\ pc \in {"load", "chunk"} => Quiet("LMAC") /\ Quiet("UMAC")
  /\ Booting /\ proc = "LMAC" => Quiet("UMAC")
  /\ pc \in {"clear", "run"} => Quiet(proc)

(* Of the memory of a part, this load has written the units up to n.       *)
UpTo(p, q, n) == \A u \in Units : mem[p][q][u] = loads <=> u \in 1 .. n

(* This load has written nothing there.                                    *)
Fresh(p) == \A q \in Q : UpTo(p, q, 0)

(* The processor has the patch of this load, or will not be asked for one. *)
Loaded(p) == (Offered(p) => Copied(p)) /\ (~Offered(p) => ~present[p])

(* Number of chunks that a part of n units is cut into.                    *)
Count(n) == (n \div CHUNK) + (IF n % CHUNK # 0 THEN 1 ELSE 0)

Copying ==
  /\ pc = "chunk" =>
       /\ Offered(proc) /\ chunk < Count(offer[proc][part])
       /\ UpTo(proc, part, chunk * CHUNK)
       /\ part = "bin" => UpTo(proc, "bimg", Cut(offer[proc]["bimg"]))
  /\ pc \in {"load", "chunk"} /\ proc = "LMAC" => Loaded("UMAC")
  /\ Booting \/ result = "success" => Loaded("LMAC") /\ Loaded("UMAC")

(* What a load has yet to copy holds nothing of that load.                 *)
Untouched ==
  /\ \A p \in P, q \in Q, u \in Units : mem[p][q][u] <= loads
  /\ pc \in {"pulse", "poll", "load"} => Fresh("LMAC")
  /\ pc \in {"pulse", "poll"} \/ (pc = "load" /\ proc = "UMAC") => Fresh("UMAC")
  /\ pc = "chunk" => /\ proc = "UMAC" => Fresh("LMAC")
                     /\ part = "bimg" => UpTo(proc, "bin", 0)

Started(p) == boot[p] = loads /\ asked[p] = present[p] /\ (present[p] => sleepctrl[p])
Booted(p)  == Started(p) /\ rpu[p] = "running"

Signed ==
  /\ pc = "run" => ~signature[proc]
  /\ pc = "check" => Started(proc) /\ (signature[proc] => rpu[proc] = "running")
  /\ Booting /\ proc = "UMAC" => Booted("LMAC")
  /\ result = "success" => Booted("LMAC") /\ Booted("UMAC")
  /\ pc # "idle" => result = "none"

FwInv == TypeOK /\ Silent /\ Copying /\ Untouched /\ Signed

LEMMA InvInit == Init => FwInv
<1> SUFFICES ASSUME Init PROVE FwInv
  OBVIOUS
<1>1. TypeOK
  <2>1. mem \in [P -> [Q -> [Units -> 0 .. MAX_LOADS]]]
    BY DEF Init, Nothing, Q
  <2>2. offer \in [P -> [Q -> Sizes \cup {0}]]
    BY DEF Init, NoPatch, Q
  <2> QED  BY <2>1, <2>2 DEF Init, TypeOK, P, Q
<1>2. Silent /\ Copying /\ Signed
  BY DEF Init, Silent, Copying, Signed, Booting
<1>3. Untouched
  BY DEF Init, Nothing, Untouched, Q
<1> QED  BY <1>1, <1>2, <1>3 DEF FwInv

(* No step changes the type of a variable.                                 *)
LEMMA TypeStep ==
  ASSUME TypeOK, Next
  PROVE  TypeOK'
<1> USE DEF TypeOK, P
<1>1. CASE nrf_wifi_fmac_fw_parse
  BY <1>1 DEF nrf_wifi_fmac_fw_parse, Fail, At, dev
<1>2. CASE nrf_wifi_hal_proc_reset
  BY <1>2 DEF nrf_wifi_hal_proc_reset, Fail, At, Same, dev
<1>3. CASE nrf_wifi_hal_poll_reg
  BY <1>3 DEF nrf_wifi_hal_poll_reg, Fail, At, Same, AfterReset
<1>4. CASE nrf_wifi_fmac_fw_load
  <2>1. UNCHANGED <<loads, offer, result, dev>>
    BY <1>4 DEF nrf_wifi_fmac_fw_load
  <2>2. /\ pc' \in {"load", "chunk", "clear"} /\ proc' \in P /\ part' \in Q
        /\ chunk' \in Nat /\ curr' \in P
    BY <1>4 DEF nrf_wifi_fmac_fw_load, AfterLoad, At, Same, Q
  <2>3. present' \in [P -> BOOLEAN]
    <3>1. present' = present \/ present' = [present EXCEPT ![proc] = FALSE]
      BY <1>4 DEF nrf_wifi_fmac_fw_load
    <3>2. present \in [P -> BOOLEAN]
      OBVIOUS
    <3> HIDE DEF TypeOK, P
    <3> QED  BY <3>1, <3>2
  <2> QED  BY <2>1, <2>2, <2>3 DEF dev, Q
<1>5. CASE nrf_wifi_hal_fw_patch_load
  <2>1. CASE Fail /\ UNCHANGED dev
    BY <2>1 DEF Fail, dev
  <2>2. CASE ~(Fail /\ UNCHANGED dev)
    <3>1. mem' = [mem EXCEPT ![proc][part] =
             [u \in Units |-> IF u - chunk * CHUNK \in 1 .. ChunkSize THEN loads ELSE @[u]]]
      BY <1>5, <2>2 DEF nrf_wifi_hal_fw_patch_load, hal_fw_patch_chunk_load
    <3>2. [u \in Units |-> IF u - chunk * CHUNK \in 1 .. ChunkSize THEN loads ELSE mem[proc][part][u]]
            \in [Units -> 0 .. MAX_LOADS]
      OBVIOUS
    <3>3. mem' \in [P -> [Q -> [Units -> 0 .. MAX_LOADS]]]
      BY <3>1, <3>2 DEF Q
    <3>4. UNCHANGED <<present, loads, offer, result, sleepctrl, rpu, signature, boot, asked>>
      BY <1>5, <2>2 DEF nrf_wifi_hal_fw_patch_load
    <3>5. /\ pc' \in {"load", "clear", pc} /\ proc' \in P /\ part' \in Q
          /\ chunk' \in Nat /\ curr' \in P
      BY <1>5, <2>2 DEF nrf_wifi_hal_fw_patch_load, AfterLoad, At, Q
    <3> QED  BY <3>3, <3>4, <3>5 DEF Q
  <2> QED  BY <2>1, <2>2
<1>6. CASE nrf_wifi_hal_fw_patch_boot
  <2>1. UNCHANGED <<loads, offer, present, part, chunk, mem>>
    BY <1>6 DEF nrf_wifi_hal_fw_patch_boot, Fail, At, Same
  <2>2. /\ pc' \in {"run", "check", "idle"} /\ proc' \in P /\ curr' \in P
        /\ result' \in {result, "fail"}
    BY <1>6 DEF nrf_wifi_hal_fw_patch_boot, Fail, At, Same
  <2>3. sleepctrl' \in [P -> BOOLEAN]
    <3>1. \/ sleepctrl' = sleepctrl
          \/ sleepctrl' = [sleepctrl EXCEPT ![proc] = @ \/ present[proc]]
      BY <1>6 DEF nrf_wifi_hal_fw_patch_boot
    <3>2. sleepctrl \in [P -> BOOLEAN] /\ present \in [P -> BOOLEAN]
      OBVIOUS
    <3> HIDE DEF TypeOK, P
    <3> QED  BY <3>1, <3>2
  <2>4. signature' \in [P -> BOOLEAN]
    <3>1. signature' = signature \/ signature' = [signature EXCEPT ![proc] = FALSE]
      BY <1>6 DEF nrf_wifi_hal_fw_patch_boot, ClearSignature
    <3>2. signature \in [P -> BOOLEAN]
      OBVIOUS
    <3> HIDE DEF TypeOK, P
    <3> QED  BY <3>1, <3>2
  <2>5. /\ boot' \in [P -> 0 .. MAX_LOADS] /\ asked' \in [P -> BOOLEAN]
        /\ rpu' \in [P -> {"off", "reset", "waiting", "booting", "running"}]
    BY <1>6 DEF nrf_wifi_hal_fw_patch_boot
  <2> QED  BY <2>1, <2>2, <2>3, <2>4, <2>5
<1>7. ASSUME NEW p \in P, RpuBoots(p)
      PROVE  TypeOK'
  BY <1>7 DEF RpuBoots, host
<1>8. CASE nrf_wifi_hal_fw_chk_boot
  BY <1>8 DEF nrf_wifi_hal_fw_chk_boot, Fail, At, Same, dev
<1>9. CASE PowerCycle
  BY <1>9 DEF PowerCycle, Nothing
<1> QED  BY <1>1, <1>2, <1>3, <1>4, <1>5, <1>6, <1>7, <1>8, <1>9 DEF Next

(* Both processors are quiet before anything is copied, and the one that   *)
(* is not booted yet stays so.                                             *)
LEMMA SilentStep ==
  ASSUME TypeOK, Silent, Next
  PROVE  Silent'
<1> USE DEF TypeOK, Silent, Quiet, Booting, P
<1>1. CASE nrf_wifi_fmac_fw_parse
  BY <1>1 DEF nrf_wifi_fmac_fw_parse, Fail, At, dev
<1>2. CASE nrf_wifi_hal_proc_reset
  BY <1>2 DEF nrf_wifi_hal_proc_reset, Fail, At, Same, dev
<1>3. CASE nrf_wifi_hal_poll_reg
  BY <1>3 DEF nrf_wifi_hal_poll_reg, Fail, At, Same, AfterReset
<1>4. CASE nrf_wifi_fmac_fw_load
  <2>1. pc = "load" /\ pc' \in {"load", "chunk", "clear"} /\ UNCHANGED rpu
    BY <1>4 DEF nrf_wifi_fmac_fw_load, AfterLoad, At, dev
  <2>2. pc' = "clear" => proc' = "LMAC"
    BY <1>4 DEF nrf_wifi_fmac_fw_load, AfterLoad, At
  <2> QED  BY <2>1, <2>2
<1>5. CASE nrf_wifi_hal_fw_patch_load
  <2>1. pc = "chunk" /\ pc' \in {"load", "chunk", "clear", "idle"} /\ UNCHANGED rpu
    BY <1>5 DEF nrf_wifi_hal_fw_patch_load, AfterLoad, At, Fail, dev
  <2>2. pc' = "clear" => proc' = "LMAC"
    BY <1>5 DEF nrf_wifi_hal_fw_patch_load, AfterLoad, At, Fail
  <2> QED  BY <2>1, <2>2
<1>6. CASE nrf_wifi_hal_fw_patch_boot
  <2>1. CASE pc' = "idle"
    BY <2>1
  <2>2. CASE pc' # "idle"
    <3>1. \/ pc = "clear" /\ pc' = "run" /\ proc' = proc /\ rpu' = rpu
          \/ /\ pc = "run" /\ pc' = "check" /\ proc' = proc
             /\ rpu' = [rpu EXCEPT ![proc] = "booting"]
      BY <1>6, <2>2 DEF nrf_wifi_hal_fw_patch_boot, At, Fail
    <3> QED  BY <3>1
  <2> QED  BY <2>1, <2>2
<1>7. ASSUME NEW p \in P, RpuBoots(p)
      PROVE  Silent'
  <2>1. pc' = pc /\ proc' = proc
    BY <1>7 DEF RpuBoots, host
  <2>2. rpu[p] = "booting" /\ rpu' = [rpu EXCEPT ![p] = "running"]
    BY <1>7 DEF RpuBoots
  <2> QED  BY <2>1, <2>2
<1>8. CASE nrf_wifi_hal_fw_chk_boot
  BY <1>8 DEF nrf_wifi_hal_fw_chk_boot, Fail, At, Same, dev
<1>9. CASE PowerCycle
  BY <1>9 DEF PowerCycle
<1> QED  BY <1>1, <1>2, <1>3, <1>4, <1>5, <1>6, <1>7, <1>8, <1>9 DEF Next

(* A processor is booted with what this load knows of its patch, comes up  *)
(* after it was started, and signs only then.                              *)
LEMMA SignedStep ==
  ASSUME TypeOK, Silent, Signed, Next
  PROVE  Signed'
<1> USE DEF TypeOK, Signed, Started, Booted, Booting, P
<1>1. CASE nrf_wifi_fmac_fw_parse
  BY <1>1 DEF nrf_wifi_fmac_fw_parse, Fail, At, dev
<1>2. CASE nrf_wifi_hal_proc_reset
  BY <1>2 DEF nrf_wifi_hal_proc_reset, Fail, At, Same, dev
<1>3. CASE nrf_wifi_hal_poll_reg
  BY <1>3 DEF nrf_wifi_hal_poll_reg, Fail, At, Same, AfterReset
<1>4. CASE nrf_wifi_fmac_fw_load
  <2>1. pc = "load" /\ pc' \in {"load", "chunk", "clear"} /\ UNCHANGED result
    BY <1>4 DEF nrf_wifi_fmac_fw_load, AfterLoad, At
  <2>2. pc' = "clear" => proc' = "LMAC"
    BY <1>4 DEF nrf_wifi_fmac_fw_load, AfterLoad, At
  <2> QED  BY <2>1, <2>2
<1>5. CASE nrf_wifi_hal_fw_patch_load
  <2>1. /\ pc = "chunk" /\ pc' \in {"load", "chunk", "clear", "idle"}
        /\ (result' = "fail" /\ pc' = "idle") \/ (result' = result /\ pc' # "idle")
    BY <1>5 DEF nrf_wifi_hal_fw_patch_load, AfterLoad, At, Fail
  <2>2. pc' = "clear" => proc' = "LMAC"
    BY <1>5 DEF nrf_wifi_hal_fw_patch_load, AfterLoad, At, Fail
  <2> QED  BY <2>1, <2>2
<1>6. CASE nrf_wifi_hal_fw_patch_boot
  <2>1. CASE Fail
    BY <2>1 DEF Fail
  <2>2. CASE ~Fail /\ pc = "clear"
    <3>1. /\ pc' = "run" /\ proc' = proc /\ signature' = [signature EXCEPT ![proc] = FALSE]
          /\ UNCHANGED <<present, loads, result, sleepctrl, rpu, boot, asked>>
      BY <1>6, <2>2 DEF nrf_wifi_hal_fw_patch_boot, ClearSignature, At
    <3> QED  BY <2>2, <3>1
  <2>3. CASE ~Fail /\ pc = "run"
    <3>1. /\ pc' = "check" /\ proc' = proc
          /\ sleepctrl' = [sleepctrl EXCEPT ![proc] = @ \/ present[proc]]
          /\ boot' = [boot EXCEPT ![proc] = loads]
          /\ asked' = [asked EXCEPT ![proc] = present[proc]]
          /\ rpu' = [rpu EXCEPT ![proc] = "booting"]
          /\ UNCHANGED <<present, loads, result, signature>>
      BY <1>6, <2>3 DEF nrf_wifi_hal_fw_patch_boot, At
    <3>2. Started(proc)' /\ ~signature'[proc]
      BY <2>3, <3>1
    <3>3. proc = "UMAC" => Booted("LMAC")'
      BY <2>3, <3>1
    <3> QED  BY <2>3, <3>1, <3>2, <3>3
  <2> QED  BY <1>6, <2>1, <2>2, <2>3 DEF nrf_wifi_hal_fw_patch_boot
<1>7. ASSUME NEW p \in P, RpuBoots(p)
      PROVE  Signed'
  <2>1. UNCHANGED <<present, loads, proc, result, pc, sleepctrl, boot, asked>>
    BY <1>7 DEF RpuBoots, host
  <2>2. /\ rpu[p] = "booting" /\ rpu' = [rpu EXCEPT ![p] = "running"]
        /\ signature' = [signature EXCEPT ![p] = TRUE]
    BY <1>7 DEF RpuBoots
  <2>3. pc = "run" => p # proc
    BY <2>2 DEF Silent, Quiet
  <2> QED  BY <2>1, <2>2, <2>3
<1>8. CASE nrf_wifi_hal_fw_chk_boot
  <2>1. CASE Fail
    BY <2>1 DEF Fail
  <2>2. CASE ~Fail
    <3>1. /\ pc = "check" /\ signature[proc] /\ UNCHANGED <<dev, present, loads>>
          /\ \/ proc = "LMAC" /\ pc' = "clear" /\ proc' = "UMAC" /\ UNCHANGED result
             \/ proc = "UMAC" /\ pc' = "idle" /\ proc' = "UMAC" /\ result' = "success"
      BY <1>8, <2>2 DEF nrf_wifi_hal_fw_chk_boot, At
    <3>2. Booted(proc)
      BY <3>1
    <3>3. Booted("LMAC")' <=> Booted("LMAC")
      BY <3>1 DEF dev
    <3>4. Booted("UMAC")' <=> Booted("UMAC")
      BY <3>1 DEF dev
    <3> HIDE DEF Booted
    <3> QED  BY <3>1, <3>2, <3>3, <3>4
  <2> QED  BY <2>1, <2>2
<1>9. CASE PowerCycle
  BY <1>9 DEF PowerCycle
<1> QED  BY <1>1, <1>2, <1>3, <1>4, <1>5, <1>6, <1>7, <1>8, <1>9 DEF Next

(* What the chunks before the last leave is the rest of the division, or   *)
(* the whole last chunk, which is then cut.                                *)
LEMMA LastChunk ==
  ASSUME NEW n \in Nat \ {0}, NEW c \in Nat, c = Count(n) - 1
  PROVE  Cut(n) = c * CHUNK + (n % CHUNK) /\ Cut(n) \in Nat
<1>1. n \div CHUNK \in Nat /\ n % CHUNK \in Nat /\ n = (CHUNK * (n \div CHUNK)) + (n % CHUNK)
  BY Division
<1>2. CASE n % CHUNK = 0
  <2>1. c = (n \div CHUNK) - 1
    BY <1>1, <1>2 DEF Count
  <2>2. c * CHUNK = (n \div CHUNK) * CHUNK - CHUNK
    BY <1>1, <2>1
  <2>3. Cut(n) = n - CHUNK
    BY <1>2 DEF Cut
  <2>4. c * CHUNK \in Nat
    OBVIOUS
  <2> QED  BY <1>1, <1>2, <2>2, <2>3, <2>4
<1>3. CASE n % CHUNK # 0
  <2>1. c = n \div CHUNK
    BY <1>1, <1>3 DEF Count
  <2>2. Cut(n) = n
    BY <1>3 DEF Cut
  <2> QED  BY <1>1, <2>1, <2>2
<1> QED  BY <1>2, <1>3

(* The copying of one chunk extends what is copied by that chunk, to all   *)
(* that is ever copied if it is the last.                                  *)
LEMMA ChunkCopied ==
  ASSUME TypeOK, Copying, nrf_wifi_hal_fw_patch_load, ~Fail
  PROVE  /\ \A p \in P, q \in Q : p # proc \/ q # part => mem'[p][q] = mem[p][q]
         /\ \A u \in Units : mem'[proc][part][u] \in {loads, mem[proc][part][u]}
         /\ chunk < NumChunks - 1 =>
              \A u \in Units : mem'[proc][part][u] = loads <=> u \in 1 .. (chunk + 1) * CHUNK
         /\ chunk = NumChunks - 1 =>
              \A u \in Units : mem'[proc][part][u] = loads <=> u \in 1 .. Cut(offer[proc][part])
         /\ chunk \in 0 .. NumChunks - 1
<1> DEFINE n == offer[proc][part]
<1>1. /\ pc = "chunk"
      /\ mem' = [mem EXCEPT ![proc][part] =
             [u \in Units |-> IF u - chunk * CHUNK \in 1 .. ChunkSize THEN loads ELSE @[u]]]
  BY DEF nrf_wifi_hal_fw_patch_load, hal_fw_patch_chunk_load
<1>2. n \in Nat \ {0} /\ n \in Sizes
  <2>1. n \in Sizes \cup {0}
    BY DEF TypeOK, Q
  <2>2. n # 0
    BY <1>1 DEF Copying, Offered, TypeOK
  <2> QED  BY <2>1, <2>2
<1>3. NumChunks = Count(n) /\ LastChunkSize = n % CHUNK
  BY DEF NumChunks, Count, LastChunkSize
<1>4. Count(n) \in Nat /\ chunk \in Nat /\ chunk < Count(n)
  <2>1. chunk \in Nat /\ chunk < Count(n)
    BY <1>1 DEF TypeOK, Copying
  <2>2. n \div CHUNK \in Nat
    BY <1>2, Division
  <2>3. Count(n) \in Nat
    BY <2>2 DEF Count
  <2> QED  BY <2>1, <2>3
<1>5. Units \subseteq Nat \ {0}
  BY DEF Units
<1>6. \A u \in Units : mem'[proc][part][u] =
        IF u - chunk * CHUNK \in 1 .. ChunkSize THEN loads ELSE mem[proc][part][u]
  BY <1>1 DEF TypeOK
<1>7. /\ chunk * CHUNK \in Nat
      /\ \A u \in Units : mem[proc][part][u] = loads <=> u \in 1 .. chunk * CHUNK
  BY <1>1, <1>4 DEF Copying, UpTo
<1>8. \A p \in P, q \in Q : p # proc \/ q # part => mem'[p][q] = mem[p][q]
  BY <1>1 DEF TypeOK, Q
<1>9. ASSUME chunk < NumChunks - 1, NEW u \in Units
      PROVE  mem'[proc][part][u] = loads <=> u \in 1 .. (chunk + 1) * CHUNK
  <2>1. (chunk + 1) * CHUNK = chunk * CHUNK + CHUNK
    BY <1>4
  <2>2. ChunkSize = CHUNK
    BY <1>9, <1>3, <1>4 DEF ChunkSize
  <2>3. u \in 1 .. (chunk + 1) * CHUNK <=>
          u \in 1 .. chunk * CHUNK \/ u - chunk * CHUNK \in 1 .. CHUNK
    BY <1>5, <1>7, <2>1
  <2> QED  BY <1>6, <1>7, <2>2, <2>3
<1>10. ASSUME chunk = NumChunks - 1, NEW u \in Units
       PROVE  mem'[proc][part][u] = loads <=> u \in 1 .. Cut(n)
  <2>1. Cut(n) = chunk * CHUNK + (n % CHUNK) /\ Cut(n) \in Nat
    BY <1>2, <1>3, <1>4, <1>10, LastChunk
  <2>2. ChunkSize = n % CHUNK
    BY <1>10, <1>3 DEF ChunkSize
  <2>3. n % CHUNK \in Nat
    BY <1>2, Division
  <2>4. u \in 1 .. Cut(n) <=> u \in 1 .. chunk * CHUNK \/ u - chunk * CHUNK \in 1 .. (n % CHUNK)
    BY <1>5, <1>7, <2>1, <2>3
  <2> QED  BY <1>6, <1>7, <2>2, <2>4
<1>11. \A u \in Units : mem'[proc][part][u] \in {loads, mem[proc][part][u]}
  BY <1>6
<1> QED  BY <1>3, <1>4, <1>8, <1>9, <1>10, <1>11

(* A part that is there has a first chunk.                                 *)
LEMMA FirstChunk ==
  ASSUME NEW n \in Nat \ {0}
  PROVE  0 < Count(n)
<1>1. n \div CHUNK \in Nat /\ n % CHUNK \in Nat /\ n = (CHUNK * (n \div CHUNK)) + (n % CHUNK)
  BY Division
<1>2. n % CHUNK = 0 => n \div CHUNK # 0
  BY <1>1
<1> QED  BY <1>1, <1>2 DEF Count

(* What a processor was given stays, while nothing of it changes.          *)
LEMMA LoadedKept ==
  ASSUME NEW p \in P, offer' = offer, loads' = loads, mem'[p] = mem[p], present'[p] = present[p]
  PROVE  Loaded(p)' <=> Loaded(p)
BY DEF Loaded, Offered, Copied

(* The steps outside the copying.                                          *)
LEMMA OtherKept ==
  ASSUME TypeOK, Copying, UNCHANGED <<offer, loads, mem, present>>,
         \/ Booting /\ (pc' \in {"clear", "run", "check"} \/ pc' = "idle")
         \/ result' # "success" /\ pc' \notin {"load", "chunk", "clear", "run", "check"}
         \/ pc' = pc /\ proc' = proc /\ part' = part /\ chunk' = chunk /\ result' = result
  PROVE  Copying'
<1>1. \A p \in P : Loaded(p)' <=> Loaded(p)
  BY LoadedKept
<1>2. \A p \in P, q \in Q, n \in Nat : UpTo(p, q, n)' <=> UpTo(p, q, n)
  BY DEF UpTo
<1>3. CASE Booting /\ (pc' \in {"clear", "run", "check"} \/ pc' = "idle")
  BY <1>1, <1>3 DEF Copying, P, Booting
<1>4. CASE result' # "success" /\ pc' \notin {"load", "chunk", "clear", "run", "check"}
  BY <1>4 DEF Copying, Booting
<1>5. CASE pc' = pc /\ proc' = proc /\ part' = part /\ chunk' = chunk /\ result' = result
  <2>1. \A p \in P : Offered(p)' <=> Offered(p)
    BY DEF Offered
  <2>2. Booting' <=> Booting
    BY <1>5 DEF Booting
  <2>3. UpTo(proc, part, chunk * CHUNK)' <=> UpTo(proc, part, chunk * CHUNK)
    BY <1>5 DEF UpTo
  <2>4. UpTo(proc, "bimg", Cut(offer[proc]["bimg"]))' <=> UpTo(proc, "bimg", Cut(offer[proc]["bimg"]))
    BY <1>5 DEF UpTo, Cut
  <2>5. (chunk < Count(offer[proc][part]))' <=> chunk < Count(offer[proc][part])
    BY <1>5 DEF Count
  <2> QED  BY <1>1, <1>5, <2>1, <2>2, <2>3, <2>4, <2>5 DEF Copying, TypeOK, P
<1> QED  BY <1>3, <1>4, <1>5

(* The choice of what to copy next.                                        *)
LEMMA LoadStep ==
  ASSUME TypeOK, Copying, Untouched, Signed, nrf_wifi_fmac_fw_load
  PROVE  Copying'
<1>1. /\ pc = "load" /\ result' = "none"
      /\ UNCHANGED <<offer, loads, mem>>
  BY DEF nrf_wifi_fmac_fw_load, dev, Signed
<1>2. CASE Offered(proc)
  <2>1. /\ pc' = "chunk" /\ proc' = proc /\ part' = "bimg" /\ chunk' = 0
        /\ present' = present
    BY <1>2 DEF nrf_wifi_fmac_fw_load, At
  <2>2. offer[proc]["bimg"] \in Nat \ {0}
    BY <1>2, Types DEF Offered, Q
  <2>3. 0 < Count(offer[proc]["bimg"])
    BY <2>2, FirstChunk
  <2>4. Offered(proc)' /\ (chunk < Count(offer[proc][part]))'
    BY <1>1, <1>2, <2>1, <2>3 DEF Offered, Count
  <2>5. UpTo(proc, part, chunk * CHUNK)'
    <3>1. UpTo(proc, "bimg", 0)
      BY <1>1, Types DEF Untouched, Fresh, P, Q
    <3> QED  BY <1>1, <2>1, <3>1 DEF UpTo
  <2>6. proc = "LMAC" => Loaded("UMAC")'
    BY <1>1, <2>1, LoadedKept DEF Copying, P
  <2> QED  BY <1>1, <2>1, <2>4, <2>5, <2>6 DEF Copying, Booting
<1>3. CASE ~Offered(proc)
  <2>1. AfterLoad /\ present' = [present EXCEPT ![proc] = FALSE]
    BY <1>3 DEF nrf_wifi_fmac_fw_load
  <2>2. ASSUME NEW p \in P, proc = p PROVE Loaded(p)'
    <3>1. present'[p] = FALSE
      BY <2>1, <2>2 DEF TypeOK
    <3>2. ~Offered(p)'
      BY <1>1, <1>3, <2>2 DEF Offered
    <3> QED  BY <3>1, <3>2 DEF Loaded
  <2>3. CASE proc = "UMAC"
    <3>1. pc' = "load" /\ proc' = "LMAC"
      BY <2>1, <2>3 DEF AfterLoad, At
    <3>2. Loaded("UMAC")'
      BY <2>2, <2>3 DEF P
    <3> QED  BY <1>1, <3>1, <3>2 DEF Copying, Booting
  <2>4. CASE proc = "LMAC"
    <3>1. pc' = "clear"
      BY <2>1, <2>4 DEF AfterLoad, At
    <3>2. present'["UMAC"] = present["UMAC"]
      BY <2>1, <2>4 DEF TypeOK, P
    <3>3. Loaded("UMAC")'
      BY <1>1, <2>4, <3>2, LoadedKept DEF Copying, P
    <3>4. Loaded("LMAC")'
      BY <2>2, <2>4 DEF P
    <3> QED  BY <1>1, <3>1, <3>3, <3>4 DEF Copying, Booting
  <2> QED  BY <2>3, <2>4 DEF TypeOK, P
<1> QED  BY <1>2, <1>3

(* The copying of a chunk, and what follows it.                            *)
LEMMA PatchStep ==
  ASSUME TypeOK, Copying, Untouched, Signed, nrf_wifi_hal_fw_patch_load, ~Fail
  PROVE  Copying'
<1>1. /\ pc = "chunk" /\ result' = "none"
      /\ UNCHANGED <<offer, loads, present>>
      /\ chunk \in Nat /\ proc \in P /\ part \in Q
  BY DEF nrf_wifi_hal_fw_patch_load, Signed, TypeOK, Q
<1>0. NumChunks = Count(offer[proc][part]) /\ NumChunks \in Nat
  <2>1. offer[proc][part] \in Nat
    BY Types
  <2>2. offer[proc][part] \div CHUNK \in Nat
    BY <2>1, Division
  <2> QED  BY <2>2 DEF NumChunks, Count, LastChunkSize
<1>2. Offered(proc) /\ \A p \in P : Offered(p)' <=> Offered(p)
  BY <1>1 DEF Copying, Offered
<1>3. \A p \in P, q \in Q : p # proc \/ q # part => mem'[p][q] = mem[p][q]
  BY ChunkCopied
<1>4. proc = "LMAC" => Loaded("UMAC")'
  <2>1. ASSUME proc = "LMAC" PROVE \A q \in Q : mem'["UMAC"][q] = mem["UMAC"][q]
    BY <1>3, <2>1 DEF P
  <2>2. ASSUME proc = "LMAC" PROVE Copied("UMAC")' <=> Copied("UMAC")
    BY <1>1, <2>1, <2>2 DEF Copied, Q
  <2>3. proc = "LMAC" => Loaded("UMAC")
    BY <1>1 DEF Copying
  <2> QED  BY <1>1, <1>2, <2>2, <2>3 DEF Loaded, P
<1>5. CASE chunk < NumChunks - 1
  <2>1. pc' = "chunk" /\ proc' = proc /\ part' = part /\ chunk' = chunk + 1
    BY <1>1, <1>5 DEF nrf_wifi_hal_fw_patch_load
  <2>2. UpTo(proc, part, chunk * CHUNK)'
    BY <1>1, <1>5, <2>1, ChunkCopied DEF UpTo
  <2>3. (chunk < Count(offer[proc][part]))'
    <3>1. Count(offer[proc][part])' = Count(offer[proc][part])
      BY <1>1, <2>1 DEF Count
    <3> QED  BY <1>0, <1>1, <1>5, <2>1, <3>1
  <2>4. part = "bin" => UpTo(proc, "bimg", Cut(offer[proc]["bimg"]))'
    <3>1. part = "bin" => UpTo(proc, "bimg", Cut(offer[proc]["bimg"]))
      BY <1>1 DEF Copying
    <3>2. part = "bin" => mem'[proc]["bimg"] = mem[proc]["bimg"]
      BY <1>1, <1>3 DEF Q
    <3> QED  BY <1>1, <2>1, <3>1, <3>2 DEF UpTo, Cut
  <2> QED  BY <1>1, <1>2, <1>4, <2>1, <2>2, <2>3, <2>4 DEF Copying, Booting
<1>6. CASE chunk = NumChunks - 1
  <2>2. \A u \in Units : mem'[proc][part][u] = loads <=> u \in 1 .. Cut(offer[proc][part])
    BY <1>6, ChunkCopied
  <2>3. ~(chunk < NumChunks - 1) /\ chunk' = 0
    BY <1>1, <1>6 DEF nrf_wifi_hal_fw_patch_load
  <2>4. CASE part = "bimg"
    <3>1. pc' = "chunk" /\ proc' = proc /\ part' = "bin"
      BY <1>1, <2>3, <2>4 DEF nrf_wifi_hal_fw_patch_load
    <3>2. offer[proc]["bin"] \in Nat \ {0}
      BY <1>2, Types DEF Offered, Q
    <3>3. (chunk < Count(offer[proc][part]))'
      BY <1>1, <2>3, <3>1, <3>2, FirstChunk DEF Count
    <3>4. UpTo(proc, "bimg", Cut(offer[proc]["bimg"]))'
      BY <1>1, <2>2, <2>4, <3>1 DEF UpTo, Cut
    <3>5. UpTo(proc, part, chunk * CHUNK)'
      <4>1. UpTo(proc, "bin", 0) /\ mem'[proc]["bin"] = mem[proc]["bin"]
        BY <1>1, <1>3, <2>4 DEF Untouched, Q
      <4> QED  BY <1>1, <2>3, <3>1, <4>1 DEF UpTo
    <3> QED  BY <1>1, <1>2, <1>4, <3>1, <3>3, <3>4, <3>5 DEF Copying, Booting
  <2>5. CASE part = "bin"
    <3>1. AfterLoad
      BY <1>1, <2>3, <2>5 DEF nrf_wifi_hal_fw_patch_load
    <3>2. UpTo(proc, "bimg", Cut(offer[proc]["bimg"]))
      BY <1>1, <2>5 DEF Copying
    <3>3. mem'[proc]["bimg"] = mem[proc]["bimg"]
      BY <1>1, <1>3, <2>5 DEF Q
    <3>4. \A u \in Units : mem'[proc]["bimg"][u] = loads <=> u \in 1 .. Cut(offer[proc]["bimg"])
      BY <3>2, <3>3 DEF UpTo
    <3>5. ASSUME NEW p \in P, proc = p PROVE Loaded(p)'
      <4>1. \A u \in Units : mem'[p]["bin"][u] = loads <=> u \in 1 .. Cut(offer[p]["bin"])
        BY <2>2, <2>5, <3>5
      <4>2. \A u \in Units : mem'[p]["bimg"][u] = loads <=> u \in 1 .. Cut(offer[p]["bimg"])
        BY <3>4, <3>5
      <4>3. Copied(p)'
        BY <1>1, <4>1, <4>2 DEF Copied, Cut, Q
      <4> QED  BY <1>2, <3>5, <4>3 DEF Loaded
    <3>6. \/ proc = "UMAC" /\ pc' = "load" /\ proc' = "LMAC"
          \/ proc = "LMAC" /\ pc' = "clear" /\ proc' = "LMAC"
      BY <1>1, <3>1 DEF AfterLoad, At, P
    <3>7. CASE proc = "UMAC"
      <4>1. Loaded("UMAC")'
        BY <3>5, <3>7 DEF P
      <4> QED  BY <1>1, <3>6, <3>7, <4>1 DEF Copying, Booting
    <3>8. CASE proc = "LMAC"
      <4>1. Loaded("LMAC")'
        BY <3>5, <3>8 DEF P
      <4> QED  BY <1>1, <1>4, <3>6, <3>8, <4>1 DEF Copying, Booting
    <3> QED  BY <3>6, <3>7, <3>8
  <2> QED  BY <1>1, <2>4, <2>5 DEF Q
<1>7. chunk \in 0 .. NumChunks - 1
  BY ChunkCopied
<1> QED  BY <1>0, <1>5, <1>6, <1>7

(* A load keeps what it has copied, and remembers which patches there are. *)
LEMMA CopyingStep ==
  ASSUME TypeOK, Copying, Untouched, Signed, Next
  PROVE  Copying'
<1>0. CASE Fail
  BY <1>0 DEF Fail, Copying, Booting
<1>1. CASE nrf_wifi_fmac_fw_parse
  <2>1. result' # "success" /\ pc' \notin {"load", "chunk", "clear", "run", "check"}
    BY <1>1 DEF nrf_wifi_fmac_fw_parse, At, Fail
  <2> QED  BY <2>1 DEF Copying, Booting
<1>2. CASE nrf_wifi_hal_proc_reset
  <2>1. result' # "success" /\ pc' \notin {"load", "chunk", "clear", "run", "check"}
    BY <1>2 DEF nrf_wifi_hal_proc_reset, At, Fail, Signed
  <2> QED  BY <2>1 DEF Copying, Booting
<1>3. CASE nrf_wifi_hal_poll_reg
  <2>1. result' # "success"
    BY <1>3 DEF nrf_wifi_hal_poll_reg, AfterReset, At, Fail, Signed
  <2>2. \/ pc' \notin {"load", "chunk", "clear", "run", "check"}
        \/ pc' = "load" /\ proc' = "UMAC"
    BY <1>3 DEF nrf_wifi_hal_poll_reg, AfterReset, At, Fail
  <2> QED  BY <2>1, <2>2 DEF Copying, Booting
<1>4. CASE nrf_wifi_fmac_fw_load
  BY <1>4, LoadStep
<1>5. CASE nrf_wifi_hal_fw_patch_load /\ ~Fail
  BY <1>5, PatchStep
<1>6. CASE nrf_wifi_hal_fw_patch_boot /\ ~Fail
  <2>1. Booting /\ pc' \in {"clear", "run", "check"} /\ UNCHANGED <<offer, loads, mem, present>>
    BY <1>6 DEF nrf_wifi_hal_fw_patch_boot, At, Booting
  <2> QED  BY <2>1, OtherKept
<1>7. ASSUME NEW p \in P, RpuBoots(p)
      PROVE  Copying'
  <2>1. UNCHANGED <<offer, loads, mem, present, pc, proc, part, chunk, result>>
    BY <1>7 DEF RpuBoots, host
  <2> QED  BY <2>1, OtherKept
<1>8. CASE nrf_wifi_hal_fw_chk_boot /\ ~Fail
  <2>1. Booting /\ pc' \in {"clear", "idle"} /\ UNCHANGED <<offer, loads, mem, present>>
    BY <1>8 DEF nrf_wifi_hal_fw_chk_boot, At, Booting, dev
  <2> QED  BY <2>1, OtherKept
<1>9. CASE PowerCycle
  BY <1>9 DEF PowerCycle, Copying, Booting
<1> QED  BY <1>0, <1>1, <1>2, <1>3, <1>4, <1>5, <1>6, <1>7, <1>8, <1>9 DEF Next

(* A load counts one more than what is in memory, and copies in order.     *)
LEMMA UntouchedStep ==
  ASSUME TypeOK, Copying, Untouched, Next
  PROVE  Untouched'
<1>0. ASSUME UNCHANGED <<mem, loads>>
      PROVE  /\ \A p \in P, q \in Q, u \in Units : mem'[p][q][u] <= loads'
             /\ \A p \in P : Fresh(p)' <=> Fresh(p)
             /\ \A p \in P, q \in Q : UpTo(p, q, 0)' <=> UpTo(p, q, 0)
  BY <1>0 DEF Untouched, Fresh, UpTo
<1>1. CASE nrf_wifi_fmac_fw_parse
  <2>1. CASE Fail
    BY <1>0, <1>1, <2>1 DEF Fail, Untouched, nrf_wifi_fmac_fw_parse, dev
  <2>2. CASE ~Fail
    <3>1. /\ pc' = "pulse" /\ proc' = "LMAC" /\ loads' = loads + 1 /\ mem' = mem
      BY <1>1, <2>2 DEF nrf_wifi_fmac_fw_parse, At, dev
    <3>2. \A p \in P, q \in Q, u \in Units : mem[p][q][u] \in Int /\ loads \in Int
      BY DEF TypeOK, Q
    <3>3. \A p \in P, q \in Q, u \in Units : mem'[p][q][u] < loads'
      BY <3>1, <3>2 DEF Untouched
    <3>4. \A p \in P : Fresh(p)'
      BY <3>1, <3>2, <3>3 DEF Fresh, UpTo
    <3>5. \A p \in P, q \in Q, u \in Units : mem'[p][q][u] <= loads'
      BY <3>1, <3>2 DEF Untouched
    <3> QED  BY <3>1, <3>4, <3>5 DEF Untouched, P
  <2> QED  BY <2>1, <2>2
<1>2. CASE nrf_wifi_hal_proc_reset \/ nrf_wifi_hal_poll_reg
  <2>1. UNCHANGED <<mem, loads>>
    BY <1>2 DEF nrf_wifi_hal_proc_reset, nrf_wifi_hal_poll_reg, Fail, dev
  <2>2. /\ pc \in {"pulse", "poll"}
        /\ \/ pc' \in {"pulse", "poll", "idle"}
           \/ pc' = "load"
    BY <1>2 DEF nrf_wifi_hal_proc_reset, nrf_wifi_hal_poll_reg, AfterReset, At, Fail
  <2> QED  BY <1>0, <2>1, <2>2 DEF Untouched, P
<1>3. CASE nrf_wifi_fmac_fw_load
  <2>1. UNCHANGED <<mem, loads>> /\ pc = "load"
    BY <1>3 DEF nrf_wifi_fmac_fw_load, dev
  <2>2. \/ pc' = "chunk" /\ proc' = proc /\ part' = "bimg"
        \/ pc' = "load" /\ proc' = "LMAC"
        \/ pc' = "clear"
    BY <1>3 DEF nrf_wifi_fmac_fw_load, AfterLoad, At
  <2>3. UpTo(proc, "bin", 0)
    BY <2>1 DEF Untouched, Fresh, TypeOK, P, Q
  <2> QED  BY <1>0, <2>1, <2>2, <2>3 DEF Untouched, UpTo, TypeOK, P, Q
<1>4. CASE nrf_wifi_hal_fw_patch_load
  <2>1. CASE Fail
    BY <1>0, <1>4, <2>1 DEF Fail, Untouched, nrf_wifi_hal_fw_patch_load, dev
  <2>2. CASE ~Fail
    <3>1. /\ pc = "chunk" /\ UNCHANGED loads
          /\ \/ pc' = "chunk" /\ proc' = proc /\ part' = part
             \/ pc' = "chunk" /\ proc' = proc /\ part' = "bin"
             \/ proc = "UMAC" /\ pc' = "load" /\ proc' = "LMAC"
             \/ pc' = "clear"
      BY <1>4, <2>2 DEF nrf_wifi_hal_fw_patch_load, AfterLoad, At
    <3>2. \A p \in P, q \in Q : p # proc \/ q # part => mem'[p][q] = mem[p][q]
      BY <1>4, <2>2, ChunkCopied
    <3>3. \A u \in Units : mem'[proc][part][u] \in {loads, mem[proc][part][u]}
      BY <1>4, <2>2, ChunkCopied
    <3>4. \A p \in P, q \in Q, u \in Units : mem'[p][q][u] <= loads'
      <4> SUFFICES ASSUME NEW p \in P, NEW q \in Q, NEW u \in Units
                   PROVE  mem'[p][q][u] <= loads'
        OBVIOUS
      <4>1. mem[p][q][u] <= loads /\ loads <= loads
        BY DEF Untouched, TypeOK
      <4>2. CASE p = proc /\ q = part
        BY <3>1, <3>3, <4>1, <4>2
      <4>3. CASE p # proc \/ q # part
        BY <3>1, <3>2, <4>1, <4>3
      <4> QED  BY <4>2, <4>3
    <3>5. proc = "UMAC" => Fresh("LMAC")'
      <4>1. proc = "UMAC" => \A q \in Q : mem'["LMAC"][q] = mem["LMAC"][q]
        BY <3>2 DEF P
      <4>2. proc = "UMAC" => Fresh("LMAC")
        BY <3>1 DEF Untouched
      <4> QED  BY <3>1, <4>1, <4>2 DEF Fresh, UpTo
    <3>6. part = "bimg" => \A u \in Units : mem'[proc]["bin"][u] = loads' <=> u \in 1 .. 0
      <4>1. part = "bimg" => mem'[proc]["bin"] = mem[proc]["bin"]
        BY <3>2, Types DEF Q
      <4>2. part = "bimg" => UpTo(proc, "bin", 0)
        BY <3>1 DEF Untouched
      <4> QED  BY <3>1, <4>1, <4>2 DEF UpTo
    <3> QED  BY <3>1, <3>4, <3>5, <3>6 DEF Untouched, UpTo
  <2> QED  BY <2>1, <2>2
<1>5. CASE nrf_wifi_hal_fw_patch_boot \/ nrf_wifi_hal_fw_chk_boot
  <2>1. UNCHANGED <<mem, loads>>
    BY <1>5 DEF nrf_wifi_hal_fw_patch_boot, nrf_wifi_hal_fw_chk_boot, Fail, dev
  <2>2. pc' \in {"clear", "run", "check", "idle"}
    BY <1>5 DEF nrf_wifi_hal_fw_patch_boot, nrf_wifi_hal_fw_chk_boot, At, Fail
  <2> QED  BY <1>0, <2>1, <2>2 DEF Untouched
<1>6. ASSUME NEW p \in P, RpuBoots(p)
      PROVE  Untouched'
  BY <1>6 DEF RpuBoots, host, Untouched, Fresh, UpTo
<1>7. CASE PowerCycle
  <2>1. \A p \in P, q \in Q, u \in Units : mem'[p][q][u] = 0
    BY <1>7 DEF PowerCycle, Nothing, Q
  <2>2. loads' \in Nat /\ pc' = "idle"
    BY <1>7 DEF PowerCycle, TypeOK
  <2> QED  BY <2>1, <2>2 DEF Untouched
<1> QED  BY <1>1, <1>2, <1>3, <1>4, <1>5, <1>6, <1>7 DEF Next

LEMMA Unchanged ==
  ASSUME FwInv, UNCHANGED vars
  PROVE  FwInv'
<1> USE DEF vars, host, dev
<1>1. TypeOK' /\ Silent' /\ Signed' /\ Untouched'
  BY DEF FwInv, TypeOK, Silent, Quiet, Booting, Signed, Started, Booted, Untouched, Fresh, UpTo
<1>2. Copying'
  BY OtherKept DEF FwInv
<1> QED  BY <1>1, <1>2 DEF FwInv

(* The invariant of a load.                                                *)
THEOREM LoadInvariant == Spec => []FwInv
<1>1. FwInv /\ [Next]_vars => FwInv'
  BY TypeStep, SilentStep, SignedStep, CopyingStep, UntouchedStep, Unchanged DEF FwInv
<1> QED  BY <1>1, InvInit, PTL DEF Spec

(* Every variable keeps its type.                                          *)
THEOREM TypeCorrect == Spec => []TypeOK
<1>1. FwInv => TypeOK
  BY DEF FwInv
<1> QED  BY <1>1, LoadInvariant, PTL

(* Of each part of the patch that a load starts, exactly the units that it *)
(* copies are its own: the first Cut(n) of n.  The last chunk of a part of *)
(* whole chunks is not (hal_fw_patch_load, nrf_wifi_hal_fw_patch_boot).    *)
THEOREM PatchesUpToCut == Spec => []PatchUpToCut
<1>1. FwInv => PatchUpToCut
  <2> SUFFICES ASSUME FwInv, NEW p \in P, (pc = "check" /\ proc = p) \/ result = "success",
                      boot[p] = loads, asked[p]
               PROVE  Offered(p) /\ Copied(p)
    BY DEF PatchUpToCut
  <2>1. Loaded(p)
    BY DEF FwInv, Copying, Booting, P
  <2>2. asked[p] = present[p]
    BY DEF FwInv, Signed, Started, Booted, P
  <2> QED  BY <2>1, <2>2 DEF Loaded
<1> QED  BY <1>1, LoadInvariant, PTL

(* After a load that succeeds both processors run, started by it, with the *)
(* patch of the file if it has one (nrf_wifi_fmac_fw_load).                *)
THEOREM LoadsRun == Spec => []LoadedRuns
<1>1. FwInv => LoadedRuns
  <2> SUFFICES ASSUME FwInv, result = "success", NEW p \in P
               PROVE  /\ rpu[p] = "running" /\ boot[p] = loads
                      /\ Offered(p) => (sleepctrl[p] \/ Forgotten(p))
                      /\ ~Offered(p) => (~sleepctrl[p] \/ Kept(p))
    BY DEF LoadedRuns
  <2>1. Loaded(p) /\ Booted(p)
    BY DEF FwInv, Copying, Signed, P
  <2> QED  BY <2>1 DEF Loaded, Booted, Started, Forgotten, Kept
<1> QED  BY <1>1, LoadInvariant, PTL

(***************************************************************************)
(* Layout of packet RAM: arithmetic.                                       *)
(***************************************************************************)

(* The arithmetic of one frame more: what it wastes, and what is left.     *)
LEMMA OneFrameMore ==
  ASSUME NEW addr \in Nat, NEW l \in Nat, NEW h \in Nat, NEW n \in Nat, NEW upto \in Nat,
         NEW before \in Nat, NEW base \in Nat, NEW k \in Nat,
         l <= n + 3, upto = before + h + n, addr <= base + before + 3 * k
  PROVE  addr + l + h <= base + upto + 3 * (k + 1)
OBVIOUS

LEMMA RoomLeft ==
  ASSUME NEW end \in Int, NEW base \in Nat, NEW upto \in Nat, NEW k \in Nat, NEW most \in Nat,
         NEW avail \in Nat, NEW size \in Nat,
         end <= base + upto + 3 * (k + 1), upto < avail, k + 1 <= most,
         avail + 3 * most <= size + 1
  PROVE  end <= base + size
OBVIOUS

LEMMA OneFrameFits ==
  ASSUME NEW base \in Nat, NEW l \in Nat, NEW h \in Nat, NEW most \in Nat, NEW size \in Nat,
         l <= most, most + h <= size
  PROVE  base + l + h <= base + size
OBVIOUS

USE RamAssumption

(* Rounding up to a multiple of 4 adds at most 3.                          *)
LEMMA Aligned ==
  ASSUME NEW n \in Nat
  PROVE  /\ Align(n) \in Nat /\ Align(n) % 4 = 0
         /\ n <= Align(n) /\ Align(n) <= n + 3
         /\ n % 4 = 0 => Align(n) = n
BY DEF Align

(* Sums of multiples of 4 are multiples of 4.                              *)
LEMMA AlignedSum ==
  ASSUME NEW x \in Nat, NEW y \in Nat, x % 4 = 0, y % 4 = 0
  PROVE  (x + y) % 4 = 0
OBVIOUS

(* Rounding up keeps the order.                                            *)
LEMMA AlignedOrder ==
  ASSUME NEW n \in Nat, NEW k \in Nat, n <= k
  PROVE  Align(n) <= Align(k)
BY DEF Align

(* Products of natural numbers are natural numbers.                        *)
LEMMA Product ==
  ASSUME NEW x \in Nat, NEW y \in Nat
  PROVE  x * y \in Nat
OBVIOUS

(* The places of an array whose elements have size n do not overlap.       *)
LEMMA Slices ==
  ASSUME NEW n \in Nat, NEW x \in Nat, NEW y \in Nat, x < y
  PROVE  x * n + n <= y * n
<1>1. y - x - 1 \in Nat
  OBVIOUS
<1>2. (y - x - 1) * n \in Nat
  BY <1>1, Product
<1>3. y * n = x * n + n + (y - x - 1) * n
  OBVIOUS
<1> QED  BY <1>2, <1>3, Product

(* Multiples of a multiple of 4 are multiples of 4.                        *)
LEMMA MultipleOf4 ==
  ASSUME NEW x \in Nat, NEW y \in Nat, x % 4 = 0
  PROVE  (y * x) % 4 = 0
<1>1. PICK k \in Nat : x = 4 * k
  <2>1. x = 4 * (x \div 4) /\ x \div 4 \in Nat
    OBVIOUS
  <2> QED  BY <2>1
<1>2. y * k \in Nat
  BY <1>1, Product
<1>3. y * x = 4 * (y * k)
  BY <1>1
<1>4. \A z \in Nat : (4 * z) % 4 = 0
  OBVIOUS
<1> QED  BY <1>2, <1>3, <1>4

(***************************************************************************)
(* Descriptors.                                                            *)
(***************************************************************************)

Place == 0 .. MAX_TX_AGGREGATION - 1

(* The descriptors of a token are in the table.                            *)
LEMMA DescOfToken ==
  ASSUME NEW t \in Token, NEW f \in Place
  PROVE  desc_id(t, f) \in TxDesc
<1>1. t \in Nat /\ t < NUM_TX_TOKENS /\ NUM_TX_TOKENS \in Nat /\ MAX_TX_AGGREGATION \in Nat
  BY DEF Token
<1>2. t * MAX_TX_AGGREGATION + MAX_TX_AGGREGATION <= NUM_TX_TOKENS * MAX_TX_AGGREGATION
  BY <1>1, Slices
<1>3. t * MAX_TX_AGGREGATION \in Nat /\ NUM_TX_TOKENS * MAX_TX_AGGREGATION \in Nat
  BY <1>1, Product
<1> QED  BY <1>1, <1>2, <1>3 DEF desc_id, TxDesc, Place

(* No two frames share a descriptor.                                       *)
LEMMA DescInjective ==
  ASSUME NEW t \in Token, NEW u \in Token, NEW f \in Place, NEW g \in Place,
         desc_id(t, f) = desc_id(u, g)
  PROVE  t = u /\ f = g
<1> DEFINE a == MAX_TX_AGGREGATION
<1>1. t \in Nat /\ u \in Nat /\ a \in Nat /\ f \in 0 .. a - 1 /\ g \in 0 .. a - 1
  BY DEF Token, Place
<1>2. t * a + f = u * a + g
  BY DEF desc_id
<1>3. t * a \in Nat /\ u * a \in Nat
  BY <1>1, Product
<1> HIDE DEF a
<1>4. ~(t < u)
  <2> SUFFICES ASSUME t < u PROVE FALSE
    OBVIOUS
  <2>1. t * a + a <= u * a
    BY <1>1, Slices
  <2> QED  BY <2>1, <1>1, <1>2, <1>3
<1>5. ~(u < t)
  <2> SUFFICES ASSUME u < t PROVE FALSE
    OBVIOUS
  <2>1. u * a + a <= t * a
    BY <1>1, Slices
  <2> QED  BY <2>1, <1>1, <1>2, <1>3
<1>6. t = u
  BY <1>1, <1>4, <1>5
<1> QED  BY <1>6, <1>1, <1>2, <1>3

(* Every descriptor is that of a frame of a token.                         *)
LEMMA DescCovers ==
  ASSUME NEW d \in TxDesc
  PROVE  \E t \in Token, f \in Place : d = desc_id(t, f)
<1> DEFINE a == MAX_TX_AGGREGATION
           t == d \div a
           f == d % a
<1>1. a \in Nat /\ a > 0 /\ d \in Nat /\ d < NUM_TX_TOKENS * a /\ NUM_TX_TOKENS \in Nat
  <2>1. NUM_TX_TOKENS * a \in Nat
    BY Product
  <2> QED  BY <2>1 DEF TxDesc
<1> HIDE DEF a
<1>2. t \in Nat /\ f \in 0 .. a - 1 /\ d = a * t + f
  BY <1>1
<1>3. a * t = t * a
  BY <1>1, <1>2
<1> HIDE DEF t, f
<1>4. ~(NUM_TX_TOKENS < t) /\ NUM_TX_TOKENS # t
  <2>1. CASE NUM_TX_TOKENS < t
    <3>1. NUM_TX_TOKENS * a + a <= t * a
      BY <2>1, <1>1, <1>2, Slices
    <3>2. NUM_TX_TOKENS * a \in Nat /\ t * a \in Nat
      BY <1>1, <1>2, Product
    <3> QED  BY <3>1, <3>2, <1>1, <1>2, <1>3
  <2>2. CASE NUM_TX_TOKENS = t
    <3>1. t * a \in Nat
      BY <1>1, <1>2, Product
    <3> QED  BY <3>1, <2>2, <1>1, <1>2, <1>3
  <2> QED  BY <2>1, <2>2
<1>5. t \in Token
  BY <1>1, <1>2, <1>4 DEF Token
<1>6. f \in Place
  BY <1>2 DEF Place, a
<1>7. d = desc_id(t, f)
  BY <1>2, <1>3 DEF desc_id, a
<1> QED  BY <1>5, <1>6, <1>7

(***************************************************************************)
(* The invariant.                                                          *)
(***************************************************************************)

FrameOf(t, f) == tx_buf_info[desc_id(t, f)]
End(t, f)  == FrameOf(t, f).addr + FrameOf(t, f).len + TX_BUF_HEADROOM
Base(t)    == tx_token_base_addr(t)
Size       == cfg_params.max_ampdu_len_per_token

(* tx_lock is held for the token that is in a command, if one is.          *)
Held ==
  /\ \A t \in Token : use[t] = "cmd" => stage # "idle" /\ t = token
  /\ stage # "idle" => use[token] = "cmd"
  /\ Len(txq) <= MAX_TX_AGGREGATION
  /\ stage = "gather" => num_tx_pkts = 0
  /\ stage = "map" => txq # <<>> /\ num_tx_pkts <= Len(txq) /\ coalesced[token] = Len(txq)

(* The lengths gathered add up, and a frame after the first has room.      *)
Before(i)  == IF i = 1 THEN 0 ELSE txq[i - 1].upto
Gathering ==
  /\ ampdu_len = Before(Len(txq) + 1)
  /\ \A i \in 1 .. Len(txq) :
       /\ txq[i].upto = Before(i) + TX_BUF_HEADROOM + txq[i].len
       /\ \/ txq[i].upto < cfg_params.avail_ampdu_len_per_token
          \/ stage # "gather" /\ Len(txq) = 1

(* Of a token's places the first n are mapped.                             *)
First(t, n) == \A f \in Place : /\ f < n => FrameOf(t, f).mapped
                                /\ FrameOf(t, f).mapped => f < n
Mappings ==
  /\ stage # "idle" => First(token, num_tx_pkts)
  /\ \A t \in Token : use[t] = "rpu" => coalesced[t] \in 1 .. MAX_TX_AGGREGATION
                                        /\ First(t, coalesced[t])
  /\ \A t \in Token : use[t] = "free" => First(t, 0)

(* A token's frames are in its slice, in order.                            *)
InSlice(t, f) == Base(t) <= FrameOf(t, f).addr /\ End(t, f) <= Base(t) + Size
Slice(t) ==
  /\ \A f \in Place : FrameOf(t, f).mapped => InSlice(t, f)
  /\ \A f \in Place, g \in Place :
       f < g /\ FrameOf(t, f).mapped /\ FrameOf(t, g).mapped => End(t, f) <= FrameOf(t, g).addr

(* The next frame of the command follows those that are mapped, each of    *)
(* which wastes 3 bytes at most.                                           *)
Following ==
  stage = "map" /\ num_tx_pkts > 0 =>
    /\ tx_frame_offset % 4 = 0 /\ Base(token) <= tx_frame_offset
    /\ tx_frame_offset <= Base(token) + Before(num_tx_pkts + 1) + 3 * num_tx_pkts
    /\ \A f \in Place : f < num_tx_pkts => End(token, f) <= tx_frame_offset

Slots ==
  Sized(cfg_params) => Following /\ \A t \in Token : Slice(t)

(* A receive buffer has one place for good.                                *)
Posted ==
  \A s \in RxBuf : rx_buf_info[s].mapped =>
    rx_buf_info[s] = Mapped(bounce_buf_addr(s) + RX_BUF_HEADROOM, cfg_params.buf_sz[s[1]])

RamInv == RamTypeOK /\ Held /\ Gathering /\ Mappings /\ Slots /\ Posted

(* What the types say of the terms that the proofs reckon with.            *)
LEMMA RamTypes ==
  ASSUME RamTypeOK
  PROVE  /\ Size \in Nat /\ cfg_params.avail_ampdu_len_per_token \in Nat
         /\ \A p \in Pool : cfg_params.num_bufs[p] \in Nat /\ cfg_params.buf_sz[p] \in Nat
         /\ \A t \in Token : Base(t) \in Nat
<1>1. cfg_params \in Config
  BY DEF RamTypeOK
<1>2. Size \in Nat /\ cfg_params.avail_ampdu_len_per_token \in Nat
  BY <1>1 DEF Config, Size
<1>3. cfg_params.num_bufs \in [Pool -> Nat] /\ cfg_params.buf_sz \in [Pool -> Nat]
  BY <1>1 DEF Config
<1>4. ASSUME NEW t \in Token PROVE Base(t) \in Nat
  <2>1. t \in Nat
    BY DEF Token
  <2> QED  BY <2>1, <1>2, Product DEF Base, tx_token_base_addr, Size
<1> QED  BY <1>2, <1>3, <1>4

(* The entry of a frame has its type.                                      *)
LEMMA EntryTypes ==
  ASSUME RamTypeOK, NEW t \in Token, NEW f \in Place
  PROVE  /\ FrameOf(t, f) \in Entry
         /\ FrameOf(t, f).addr \in Int /\ FrameOf(t, f).len \in Nat
         /\ FrameOf(t, f).mapped \in BOOLEAN
         /\ End(t, f) \in Int
<1>1. desc_id(t, f) \in TxDesc
  BY DescOfToken
<1>2. FrameOf(t, f) \in Entry
  BY <1>1 DEF RamTypeOK, FrameOf
<1> QED  BY <1>2 DEF Entry, End

(* A sequence over S holds elements of S.                                  *)
LEMMA ElementIn ==
  ASSUME NEW S, NEW q \in Seq(S), NEW i \in 1 .. Len(q)
  PROVE  q[i] \in S
OBVIOUS

(* The frames gathered have their types.                                   *)
LEMMA QueueTypes ==
  ASSUME RamTypeOK, NEW i \in 1 .. Len(txq)
  PROVE  txq[i].len \in Nat /\ txq[i].upto \in Nat
<1>1. txq \in Seq([len : Lens, upto : Nat])
  BY DEF RamTypeOK
<1>2. txq[i] \in [len : Lens, upto : Nat]
  BY <1>1, ElementIn
<1>3. \A x \in [len : Lens, upto : Nat] : x.len \in Nat /\ x.upto \in Nat
  OBVIOUS
<1> QED  BY <1>2, <1>3

(* What a receive buffer's place is reckoned from.                         *)
LEMMA RxTypes ==
  ASSUME RamTypeOK, NEW s \in RxBuf
  PROVE  /\ s[1] \in Pool /\ s[2] \in Nat /\ s = <<s[1], s[2]>>
         /\ s[2] < cfg_params.num_bufs[s[1]]
         /\ cfg_params.buf_sz[s[1]] \in Nat
         /\ \A p \in Pool : RxSize(cfg_params, p) \in Nat /\ rx_pool_base(cfg_params, p) \in Int
         /\ bounce_buf_addr(s) \in Int
<1>1. \A p \in Pool : cfg_params.num_bufs[p] \in Nat /\ cfg_params.buf_sz[p] \in Nat
  BY RamTypes
<1>2. PICK p \in Pool : s \in {p} \X (0 .. cfg_params.num_bufs[p] - 1)
  BY DEF RxBuf
<1>3. s[1] = p /\ s[2] \in 0 .. cfg_params.num_bufs[p] - 1 /\ s = <<s[1], s[2]>>
  BY <1>2
<1>4. \A q \in Pool : RxSize(cfg_params, q) \in Nat
  BY <1>1, Product DEF RxSize
<1>5. 0 \in Pool /\ 1 \in Pool
  BY DEF Pool
<1>6. NRF70_RX_NUM_BUFS * NRF70_RX_MAX_DATA_SIZE \in Nat
  BY Product
<1>7. \A q \in Pool : rx_pool_base(cfg_params, q) \in Int
  BY <1>4, <1>5, <1>6 DEF rx_pool_base
<1>8. s[2] * cfg_params.buf_sz[s[1]] \in Nat
  BY <1>1, <1>2, <1>3, Product
<1>9. bounce_buf_addr(s) \in Int
  BY <1>3, <1>7, <1>8, <1>2 DEF bounce_buf_addr
<1> QED  BY <1>1, <1>2, <1>3, <1>4, <1>7, <1>9

(* The frame that is mapped next.                                          *)
LEMMA NextTypes ==
  ASSUME RamTypeOK, Held, stage = "map", num_tx_pkts < Len(txq)
  PROVE  /\ num_tx_pkts \in Place /\ num_tx_pkts \in Nat /\ token \in Token
         /\ num_tx_pkts + 1 \in 1 .. Len(txq)
         /\ frame_desc = desc_id(token, num_tx_pkts) /\ frame_desc \in TxDesc
         /\ FrameLen \in Nat /\ FrameAddr \in Nat
<1>1. num_tx_pkts \in Nat /\ Len(txq) \in Nat /\ token \in Token
  BY DEF RamTypeOK
<1>2. num_tx_pkts \in Place /\ num_tx_pkts + 1 \in 1 .. Len(txq)
  BY <1>1 DEF Held, Place
<1>3. frame_desc \in TxDesc
  BY <1>1, <1>2, DescOfToken DEF frame_desc
<1>4. FrameLen \in Nat
  BY <1>2, QueueTypes, Aligned DEF FrameLen
<1>5. tx_token_base_addr(token) \in Nat /\ tx_frame_offset \in Nat
  BY <1>1, RamTypes DEF Base, RamTypeOK
<1>6. FrameAddr \in Nat
  BY <1>5, Aligned DEF FrameAddr
<1> QED  BY <1>1, <1>2, <1>3, <1>4, <1>6 DEF frame_desc

(* The types hold initially.                                               *)
LEMMA RamTypeInit == RamInit => RamTypeOK
<1> SUFFICES ASSUME RamInit PROVE RamTypeOK
  OBVIOUS
<1>1. None \in Entry
  BY DEF None, Entry
<1>2. 0 \in Token
  BY DEF Token
<1>3. <<>> \in Seq([len : Lens, upto : Nat])
  OBVIOUS
<1> QED  BY <1>1, <1>2, <1>3 DEF RamInit, RamTypeOK

(* One frame more in the queue.                                            *)
LEMMA TakeTypes ==
  ASSUME RamTypeOK, NEW len \in Lens, Take(len)
  PROVE  /\ ampdu_len' \in Nat
         /\ txq' = Append(txq, [len |-> len, upto |-> ampdu_len'])
         /\ txq' \in Seq([len : Lens, upto : Nat])
<1>1. len \in Nat
  OBVIOUS
<1>2. ampdu_len' \in Nat
  BY <1>1 DEF Take, RamTypeOK
<1>3. txq' = Append(txq, [len |-> len, upto |-> ampdu_len'])
  BY DEF Take
<1>4. [len |-> len, upto |-> ampdu_len'] \in [len : Lens, upto : Nat]
  BY <1>2
<1>5. txq \in Seq([len : Lens, upto : Nat])
  BY DEF RamTypeOK
<1> QED  BY <1>2, <1>3, <1>4, <1>5

(* Every step keeps the types.                                             *)
LEMMA RamTypeStep == RamTypeOK /\ Held /\ [RamNext]_ramvars => RamTypeOK'
<1> SUFFICES ASSUME RamTypeOK, Held, [RamNext]_ramvars PROVE RamTypeOK'
  OBVIOUS
<1> USE DEF RamTypeOK
<1>a. cfg_params' = cfg_params => RxBuf' = RxBuf
  BY DEF RxBuf
<1>1. ASSUME NEW t \in Token, Gather(t) PROVE RamTypeOK'
  BY <1>a, <1>1 DEF Gather
<1>2. ASSUME NEW t \in Token, TxDone(t) PROVE RamTypeOK'
  <2>1. None \in Entry
    BY DEF None, Entry
  <2>2. tx_buf_info' \in [TxDesc -> Entry]
    BY <1>2, <2>1 DEF TxDone
  <2> QED  BY <1>a, <1>2, <2>2 DEF TxDone, command
<1>3. ASSUME NEW len \in Lens, TakeNext(len) PROVE RamTypeOK'
  <2>1. Take(len)
    BY <1>3 DEF TakeNext
  <2>2. ampdu_len' \in Nat /\ txq' \in Seq([len : Lens, upto : Nat])
    BY <2>1, TakeTypes
  <2> HIDE DEF RamTypeOK
  <2> QED  BY <1>a, <1>3, <2>1, <2>2 DEF TakeNext, Take, RamTypeOK
<1>4. ASSUME NEW len \in Lens, TakeOne(len) PROVE RamTypeOK'
  <2>1. Take(len)
    BY <1>4 DEF TakeOne
  <2>2. ampdu_len' \in Nat /\ txq' \in Seq([len : Lens, upto : Nat])
    BY <2>1, TakeTypes
  <2>3. coalesced' \in [Token -> Nat] /\ stage' = "map"
    BY <1>4 DEF TakeOne
  <2> QED  BY <1>a, <2>1, <2>2, <2>3 DEF Take
<1>5. CASE Gathered
  <2>1. coalesced' \in [Token -> Nat]
    BY <1>a, <1>5 DEF Gathered
  <2> QED  BY <1>a, <1>5, <2>1 DEF Gathered
<1>6. CASE MapTx
  <2>1. stage = "map" /\ num_tx_pkts < Len(txq)
    BY <1>a, <1>6 DEF MapTx, Written
  <2>2. FrameLen \in Nat /\ FrameAddr \in Nat /\ frame_desc \in TxDesc
    BY <2>1, NextTypes
  <2>3. Mapped(FrameAddr, FrameLen) \in Entry
    BY <2>2 DEF Mapped, Entry
  <2>4. tx_buf_info' \in [TxDesc -> Entry] /\ tx_frame_offset' \in Nat
    BY <1>a, <1>6, <2>2, <2>3 DEF MapTx, Written
  <2> QED  BY <1>a, <1>6, <2>4 DEF MapTx, Written
<1>7. CASE MapTxFails
  <2>1. stage = "map" /\ num_tx_pkts < Len(txq)
    BY <1>7 DEF MapTxFails, Written
  <2>2. FrameLen \in Nat /\ FrameAddr \in Nat
    BY <2>1, NextTypes
  <2>3. tx_frame_offset' \in Nat
    BY <1>7, <2>2 DEF MapTxFails, Written
  <2> QED  BY <1>a, <1>7, <2>3 DEF MapTxFails, Written, GiveUp
<1>8. CASE MapTxRefused
  <2>1. use' \in [Token -> {"free", "cmd", "rpu", "lost"}] /\ stage' = "idle"
    BY <1>a, <1>8 DEF MapTxRefused, GiveUp
  <2> QED  BY <1>a, <1>8, <2>1 DEF MapTxRefused, GiveUp
<1>9. CASE SendTx
  BY <1>a, <1>9 DEF SendTx, GiveUp
<1>10. ASSUME NEW s \in RxBuf, MapRx(s) PROVE RamTypeOK'
  <2>1. bounce_buf_addr(s) \in Int /\ cfg_params.buf_sz[s[1]] \in Nat
    BY RxTypes
  <2>2. Mapped(bounce_buf_addr(s) + RX_BUF_HEADROOM, cfg_params.buf_sz[s[1]]) \in Entry
    BY <2>1 DEF Mapped, Entry
  <2>3. rx_buf_info' \in [RxBuf -> Entry]
    BY <1>10, <2>2 DEF MapRx
  <2> QED  BY <1>a, <1>10, <2>3 DEF MapRx, command
<1>11. ASSUME NEW s \in RxBuf, UnmapRx(s) PROVE RamTypeOK'
  <2>1. None \in Entry
    BY DEF None, Entry
  <2>2. rx_buf_info' \in [RxBuf -> Entry]
    BY <1>11, <2>1 DEF UnmapRx
  <2> QED  BY <1>a, <1>11, <2>2 DEF UnmapRx, command
<1>12. CASE UNCHANGED ramvars
  BY <1>a, <1>12 DEF ramvars, command
<1> QED
  BY <1>1, <1>2, <1>3, <1>4, <1>5, <1>6, <1>7, <1>8, <1>9, <1>10, <1>11, <1>12 DEF RamNext

(* Every step keeps who has tx_lock, and the length of the queue.          *)
LEMMA HeldStep == RamTypeOK /\ Held /\ [RamNext]_ramvars => Held'
<1> SUFFICES ASSUME RamTypeOK, Held, [RamNext]_ramvars PROVE Held'
  OBVIOUS
<1>a. /\ use \in [Token -> {"free", "cmd", "rpu", "lost"}] /\ coalesced \in [Token -> Nat]
      /\ token \in Token /\ stage \in {"idle", "gather", "map"}
      /\ txq \in Seq([len : Lens, upto : Nat]) /\ Len(txq) \in Nat /\ num_tx_pkts \in Nat
  BY DEF RamTypeOK
<1>1. ASSUME NEW t \in Token, Gather(t) PROVE Held'
  BY <1>1, <1>a DEF Gather, Held
<1>2. ASSUME NEW t \in Token, TxDone(t) PROVE Held'
  BY <1>2, <1>a DEF TxDone, command, Held
<1>3. ASSUME NEW len \in Lens, TakeNext(len) PROVE Held'
  <2>1. txq' = Append(txq, [len |-> len, upto |-> ampdu_len'])
    BY <1>3 DEF TakeNext, Take
  <2>2. Len(txq') = Len(txq) + 1
    BY <2>1, <1>a
  <2> QED  BY <1>3, <1>a, <2>2 DEF TakeNext, Take, Held
<1>4. ASSUME NEW len \in Lens, TakeOne(len) PROVE Held'
  <2>1. txq' = Append(txq, [len |-> len, upto |-> ampdu_len']) /\ txq = <<>>
    BY <1>4 DEF TakeOne, Take
  <2>2. Len(txq') = 1 /\ txq' # <<>>
    BY <2>1, <1>a
  <2> QED  BY <1>4, <1>a, <2>2 DEF TakeOne, Take, Held
<1>5. CASE Gathered
  BY <1>5, <1>a DEF Gathered, Held
<1>6. CASE MapTx
  BY <1>6, <1>a DEF MapTx, Written, Held
<1>7. CASE MapTxFails
  BY <1>7, <1>a DEF MapTxFails, Written, GiveUp, Held
<1>8. CASE MapTxRefused
  BY <1>8, <1>a DEF MapTxRefused, GiveUp, Held
<1>9. CASE SendTx
  BY <1>9, <1>a DEF SendTx, GiveUp, Held
<1>10. ASSUME NEW s \in RxBuf, MapRx(s) PROVE Held'
  BY <1>10 DEF MapRx, command, Held
<1>11. ASSUME NEW s \in RxBuf, UnmapRx(s) PROVE Held'
  BY <1>11 DEF UnmapRx, command, Held
<1>12. CASE UNCHANGED ramvars
  BY <1>12 DEF ramvars, command, Held
<1> QED
  BY <1>1, <1>2, <1>3, <1>4, <1>5, <1>6, <1>7, <1>8, <1>9, <1>10, <1>11, <1>12 DEF RamNext

(* One frame more keeps the lengths in order.                              *)
LEMMA GatheringTake ==
  ASSUME RamTypeOK, Gathering, NEW len \in Lens, Take(len),
         \/ stage = "gather" /\ Fits(len)
         \/ stage' = "map" /\ txq = <<>>
  PROVE  Gathering'
<1> DEFINE n == Len(txq)
           e == [len |-> len, upto |-> ampdu_len']
<1>1. txq \in Seq([len : Lens, upto : Nat]) /\ n \in Nat /\ ampdu_len \in Nat /\ len \in Nat
  BY DEF RamTypeOK
<1>2. txq' = Append(txq, e) /\ ampdu_len' = ampdu_len + TX_BUF_HEADROOM + len
      /\ cfg_params' = cfg_params
  BY DEF Take
<1>3. Len(txq') = n + 1 /\ (\A i \in 1 .. n : txq'[i] = txq[i]) /\ txq'[n + 1] = e
  BY <1>1, <1>2
<1>4. e.len = len /\ e.upto = ampdu_len'
  OBVIOUS
<1> HIDE DEF n, e
<1>5. ASSUME NEW i \in 1 .. n + 1 PROVE Before(i)' = Before(i)
  <2>1. CASE i = 1
    BY <2>1 DEF Before
  <2>2. CASE i # 1
    <3>1. i - 1 \in 1 .. n
      BY <1>1, <2>2
    <3>2. txq'[i - 1] = txq[i - 1]
      BY <1>3, <3>1
    <3> QED  BY <2>2, <3>2 DEF Before
  <2> QED  BY <2>1, <2>2
<1>7. Before(n + 1) = ampdu_len
  BY DEF Gathering, n
<1>8. ASSUME NEW i \in 1 .. n + 1
      PROVE  txq'[i].upto = Before(i)' + TX_BUF_HEADROOM + txq'[i].len
  <2>1. CASE i = n + 1
    <3>1. Before(i)' = ampdu_len
      BY <1>5, <1>7, <2>1
    <3> QED  BY <1>2, <1>3, <1>4, <2>1, <3>1
  <2>2. CASE i # n + 1
    <3>1. i \in 1 .. n
      BY <1>1, <2>2
    <3>2. txq[i].upto = Before(i) + TX_BUF_HEADROOM + txq[i].len
      BY <3>1 DEF Gathering, n
    <3> QED  BY <1>3, <1>5, <3>1, <3>2
  <2> QED  BY <2>1, <2>2
<1>9. ASSUME NEW i \in 1 .. n + 1
      PROVE  \/ txq'[i].upto < cfg_params.avail_ampdu_len_per_token
             \/ stage' # "gather" /\ n + 1 = 1
  <2>1. CASE stage' = "map" /\ txq = <<>>
    BY <2>1 DEF n
  <2>2. CASE stage = "gather" /\ Fits(len) /\ i = n + 1
    BY <2>2, <1>2, <1>3, <1>4 DEF Fits
  <2>3. CASE stage = "gather" /\ Fits(len) /\ i # n + 1
    <3>1. i \in 1 .. n
      BY <1>1, <2>3
    <3>2. \/ txq[i].upto < cfg_params.avail_ampdu_len_per_token
          \/ stage # "gather" /\ n = 1
      BY <3>1 DEF Gathering, n
    <3>3. CASE txq[i].upto < cfg_params.avail_ampdu_len_per_token
      BY <3>1, <3>3, <1>3
    <3> QED  BY <3>2, <3>3, <2>3
  <2> QED  BY <2>1, <2>2, <2>3
<1>10. Before(Len(txq) + 1)' = ampdu_len'
  <2>1. Len(txq') + 1 # 1 /\ (Len(txq') + 1) - 1 = n + 1
    BY <1>1, <1>3
  <2> QED  BY <2>1, <1>3, <1>4 DEF Before
<1>11. Len(txq') = n + 1
  BY <1>3
<1> QED  BY <1>2, <1>8, <1>9, <1>10, <1>11 DEF Gathering

(* Every step keeps the sums of the lengths.                               *)
LEMMA GatheringStep == RamTypeOK /\ Gathering /\ [RamNext]_ramvars => Gathering'
<1> SUFFICES ASSUME RamTypeOK, Gathering, [RamNext]_ramvars PROVE Gathering'
  OBVIOUS
<1>a. ASSUME UNCHANGED <<cfg_params, txq, ampdu_len>>, stage' # "gather" \/ stage' = stage
      PROVE  Gathering'
  BY <1>a DEF Gathering, Before
<1>1. ASSUME NEW t \in Token, Gather(t) PROVE Gathering'
  BY <1>1 DEF Gather, Gathering, Before
<1>2. ASSUME NEW t \in Token, TxDone(t) PROVE Gathering'
  BY <1>a, <1>2 DEF TxDone, command
<1>3. ASSUME NEW len \in Lens, TakeNext(len) PROVE Gathering'
  BY <1>3, GatheringTake DEF TakeNext
<1>4. ASSUME NEW len \in Lens, TakeOne(len) PROVE Gathering'
  BY <1>4, GatheringTake DEF TakeOne
<1>5. CASE Gathered
  BY <1>a, <1>5 DEF Gathered
<1>6. CASE MapTx
  BY <1>a, <1>6 DEF MapTx, Written
<1>7. CASE MapTxFails
  BY <1>a, <1>7 DEF MapTxFails, Written, GiveUp
<1>8. CASE MapTxRefused
  BY <1>a, <1>8 DEF MapTxRefused, GiveUp
<1>9. CASE SendTx
  BY <1>a, <1>9 DEF SendTx, GiveUp
<1>10. ASSUME NEW s \in RxBuf, MapRx(s) PROVE Gathering'
  BY <1>a, <1>10 DEF MapRx, command
<1>11. ASSUME NEW s \in RxBuf, UnmapRx(s) PROVE Gathering'
  BY <1>a, <1>11 DEF UnmapRx, command
<1>12. CASE UNCHANGED ramvars
  BY <1>a, <1>12 DEF ramvars, command
<1> QED
  BY <1>1, <1>2, <1>3, <1>4, <1>5, <1>6, <1>7, <1>8, <1>9, <1>10, <1>11, <1>12 DEF RamNext

(***************************************************************************)
(* What is mapped.                                                         *)
(***************************************************************************)

(* Mapping a frame changes the entry of that frame only.                   *)
LEMMA MapTxFrame ==
  ASSUME RamTypeOK, Held, MapTx, NEW t \in Token, NEW f \in Place
  PROVE  FrameOf(t, f)' = IF t = token /\ f = num_tx_pkts
                          THEN Mapped(FrameAddr, FrameLen) ELSE FrameOf(t, f)
<1>1. stage = "map" /\ num_tx_pkts < Len(txq)
      /\ tx_buf_info' = [tx_buf_info EXCEPT ![frame_desc] = Mapped(FrameAddr, FrameLen)]
  BY DEF MapTx, Written
<1>2. num_tx_pkts \in Place /\ token \in Token /\ frame_desc = desc_id(token, num_tx_pkts)
      /\ frame_desc \in TxDesc
  BY <1>1, NextTypes
<1>3. desc_id(t, f) \in TxDesc
  BY DescOfToken
<1>4. desc_id(t, f) = frame_desc => t = token /\ f = num_tx_pkts
  BY <1>2, DescInjective
<1>5. DOMAIN tx_buf_info = TxDesc
  BY DEF RamTypeOK
<1>6. FrameOf(t, f)' = tx_buf_info'[desc_id(t, f)]
  BY DEF FrameOf, desc_id
<1> QED  BY <1>1, <1>2, <1>3, <1>4, <1>5, <1>6 DEF FrameOf

(* TX_DONE leaves no frame of the token mapped and no other changed.       *)
LEMMA DoneFrame ==
  ASSUME RamTypeOK, Mappings, NEW u \in Token, TxDone(u), NEW t \in Token, NEW f \in Place
  PROVE  /\ t # u => FrameOf(t, f)' = FrameOf(t, f)
         /\ t = u => ~FrameOf(t, f)'.mapped
<1>1. use[u] = "rpu"
      /\ tx_buf_info' = [d \in TxDesc |-> IF d \in Done(u) THEN None ELSE tx_buf_info[d]]
  BY DEF TxDone
<1>2. coalesced[u] \in 1 .. MAX_TX_AGGREGATION /\ First(u, coalesced[u])
  BY <1>1 DEF Mappings
<1>3. desc_id(t, f) \in TxDesc
  BY DescOfToken
<1>4. FrameOf(t, f)' = IF desc_id(t, f) \in Done(u) THEN None ELSE FrameOf(t, f)
  BY <1>1, <1>3 DEF FrameOf, desc_id
<1>5. ASSUME t # u, desc_id(t, f) \in Done(u) PROVE FALSE
  <2>1. PICK g \in 0 .. coalesced[u] - 1 : desc_id(t, f) = desc_id(u, g)
    BY <1>5 DEF Done
  <2>2. g \in Place
    BY <2>1, <1>2 DEF Place
  <2> QED  BY <2>1, <2>2, <1>5, DescInjective
<1>6. ASSUME t = u, desc_id(t, f) \notin Done(u) PROVE ~FrameOf(t, f).mapped
  <2>1. ~(f < coalesced[u])
    <3> SUFFICES ASSUME f < coalesced[u] PROVE FALSE
      OBVIOUS
    <3>1. f \in 0 .. coalesced[u] - 1
      BY <1>2 DEF Place
    <3>2. desc_id(u, f) \in Done(u)
      BY <3>1 DEF Done
    <3> QED  BY <3>2, <1>6
  <2> QED  BY <2>1, <1>2, <1>6 DEF First
<1>7. ~None.mapped
  BY DEF None
<1> QED  BY <1>4, <1>5, <1>6, <1>7

(* What a step that maps nothing keeps.                                    *)
LEMMA Unmoved ==
  ASSUME UNCHANGED <<cfg_params, tx_buf_info>>
  PROVE  /\ \A t, f : FrameOf(t, f)' = FrameOf(t, f) /\ End(t, f)' = End(t, f)
         /\ \A t, n : First(t, n) => First(t, n)'
         /\ \A t : Slice(t) => Slice(t)'
<1>1. \A t, f : FrameOf(t, f)' = FrameOf(t, f) /\ End(t, f)' = End(t, f)
  BY DEF FrameOf, End, desc_id
<1>2. \A t, n : First(t, n) => First(t, n)'
  BY <1>1 DEF First
<1>3. (\A t : Base(t)' = Base(t)) /\ Size' = Size
  BY DEF Base, tx_token_base_addr, Size
<1>4. \A t : Slice(t) => Slice(t)'
  BY <1>1, <1>3 DEF Slice, InSlice
<1> QED  BY <1>1, <1>2, <1>4

(* Every step keeps which frames are mapped.                               *)
LEMMA MappingsStep == RamTypeOK /\ Held /\ Mappings /\ [RamNext]_ramvars => Mappings'
<1> SUFFICES ASSUME RamTypeOK, Held, Mappings, [RamNext]_ramvars PROVE Mappings'
  OBVIOUS
<1>a. /\ use \in [Token -> {"free", "cmd", "rpu", "lost"}] /\ coalesced \in [Token -> Nat]
      /\ token \in Token /\ stage \in {"idle", "gather", "map"}
      /\ Len(txq) \in Nat /\ num_tx_pkts \in Nat
  BY DEF RamTypeOK
<1>b. ASSUME UNCHANGED <<cfg_params, tx_buf_info>>
      PROVE  \A t, n : First(t, n) => First(t, n)'
  BY <1>b, Unmoved
<1>1. ASSUME NEW t \in Token, Gather(t) PROVE Mappings'
  <2>1. \A u, n : First(u, n) => First(u, n)'
    BY <1>1, <1>b DEF Gather
  <2>2. First(t, 0)
    BY <1>1 DEF Gather, Mappings
  <2>3. First(token, num_tx_pkts)'
    BY <2>1, <2>2, <1>1 DEF Gather, First, FrameOf, desc_id
  <2> QED  BY <1>1, <1>a, <2>1, <2>3 DEF Gather, Mappings
<1>2. ASSUME NEW t \in Token, TxDone(t) PROVE Mappings'
  <2>1. ASSUME NEW u \in Token, u # t, NEW n, First(u, n) PROVE First(u, n)'
    BY <1>2, <2>1, DoneFrame DEF First
  <2>2. First(t, 0)'
    BY <1>2, DoneFrame DEF First, Place
  <2>3. stage' = "idle" /\ coalesced' = coalesced /\ use' = [use EXCEPT ![t] = "free"]
    BY <1>2 DEF TxDone, command
  <2> QED  BY <1>a, <2>1, <2>2, <2>3 DEF Mappings
<1>3. ASSUME NEW len \in Lens, TakeNext(len) PROVE Mappings'
  <2>1. \A u, n : First(u, n) => First(u, n)'
    BY <1>3, <1>b DEF TakeNext, Take
  <2> QED  BY <1>3, <2>1 DEF TakeNext, Take, Mappings, First, FrameOf, desc_id
<1>4. ASSUME NEW len \in Lens, TakeOne(len) PROVE Mappings'
  <2>1. \A u, n : First(u, n) => First(u, n)'
    BY <1>4, <1>b DEF TakeOne, Take
  <2> QED  BY <1>4, <1>a, <2>1 DEF TakeOne, Take, Mappings, Held, First, FrameOf, desc_id
<1>5. CASE Gathered
  <2>1. \A u, n : First(u, n) => First(u, n)'
    BY <1>5, <1>b DEF Gathered
  <2> QED  BY <1>5, <1>a, <2>1 DEF Gathered, Mappings, Held, First, FrameOf, desc_id
<1>6. CASE MapTx
  <2>1. stage = "map" /\ num_tx_pkts < Len(txq) /\ use[token] = "cmd"
    BY <1>6 DEF MapTx, Written, Held
  <2>2. First(token, num_tx_pkts)
    BY <2>1 DEF Mappings
  <2>3. Mapped(FrameAddr, FrameLen).mapped
    BY DEF Mapped
  <2>4. ASSUME NEW f \in Place
        PROVE  /\ f < num_tx_pkts + 1 => FrameOf(token, f)'.mapped
               /\ FrameOf(token, f)'.mapped => f < num_tx_pkts + 1
    <3>1. FrameOf(token, f)' = IF f = num_tx_pkts THEN Mapped(FrameAddr, FrameLen)
                               ELSE FrameOf(token, f)
      <4>1. token' = token
        BY <1>6 DEF MapTx
      <4>2. ASSUME NEW t \in Token, t = token
            PROVE  FrameOf(t, f)' = IF f = num_tx_pkts THEN Mapped(FrameAddr, FrameLen)
                                    ELSE FrameOf(t, f)
        BY <4>2, <1>6, MapTxFrame
      <4> QED  BY <4>1, <4>2, <1>a DEF FrameOf, desc_id
    <3> QED  BY <3>1, <2>2, <2>3, <1>a DEF First, Place
  <2>5. First(token, num_tx_pkts)'
    BY <2>4, <1>6 DEF First, MapTx, FrameOf, desc_id
  <2>6. ASSUME NEW u \in Token, u # token, NEW n, First(u, n) PROVE First(u, n)'
    BY <1>6, <2>6, MapTxFrame DEF First
  <2>7. UNCHANGED <<stage, token, use, coalesced>>
    BY <1>6 DEF MapTx, Written
  <2> QED  BY <1>a, <2>1, <2>5, <2>6, <2>7 DEF Mappings
<1>7. CASE MapTxFails
  <2>1. \A u, n : First(u, n) => First(u, n)'
    BY <1>7, <1>b DEF MapTxFails, Written
  <2> QED  BY <1>7, <1>a, <2>1 DEF MapTxFails, Written, GiveUp, Mappings
<1>8. CASE MapTxRefused
  <2>1. \A u, n : First(u, n) => First(u, n)'
    BY <1>8, <1>b DEF MapTxRefused
  <2> QED  BY <1>8, <1>a, <2>1 DEF MapTxRefused, GiveUp, Mappings
<1>9. CASE SendTx
  <2>1. \A u, n : First(u, n) => First(u, n)'
    BY <1>9, <1>b DEF SendTx
  <2>2. stage = "map" /\ num_tx_pkts = Len(txq) /\ coalesced' = coalesced /\ stage' = "idle"
    BY <1>9 DEF SendTx, GiveUp
  <2>3. coalesced[token] \in 1 .. MAX_TX_AGGREGATION /\ First(token, coalesced[token])
    <3>1. Len(txq) # 0
      BY <2>2 DEF Held, RamTypeOK
    <3> QED  BY <3>1, <2>2, <1>a DEF Held, Mappings
  <2>4. use' = [use EXCEPT ![token] = "rpu"] \/ use' = [use EXCEPT ![token] = "lost"]
    BY <1>9 DEF SendTx, GiveUp
  <2> QED  BY <1>a, <2>1, <2>2, <2>3, <2>4 DEF Mappings
<1>10. ASSUME NEW s \in RxBuf, MapRx(s) PROVE Mappings'
  <2>1. \A u, n : First(u, n) => First(u, n)'
    BY <1>10, <1>b DEF MapRx
  <2> QED  BY <1>10, <2>1 DEF MapRx, command, Mappings, First, FrameOf, desc_id
<1>11. ASSUME NEW s \in RxBuf, UnmapRx(s) PROVE Mappings'
  <2>1. \A u, n : First(u, n) => First(u, n)'
    BY <1>11, <1>b DEF UnmapRx
  <2> QED  BY <1>11, <2>1 DEF UnmapRx, command, Mappings, First, FrameOf, desc_id
<1>12. CASE UNCHANGED ramvars
  BY <1>12 DEF ramvars, command, Mappings, First, FrameOf, desc_id
<1> QED
  BY <1>1, <1>2, <1>3, <1>4, <1>5, <1>6, <1>7, <1>8, <1>9, <1>10, <1>11, <1>12 DEF RamNext

(***************************************************************************)
(* Where frames are.                                                       *)
(***************************************************************************)

(* The next frame begins where the last ended, and ends in the slice.      *)
LEMMA NextFits ==
  ASSUME RamTypeOK, Held, Gathering, Slots, Sized(cfg_params), Written
  PROVE  /\ num_tx_pkts > 0 => FrameAddr = tx_frame_offset
         /\ Base(token) <= FrameAddr
         /\ tx_frame_offset' = FrameAddr + FrameLen + TX_BUF_HEADROOM
         /\ tx_frame_offset' % 4 = 0
         /\ tx_frame_offset' <= Base(token) + txq[num_tx_pkts + 1].upto + 3 * (num_tx_pkts + 1)
         /\ tx_frame_offset' <= Base(token) + Size
<1> DEFINE k == num_tx_pkts
           len == txq[k + 1].len
           upto == txq[k + 1].upto
<1>1. stage = "map" /\ k < Len(txq) /\ len <= MAX_TX_LEN
      /\ tx_frame_offset' = FrameAddr + FrameLen + TX_BUF_HEADROOM
  BY DEF Written, Accepted
<1>2. k \in Place /\ k \in Nat /\ token \in Token /\ k + 1 \in 1 .. Len(txq)
      /\ FrameLen \in Nat /\ FrameAddr \in Nat
  BY <1>1, NextTypes
<1>3. Len(txq) \in Nat /\ Len(txq) <= MAX_TX_AGGREGATION /\ tx_frame_offset \in Nat
  BY DEF Held, RamTypeOK
<1>4. Base(token) \in Nat /\ Size \in Nat /\ cfg_params.avail_ampdu_len_per_token \in Nat
  BY <1>2, RamTypes
<1>5. len \in Nat /\ upto \in Nat
  BY <1>2, QueueTypes
<1>6. FrameLen = Align(len)
  BY DEF FrameLen
<1>7. FrameLen % 4 = 0 /\ FrameLen <= len + 3
  BY <1>5, <1>6, Aligned
<1>8. Base(token) % 4 = 0
  <2>1. Size % 4 = 0
    BY DEF Sized, Size
  <2>2. token \in Nat
    BY <1>2 DEF Token
  <2> QED  BY <2>1, <2>2, <1>4, MultipleOf4 DEF Base, tx_token_base_addr, Size
<1>9. /\ k = 0 => FrameAddr = Base(token)
      /\ k > 0 => FrameAddr = tx_frame_offset
  <2>1. CASE k = 0
    BY <2>1, <1>4, <1>8, Aligned DEF FrameAddr, Base
  <2>2. CASE k > 0
    <3>1. tx_frame_offset % 4 = 0
      BY <2>2, <1>1 DEF Slots, Following
    <3>2. Align(tx_frame_offset) = tx_frame_offset
      BY <3>1, <1>3, Aligned
    <3>3. FrameAddr = Align(tx_frame_offset)
      BY <2>2, <1>2 DEF FrameAddr
    <3> QED  BY <2>2, <3>2, <3>3, <1>2
  <2> QED  BY <2>1, <2>2, <1>2
<1>10. k > 0 => /\ tx_frame_offset % 4 = 0 /\ Base(token) <= tx_frame_offset
                /\ tx_frame_offset <= Base(token) + Before(k + 1) + 3 * k
  BY <1>1 DEF Slots, Following
<1>11. FrameAddr % 4 = 0 /\ Base(token) <= FrameAddr
  BY <1>2, <1>4, <1>8, <1>9, <1>10
<1>12. tx_frame_offset' % 4 = 0
  <2>1. (FrameAddr + FrameLen) % 4 = 0
    BY <1>2, <1>7, <1>11, AlignedSum
  <2>2. FrameAddr + FrameLen \in Nat
    BY <1>2
  <2>3. ((FrameAddr + FrameLen) + TX_BUF_HEADROOM) % 4 = 0
    BY <2>1, <2>2, AlignedSum
  <2> QED  BY <2>3, <1>1
<1>13. upto = Before(k + 1) + TX_BUF_HEADROOM + len
  BY <1>2 DEF Gathering
<1>14. Before(k + 1) \in Nat /\ (k = 0 => Before(k + 1) = 0)
  <2>1. CASE k = 0
    BY <2>1 DEF Before
  <2>2. CASE k > 0
    <3>1. k \in 1 .. Len(txq)
      BY <2>2, <1>2, <1>3
    <3> QED  BY <3>1, <2>2, <1>2, QueueTypes DEF Before
  <2> QED  BY <2>1, <2>2, <1>2
<1> HIDE DEF k, len, upto
<1>15. FrameAddr <= Base(token) + Before(k + 1) + 3 * k
  BY <1>2, <1>4, <1>9, <1>10, <1>14
<1>16. tx_frame_offset' <= Base(token) + upto + 3 * (k + 1)
  <2>1. FrameAddr + FrameLen + TX_BUF_HEADROOM <= Base(token) + upto + 3 * (k + 1)
    BY <1>2, <1>4, <1>5, <1>7, <1>13, <1>14, <1>15, OneFrameMore
  <2> QED  BY <2>1, <1>1
<1>17. tx_frame_offset' <= Base(token) + Size
  <2>1. \/ upto < cfg_params.avail_ampdu_len_per_token
        \/ Len(txq) = 1
    BY <1>2 DEF Gathering, upto
  <2>2. CASE upto < cfg_params.avail_ampdu_len_per_token
    <3>1. cfg_params.avail_ampdu_len_per_token + 3 * MAX_TX_AGGREGATION <= Size + 1
      BY DEF Sized, Size
    <3>2. k + 1 <= MAX_TX_AGGREGATION
      BY <1>2, <1>3
    <3>3. tx_frame_offset' \in Int
      BY <1>1, <1>2
    <3> QED  BY <2>2, <3>1, <3>2, <3>3, <1>2, <1>4, <1>5, <1>16, RoomLeft
  <2>3. CASE Len(txq) = 1
    <3>1. k = 0
      BY <2>3, <1>1, <1>2
    <3>2. FrameLen <= Align(MAX_TX_LEN) /\ Align(MAX_TX_LEN) \in Nat
      BY <1>1, <1>5, <1>6, AlignedOrder, Aligned
    <3>3. Align(MAX_TX_LEN) + TX_BUF_HEADROOM <= Size
      BY DEF Sized, Size
    <3>4. Base(token) + FrameLen + TX_BUF_HEADROOM <= Base(token) + Size
      BY <3>2, <3>3, <1>2, <1>4, OneFrameFits
    <3> QED  BY <3>1, <3>4, <1>1, <1>9
  <2> QED  BY <2>1, <2>2, <2>3
<1> QED  BY <1>1, <1>9, <1>11, <1>12, <1>16, <1>17 DEF k, upto

(* What is left of a slice is as it was.                                   *)
LEMMA SliceKept ==
  ASSUME cfg_params' = cfg_params, NEW t \in Token, Slice(t),
         \A f \in Place : FrameOf(t, f)'.mapped => FrameOf(t, f)' = FrameOf(t, f)
  PROVE  Slice(t)'
<1>1. Base(t)' = Base(t) /\ Size' = Size
  BY DEF Base, tx_token_base_addr, Size
<1>2. ASSUME NEW f \in Place, FrameOf(t, f)'.mapped
      PROVE  FrameOf(t, f)' = FrameOf(t, f) /\ FrameOf(t, f).mapped /\ End(t, f)' = End(t, f)
  BY <1>2 DEF End
<1> QED  BY <1>1, <1>2 DEF Slice, InSlice

(* Every step keeps the frames in their slices.                            *)
LEMMA SlotsStep ==
  RamTypeOK /\ Held /\ Gathering /\ Mappings /\ Slots /\ [RamNext]_ramvars => Slots'
<1> SUFFICES ASSUME RamTypeOK, Held, Gathering, Mappings, Slots, [RamNext]_ramvars,
                    Sized(cfg_params)'
             PROVE  Following' /\ \A t \in Token : Slice(t)'
  BY DEF Slots
<1>a. cfg_params' = cfg_params
  BY DEF RamNext, Gather, TxDone, TakeNext, TakeOne, Take, Gathered, MapTx, MapTxFails, Written,
         MapTxRefused, SendTx, MapRx, UnmapRx, ramvars
<1>b. Sized(cfg_params) /\ Following /\ \A t \in Token : Slice(t)
  BY <1>a DEF Slots, Sized, rx_pool_base, RxSize
<1>c. num_tx_pkts \in Nat /\ token \in Token
  BY DEF RamTypeOK
<1>d. ASSUME tx_buf_info' = tx_buf_info PROVE \A t \in Token : Slice(t)'
  BY <1>a, <1>b, <1>d, Unmoved
<1>e. ASSUME stage' # "map" \/ num_tx_pkts' = 0 PROVE Following'
  BY <1>e DEF Following
<1>f. ASSUME UNCHANGED <<tx_buf_info, tx_frame_offset, stage, token, num_tx_pkts, txq>>
      PROVE  Following'
  BY <1>a, <1>b, <1>f DEF Following, Base, tx_token_base_addr, Before, End, FrameOf, desc_id
<1>1. ASSUME NEW t \in Token, Gather(t) PROVE Following' /\ \A u \in Token : Slice(u)'
  BY <1>1, <1>d, <1>e DEF Gather
<1>2. ASSUME NEW t \in Token, TxDone(t) PROVE Following' /\ \A u \in Token : Slice(u)'
  <2>1. stage' # "map"
    BY <1>2 DEF TxDone, command
  <2>2. ASSUME NEW u \in Token PROVE Slice(u)'
    <3>1. \A f \in Place : FrameOf(u, f)'.mapped => FrameOf(u, f)' = FrameOf(u, f)
      BY <1>2, DoneFrame
    <3> QED  BY <3>1, <1>a, <1>b, SliceKept
  <2> QED  BY <2>1, <2>2, <1>e
<1>3. ASSUME NEW len \in Lens, TakeNext(len) PROVE Following' /\ \A u \in Token : Slice(u)'
  BY <1>3, <1>d, <1>e DEF TakeNext, Take
<1>4. ASSUME NEW len \in Lens, TakeOne(len) PROVE Following' /\ \A u \in Token : Slice(u)'
  BY <1>4, <1>d, <1>e DEF TakeOne, Take, Held
<1>5. CASE Gathered
  BY <1>5, <1>d, <1>e DEF Gathered, Held
<1>6. CASE MapTx
  <2>1. Written /\ stage = "map" /\ num_tx_pkts < Len(txq)
    BY <1>6 DEF MapTx, Written
  <2>k. PICK k \in Place : k = num_tx_pkts
    BY <2>1, NextTypes
  <2>2. /\ k > 0 => FrameAddr = tx_frame_offset
        /\ Base(token) <= FrameAddr
        /\ tx_frame_offset' = FrameAddr + FrameLen + TX_BUF_HEADROOM
        /\ tx_frame_offset' % 4 = 0
        /\ tx_frame_offset' <= Base(token) + txq[k + 1].upto + 3 * (k + 1)
        /\ tx_frame_offset' <= Base(token) + Size
    BY <2>1, <2>k, <1>b, NextFits
  <2>3. FrameLen \in Nat /\ FrameAddr \in Nat
    BY <2>1, NextTypes
  <2>4. First(token, k)
    BY <2>1, <2>k DEF Mappings
  <2>5. /\ Mapped(FrameAddr, FrameLen).mapped
        /\ Mapped(FrameAddr, FrameLen).addr = FrameAddr
        /\ Mapped(FrameAddr, FrameLen).len = FrameLen
    BY DEF Mapped
  <2>6. (\A t : Base(t)' = Base(t)) /\ Size' = Size
    BY <1>a DEF Base, tx_token_base_addr, Size
  <2>7. PICK t \in Token : t = token
    BY <1>c
  <2>8. k > 0 => \A f \in Place : f < k => End(t, f) <= tx_frame_offset
    BY <2>1, <2>7, <2>k, <1>b DEF Following
  <2>9. FrameOf(t, k)' = Mapped(FrameAddr, FrameLen)
    BY <2>7, <2>k, <1>6, MapTxFrame
  <2>10. \A f \in Place : f # k => FrameOf(t, f)' = FrameOf(t, f) /\ End(t, f)' = End(t, f)
    BY <2>7, <2>k, <1>6, MapTxFrame DEF End
  <2>11. FrameOf(t, k)'.addr = FrameAddr /\ End(t, k)' = tx_frame_offset'
    BY <2>2, <2>5, <2>9 DEF End
  <2>12. Slice(t) /\ First(t, k)
    BY <1>b, <2>4, <2>7
  <2>13. Base(t) \in Nat /\ Size \in Nat /\ k \in Nat /\ k >= 0
    BY <1>c, RamTypes DEF Place
  <2>14. ASSUME NEW f \in Place, FrameOf(t, f)'.mapped PROVE InSlice(t, f)'
    <3>1. CASE f = k
      BY <3>1, <2>2, <2>6, <2>7, <2>11 DEF InSlice
    <3>2. CASE f # k
      <4>1. InSlice(t, f)
        BY <3>2, <2>10, <2>12, <2>14 DEF Slice
      <4> QED  BY <3>2, <4>1, <2>6, <2>10 DEF InSlice
    <3> QED  BY <3>1, <3>2
  <2>15. ASSUME NEW f \in Place, NEW g \in Place, f < g,
                FrameOf(t, f)'.mapped, FrameOf(t, g)'.mapped
         PROVE  End(t, f)' <= FrameOf(t, g)'.addr
    <3>1. f # g /\ (g # k => g < k) /\ (f # k => f < k)
      BY <2>15, <2>10, <2>12 DEF First, Place
    <3>2. CASE g = k
      <4>1. f < k /\ f # k /\ k > 0
        BY <3>1, <3>2, <2>15 DEF Place
      <4>2. End(t, f) <= tx_frame_offset /\ FrameAddr = tx_frame_offset
        BY <4>1, <2>2, <2>8, <2>k
      <4> QED  BY <3>2, <4>1, <4>2, <2>10, <2>11
    <3>3. CASE g # k
      <4>1. f # k
        BY <3>1, <3>3, <2>15, <2>3 DEF Place
      <4> QED  BY <3>3, <4>1, <2>10, <2>12, <2>15 DEF Slice
    <3> QED  BY <3>2, <3>3
  <2>16. Slice(t)'
    BY <2>14, <2>15 DEF Slice
  <2>17. ASSUME NEW u \in Token, u # t PROVE Slice(u)'
    <3>1. \A f \in Place : FrameOf(u, f)' = FrameOf(u, f)
      BY <2>7, <2>17, <1>6, MapTxFrame
    <3> QED  BY <3>1, <1>a, <1>b, SliceKept
  <2>18. num_tx_pkts' = k + 1 /\ token' = t /\ txq' = txq
    BY <2>7, <2>k, <1>6 DEF MapTx
  <2>19. Before(num_tx_pkts + 1)' = txq[k + 1].upto
    <3>1. num_tx_pkts' + 1 # 1 /\ (num_tx_pkts' + 1) - 1 = k + 1
      BY <2>13, <2>18, <2>k
    <3> QED  BY <3>1, <2>18 DEF Before
  <2>20. ASSUME NEW f \in Place, f < k + 1 PROVE End(t, f)' <= tx_frame_offset'
    <3>1. CASE f = k
      BY <3>1, <2>2, <2>3, <2>11
    <3>2. CASE f # k
      <4>1. f < k /\ k > 0
        BY <3>2, <2>13, <2>20 DEF Place
      <4>2. End(t, f)' <= FrameAddr
        BY <4>1, <3>2, <2>2, <2>8, <2>10, <2>k
      <4>3. FrameAddr <= tx_frame_offset'
        BY <2>2, <2>3
      <4>4. End(t, f)' \in Int
        BY <3>2, <2>10, EntryTypes
      <4>5. tx_frame_offset' \in Int
        BY <2>2, <2>3
      <4> QED  BY <4>2, <4>3, <4>4, <4>5, <2>3
    <3> QED  BY <3>1, <3>2
  <2>21. Following'
    <3>1. (\A f \in Place : f < num_tx_pkts => End(token, f) <= tx_frame_offset)'
      BY <2>18, <2>20 DEF End, FrameOf, desc_id
    <3>2. Base(token)' = Base(t) /\ num_tx_pkts' = k + 1
      BY <2>6, <2>18 DEF Base, tx_token_base_addr, Size
    <3>3. Base(t) <= tx_frame_offset'
      BY <2>2, <2>3, <2>7, <2>13
    <3> QED  BY <3>1, <3>2, <3>3, <2>2, <2>7, <2>19 DEF Following
  <2> QED  BY <2>16, <2>17, <2>21
<1>7. CASE MapTxFails
  BY <1>7, <1>d, <1>e DEF MapTxFails, Written, GiveUp
<1>8. CASE MapTxRefused
  BY <1>8, <1>d, <1>e DEF MapTxRefused, GiveUp
<1>9. CASE SendTx
  BY <1>9, <1>d, <1>e DEF SendTx, GiveUp
<1>10. ASSUME NEW s \in RxBuf, MapRx(s) PROVE Following' /\ \A u \in Token : Slice(u)'
  BY <1>10, <1>d, <1>f DEF MapRx, command
<1>11. ASSUME NEW s \in RxBuf, UnmapRx(s) PROVE Following' /\ \A u \in Token : Slice(u)'
  BY <1>11, <1>d, <1>f DEF UnmapRx, command
<1>12. CASE UNCHANGED ramvars
  BY <1>12, <1>d, <1>f DEF ramvars, command
<1> QED
  BY <1>1, <1>2, <1>3, <1>4, <1>5, <1>6, <1>7, <1>8, <1>9, <1>10, <1>11, <1>12 DEF RamNext

(***************************************************************************)
(* Where receive buffers are.                                              *)
(***************************************************************************)

(* Every step keeps the receive buffers where they are.                    *)
LEMMA PostedStep == RamTypeOK /\ Posted /\ [RamNext]_ramvars => Posted'
<1> SUFFICES ASSUME RamTypeOK, Posted, [RamNext]_ramvars PROVE Posted'
  OBVIOUS
<1>a. cfg_params' = cfg_params
  BY DEF RamNext, Gather, TxDone, TakeNext, TakeOne, Take, Gathered, MapTx, MapTxFails, Written,
         MapTxRefused, SendTx, MapRx, UnmapRx, ramvars
<1>b. RxBuf' = RxBuf /\ \A s : bounce_buf_addr(s)' = bounce_buf_addr(s)
  BY <1>a DEF RxBuf, bounce_buf_addr, rx_pool_base, RxSize
<1>c. ASSUME rx_buf_info' = rx_buf_info PROVE Posted'
  BY <1>a, <1>b, <1>c DEF Posted, Mapped
<1>1. ASSUME NEW t \in Token, Gather(t) \/ TxDone(t) PROVE Posted'
  BY <1>1, <1>c DEF Gather, TxDone
<1>2. ASSUME NEW len \in Lens, TakeNext(len) \/ TakeOne(len) PROVE Posted'
  BY <1>2, <1>c DEF TakeNext, TakeOne, Take
<1>3. CASE Gathered
  BY <1>3, <1>c DEF Gathered
<1>4. CASE MapTx \/ MapTxFails
  BY <1>4, <1>c DEF MapTx, MapTxFails, Written
<1>5. CASE MapTxRefused \/ SendTx
  BY <1>5, <1>c DEF MapTxRefused, SendTx
<1>6. ASSUME NEW s \in RxBuf, MapRx(s) PROVE Posted'
  <2>1. rx_buf_info \in [RxBuf -> Entry]
    BY DEF RamTypeOK
  <2>2. rx_buf_info' = [rx_buf_info EXCEPT ![s] =
          Mapped(bounce_buf_addr(s) + RX_BUF_HEADROOM, cfg_params.buf_sz[s[1]])]
    BY <1>6 DEF MapRx
  <2>3. ASSUME NEW r \in RxBuf, rx_buf_info'[r].mapped
        PROVE  rx_buf_info'[r] =
                 Mapped(bounce_buf_addr(r) + RX_BUF_HEADROOM, cfg_params.buf_sz[r[1]])
    <3>1. CASE r = s
      BY <3>1, <2>1, <2>2
    <3>2. CASE r # s
      <4>1. rx_buf_info'[r] = rx_buf_info[r]
        BY <3>2, <2>1, <2>2
      <4> QED  BY <4>1, <2>3 DEF Posted
    <3> QED  BY <3>1, <3>2
  <2> QED  BY <2>3, <1>a, <1>b DEF Posted, Mapped
<1>7. ASSUME NEW s \in RxBuf, UnmapRx(s) PROVE Posted'
  <2>1. rx_buf_info \in [RxBuf -> Entry] /\ rx_buf_info' = [rx_buf_info EXCEPT ![s] = None]
    BY <1>7 DEF RamTypeOK, UnmapRx
  <2>2. ASSUME NEW r \in RxBuf, rx_buf_info'[r].mapped
        PROVE  rx_buf_info'[r] =
                 Mapped(bounce_buf_addr(r) + RX_BUF_HEADROOM, cfg_params.buf_sz[r[1]])
    <3>1. ~None.mapped
      BY DEF None
    <3>2. rx_buf_info'[r] = rx_buf_info[r]
      BY <3>1, <2>1, <2>2
    <3> QED  BY <3>2, <2>2 DEF Posted
  <2> QED  BY <2>2, <1>a, <1>b DEF Posted, Mapped
<1>8. CASE UNCHANGED ramvars
  BY <1>8, <1>c DEF ramvars
<1> QED  BY <1>1, <1>2, <1>3, <1>4, <1>5, <1>6, <1>7, <1>8 DEF RamNext

(* Pools follow each other, up to the end of packet RAM.                   *)
LEMMA Pools ==
  ASSUME RamTypeOK, Sized(cfg_params), NEW p \in Pool, NEW q \in Pool, p < q
  PROVE  /\ rx_pool_base(cfg_params, p) + RxSize(cfg_params, p) <= rx_pool_base(cfg_params, q)
         /\ rx_pool_base(cfg_params, q) + RxSize(cfg_params, q) <= RPU_PKTRAM_SIZE
         /\ rx_pool_base(cfg_params, p) + RxSize(cfg_params, p) <= RPU_PKTRAM_SIZE
         /\ rx_pool_base(cfg_params, 0) <= rx_pool_base(cfg_params, p)
         /\ rx_pool_base(cfg_params, 0) <= rx_pool_base(cfg_params, q)
<1> DEFINE total == NRF70_RX_NUM_BUFS * NRF70_RX_MAX_DATA_SIZE
           n(r) == RxSize(cfg_params, r)
           b(r) == rx_pool_base(cfg_params, r)
<1>1. n(0) \in Nat /\ n(1) \in Nat /\ n(2) \in Nat
  BY RamTypes, Product DEF RxSize, Pool
<1>2. total \in Nat /\ RPU_PKTRAM_SIZE \in Nat
  BY Product
<1>3. /\ b(0) = RPU_PKTRAM_SIZE - total /\ b(1) = RPU_PKTRAM_SIZE - total + n(0)
      /\ b(2) = RPU_PKTRAM_SIZE - total + n(0) + n(1)
  BY <1>1, <1>2 DEF rx_pool_base
<1>4. n(0) + n(1) + n(2) <= total
  BY DEF Sized
<1>5. (p = 0 /\ q = 1) \/ (p = 0 /\ q = 2) \/ (p = 1 /\ q = 2)
  BY DEF Pool
<1> HIDE DEF total, n, b
<1>6. /\ b(0) + n(0) <= b(1) /\ b(0) + n(0) <= b(2) /\ b(1) + n(1) <= b(2)
      /\ b(2) + n(2) <= RPU_PKTRAM_SIZE /\ b(1) + n(1) <= RPU_PKTRAM_SIZE
      /\ b(0) + n(0) <= RPU_PKTRAM_SIZE /\ b(0) <= b(1) /\ b(0) <= b(2) /\ b(0) <= b(0)
  BY <1>1, <1>2, <1>3, <1>4
<1> QED  BY <1>5, <1>6 DEF n, b

(* A buffer that is mapped is in its pool.                                 *)
LEMMA BufferPlace ==
  ASSUME RamTypeOK, Posted, NEW s \in BuffersMapped
  PROVE  /\ s \in RxBuf
         /\ Buffer(s).first = bounce_buf_addr(s)
         /\ Buffer(s).end = bounce_buf_addr(s) + cfg_params.buf_sz[s[1]]
         /\ rx_pool_base(cfg_params, s[1]) <= Buffer(s).first
         /\ Buffer(s).end <= rx_pool_base(cfg_params, s[1]) + RxSize(cfg_params, s[1])
         /\ Buffer(s).first \in Int /\ Buffer(s).end \in Int
<1> DEFINE z == cfg_params.buf_sz[s[1]]
<1>1. s \in RxBuf /\ rx_buf_info[s].mapped
  BY DEF BuffersMapped
<1>2. /\ s[1] \in Pool /\ s[2] \in Nat /\ s[2] < cfg_params.num_bufs[s[1]] /\ z \in Nat
      /\ rx_pool_base(cfg_params, s[1]) \in Int /\ bounce_buf_addr(s) \in Int
  BY <1>1, RxTypes
<1>3. cfg_params.num_bufs[s[1]] \in Nat
  BY <1>2, RamTypes
<1>4. rx_buf_info[s] = Mapped(bounce_buf_addr(s) + RX_BUF_HEADROOM, z)
  BY <1>1 DEF Posted
<1>5. rx_buf_info[s].addr = bounce_buf_addr(s) + RX_BUF_HEADROOM /\ rx_buf_info[s].len = z
  BY <1>4 DEF Mapped
<1>6. bounce_buf_addr(s) = rx_pool_base(cfg_params, s[1]) + s[2] * z
  BY DEF bounce_buf_addr
<1>7. RxSize(cfg_params, s[1]) = cfg_params.num_bufs[s[1]] * z
  BY DEF RxSize
<1> HIDE DEF z
<1>8. Buffer(s).first = bounce_buf_addr(s) /\ Buffer(s).end = bounce_buf_addr(s) + z
  BY <1>2, <1>5 DEF Buffer
<1>9. s[2] * z + z <= cfg_params.num_bufs[s[1]] * z
  BY <1>2, <1>3, Slices
<1>10. s[2] * z \in Nat /\ cfg_params.num_bufs[s[1]] * z \in Nat
  BY <1>2, <1>3, Product
<1>11. rx_pool_base(cfg_params, s[1]) <= bounce_buf_addr(s)
  BY <1>2, <1>6, <1>10
<1>12. bounce_buf_addr(s) + z <= rx_pool_base(cfg_params, s[1]) + RxSize(cfg_params, s[1])
  BY <1>2, <1>6, <1>7, <1>9, <1>10
<1> QED  BY <1>1, <1>2, <1>8, <1>11, <1>12 DEF z

(* Receive buffers are above the slices and in packet RAM.                 *)
LEMMA BuffersInside ==
  ASSUME RamTypeOK, Posted, Sized(cfg_params), NEW s \in BuffersMapped
  PROVE  /\ rx_pool_base(cfg_params, 0) <= Buffer(s).first
         /\ Buffer(s).end <= RPU_PKTRAM_SIZE
<1>1. /\ rx_pool_base(cfg_params, s[1]) <= Buffer(s).first
      /\ Buffer(s).end <= rx_pool_base(cfg_params, s[1]) + RxSize(cfg_params, s[1])
      /\ Buffer(s).first \in Int /\ Buffer(s).end \in Int /\ s \in RxBuf
  BY BufferPlace
<1>2. s[1] \in Pool /\ \A p \in Pool : RxSize(cfg_params, p) \in Nat
                                       /\ rx_pool_base(cfg_params, p) \in Int
  BY <1>1, RxTypes
<1>3. 0 \in Pool /\ 1 \in Pool
  BY DEF Pool
<1>4. /\ rx_pool_base(cfg_params, 0) <= rx_pool_base(cfg_params, s[1])
      /\ rx_pool_base(cfg_params, s[1]) + RxSize(cfg_params, s[1]) <= RPU_PKTRAM_SIZE
  <2>1. CASE s[1] = 0
    <3>1. 0 < 1
      OBVIOUS
    <3> QED  BY <2>1, <3>1, <1>2, <1>3, Pools
  <2>2. CASE s[1] # 0
    <3>1. 0 < s[1]
      BY <2>2, <1>2 DEF Pool
    <3> QED  BY <3>1, <1>2, <1>3, Pools
  <2> QED  BY <2>1, <2>2
<1> QED  BY <1>1, <1>2, <1>3, <1>4

(* No two receive buffers overlap.                                         *)
LEMMA BuffersApart ==
  ASSUME RamTypeOK, Posted, Sized(cfg_params), NEW s \in BuffersMapped, NEW r \in BuffersMapped,
         s # r
  PROVE  Apart(Buffer(s), Buffer(r))
<1>1. /\ rx_pool_base(cfg_params, s[1]) <= Buffer(s).first
      /\ Buffer(s).end <= rx_pool_base(cfg_params, s[1]) + RxSize(cfg_params, s[1])
      /\ Buffer(s).first \in Int /\ Buffer(s).end \in Int /\ s \in RxBuf
      /\ Buffer(s).first = bounce_buf_addr(s)
      /\ Buffer(s).end = bounce_buf_addr(s) + cfg_params.buf_sz[s[1]]
  BY BufferPlace
<1>2. /\ rx_pool_base(cfg_params, r[1]) <= Buffer(r).first
      /\ Buffer(r).end <= rx_pool_base(cfg_params, r[1]) + RxSize(cfg_params, r[1])
      /\ Buffer(r).first \in Int /\ Buffer(r).end \in Int /\ r \in RxBuf
      /\ Buffer(r).first = bounce_buf_addr(r)
      /\ Buffer(r).end = bounce_buf_addr(r) + cfg_params.buf_sz[r[1]]
  BY BufferPlace
<1>3. /\ s[1] \in Pool /\ s[2] \in Nat /\ s = <<s[1], s[2]>> /\ cfg_params.buf_sz[s[1]] \in Nat
      /\ \A p \in Pool : RxSize(cfg_params, p) \in Nat /\ rx_pool_base(cfg_params, p) \in Int
  BY <1>1, RxTypes
<1>4. r[1] \in Pool /\ r[2] \in Nat /\ r = <<r[1], r[2]>>
  BY <1>2, RxTypes
<1>5. CASE s[1] < r[1]
  <2>1. rx_pool_base(cfg_params, s[1]) + RxSize(cfg_params, s[1]) <= rx_pool_base(cfg_params, r[1])
    BY <1>3, <1>4, <1>5, Pools
  <2> QED  BY <2>1, <1>1, <1>2, <1>3, <1>4 DEF Apart
<1>6. CASE r[1] < s[1]
  <2>1. rx_pool_base(cfg_params, r[1]) + RxSize(cfg_params, r[1]) <= rx_pool_base(cfg_params, s[1])
    BY <1>3, <1>4, <1>6, Pools
  <2> QED  BY <2>1, <1>1, <1>2, <1>3, <1>4 DEF Apart
<1>7. CASE s[1] = r[1]
  <2> DEFINE z == cfg_params.buf_sz[s[1]]
             b == rx_pool_base(cfg_params, s[1])
  <2>1. Buffer(s).first = b + s[2] * z /\ Buffer(r).first = b + r[2] * z
        /\ Buffer(s).end = b + s[2] * z + z /\ Buffer(r).end = b + r[2] * z + z
    BY <1>1, <1>2, <1>7 DEF bounce_buf_addr
  <2>2. b \in Int /\ z \in Nat
    BY <1>3
  <2> HIDE DEF z, b
  <2>3. s[2] * z \in Nat /\ r[2] * z \in Nat
    BY <2>2, <1>3, <1>4, Product
  <2>4. s[2] # r[2]
    BY <1>3, <1>4, <1>7
  <2>5. CASE s[2] < r[2]
    <3>1. s[2] * z + z <= r[2] * z
      BY <2>2, <2>5, <1>3, <1>4, Slices
    <3> QED  BY <3>1, <2>1, <2>2, <2>3 DEF Apart
  <2>6. CASE r[2] < s[2]
    <3>1. r[2] * z + z <= s[2] * z
      BY <2>2, <2>6, <1>3, <1>4, Slices
    <3> QED  BY <3>1, <2>1, <2>2, <2>3 DEF Apart
  <2> QED  BY <2>4, <2>5, <2>6, <1>3, <1>4
<1> QED  BY <1>3, <1>4, <1>5, <1>6, <1>7 DEF Pool

(* Slices end where receive buffers begin.                                 *)
LEMMA SlicePlace ==
  ASSUME RamTypeOK, Sized(cfg_params), NEW t \in Token
  PROVE  /\ Base(t) \in Nat /\ Size \in Nat
         /\ Base(t) + Size <= rx_pool_base(cfg_params, 0)
         /\ \A u \in Token : t < u => Base(t) + Size <= Base(u)
<1>1. Base(t) \in Nat /\ Size \in Nat
  BY RamTypes
<1>2. t \in Nat /\ t < NUM_TX_TOKENS /\ NUM_TX_TOKENS \in Nat
  BY DEF Token
<1>3. \A u \in Token : Base(u) = u * Size
  BY DEF Base, tx_token_base_addr, Size
<1>4. t * Size + Size <= NUM_TX_TOKENS * Size
  BY <1>1, <1>2, Slices
<1>5. NUM_TX_TOKENS * Size <= rx_pool_base(cfg_params, 0)
  BY DEF Sized, Size
<1>6. NUM_TX_TOKENS * Size \in Nat
  BY <1>1, <1>2, Product
<1>7. rx_pool_base(cfg_params, 0) \in Int
  <2>1. NRF70_RX_NUM_BUFS * NRF70_RX_MAX_DATA_SIZE \in Nat
    BY Product
  <2> QED  BY <2>1 DEF rx_pool_base
<1>8. ASSUME NEW u \in Token, t < u PROVE Base(t) + Size <= Base(u)
  <2>1. u \in Nat
    BY DEF Token
  <2> QED  BY <2>1, <1>1, <1>2, <1>3, <1>8, Slices
<1>9. Base(t) + Size <= rx_pool_base(cfg_params, 0)
  BY <1>1, <1>3, <1>4, <1>5, <1>6, <1>7
<1> QED  BY <1>1, <1>8, <1>9

(***************************************************************************)
(* The properties.                                                         *)
(***************************************************************************)

(* The invariant keeps places apart.                                       *)
LEMMA ApartFromInv == RamInv => PlacesApart
<1> SUFFICES ASSUME RamInv, Sized(cfg_params)
             PROVE  /\ \A d \in FramesMapped :
                         /\ Inside(Frame(d))
                         /\ \A e \in FramesMapped : d # e => Apart(Frame(d), Frame(e))
                         /\ \A s \in BuffersMapped : Apart(Frame(d), Buffer(s))
                    /\ \A s \in BuffersMapped :
                         /\ Inside(Buffer(s))
                         /\ \A r \in BuffersMapped : s # r => Apart(Buffer(s), Buffer(r))
  BY DEF PlacesApart
<1>a. RamTypeOK /\ Posted /\ \A t \in Token : Slice(t)
  BY DEF RamInv, Slots
<1>b. NUM_TX_TOKENS \in Nat /\ RPU_PKTRAM_SIZE \in Nat /\ rx_pool_base(cfg_params, 0) \in Int
      /\ rx_pool_base(cfg_params, 0) <= RPU_PKTRAM_SIZE
  <2>1. NRF70_RX_NUM_BUFS * NRF70_RX_MAX_DATA_SIZE \in Nat
    BY Product
  <2> QED  BY <2>1 DEF rx_pool_base
<1>c. ASSUME NEW d \in FramesMapped
      PROVE  \E t \in Token, f \in Place :
               /\ d = desc_id(t, f) /\ FrameOf(t, f).mapped /\ InSlice(t, f)
               /\ Frame(d).first = FrameOf(t, f).addr /\ Frame(d).end = End(t, f)
               /\ Frame(d).first \in Int /\ Frame(d).end \in Int
  <2>1. PICK t \in Token, f \in Place : d = desc_id(t, f)
    BY DescCovers DEF FramesMapped
  <2>2. FrameOf(t, f).mapped
    BY <2>1 DEF FramesMapped, FrameOf
  <2>3. InSlice(t, f)
    BY <2>2, <1>a DEF Slice
  <2>4. Frame(d).first = FrameOf(t, f).addr /\ Frame(d).end = End(t, f)
    BY <2>1 DEF Frame, FrameOf, End
  <2>5. FrameOf(t, f).addr \in Int /\ End(t, f) \in Int
    BY <1>a, EntryTypes
  <2> QED  BY <2>1, <2>2, <2>3, <2>4, <2>5
<1>1. ASSUME NEW d \in FramesMapped
      PROVE  Inside(Frame(d)) /\ Frame(d).end <= rx_pool_base(cfg_params, 0)
             /\ Frame(d).end \in Int
  <2>1. PICK t \in Token, f \in Place :
          /\ InSlice(t, f) /\ Frame(d).first = FrameOf(t, f).addr /\ Frame(d).end = End(t, f)
          /\ Frame(d).first \in Int /\ Frame(d).end \in Int
    BY <1>c
  <2>2. Base(t) \in Nat /\ Size \in Nat /\ Base(t) + Size <= rx_pool_base(cfg_params, 0)
    BY <1>a, SlicePlace
  <2>3. Base(t) <= Frame(d).first /\ Frame(d).end <= Base(t) + Size
    BY <2>1 DEF InSlice
  <2> QED  BY <2>1, <2>2, <2>3, <1>b DEF Inside
<1>2. ASSUME NEW d \in FramesMapped, NEW e \in FramesMapped, d # e
      PROVE  Apart(Frame(d), Frame(e))
  <2>1. PICK t \in Token, f \in Place :
          /\ d = desc_id(t, f) /\ FrameOf(t, f).mapped /\ InSlice(t, f)
          /\ Frame(d).first = FrameOf(t, f).addr /\ Frame(d).end = End(t, f)
          /\ Frame(d).first \in Int /\ Frame(d).end \in Int
    BY <1>c
  <2>2. PICK u \in Token, g \in Place :
          /\ e = desc_id(u, g) /\ FrameOf(u, g).mapped /\ InSlice(u, g)
          /\ Frame(e).first = FrameOf(u, g).addr /\ Frame(e).end = End(u, g)
          /\ Frame(e).first \in Int /\ Frame(e).end \in Int
    BY <1>c
  <2>3. CASE t = u
    <3>1. f # g
      BY <2>1, <2>2, <2>3, <1>2
    <3>2. f < g \/ g < f
      BY <3>1 DEF Place
    <3>3. Slice(t)
      BY <1>a
    <3>4. End(t, f) <= FrameOf(t, g).addr \/ End(t, g) <= FrameOf(t, f).addr
      BY <3>2, <3>3, <2>1, <2>2, <2>3 DEF Slice
    <3> QED  BY <3>4, <2>1, <2>2, <2>3 DEF Apart
  <2>4. Base(t) \in Nat /\ Base(u) \in Nat /\ Size \in Nat
    BY <1>a, RamTypes
  <2>5. CASE t < u
    <3>1. Base(t) + Size <= Base(u)
      BY <2>5, <1>a, SlicePlace
    <3>2. Frame(d).end <= Base(t) + Size /\ Base(u) <= Frame(e).first
      BY <2>1, <2>2 DEF InSlice
    <3> QED  BY <3>1, <3>2, <2>1, <2>2, <2>4 DEF Apart
  <2>6. CASE u < t
    <3>1. Base(u) + Size <= Base(t)
      BY <2>6, <1>a, SlicePlace
    <3>2. Frame(e).end <= Base(u) + Size /\ Base(t) <= Frame(d).first
      BY <2>1, <2>2 DEF InSlice
    <3> QED  BY <3>1, <3>2, <2>1, <2>2, <2>4 DEF Apart
  <2> QED  BY <2>3, <2>5, <2>6 DEF Token
<1>3. ASSUME NEW s \in BuffersMapped
      PROVE  /\ Inside(Buffer(s)) /\ rx_pool_base(cfg_params, 0) <= Buffer(s).first
             /\ Buffer(s).first \in Int
  <2>1. Buffer(s).first \in Int /\ Buffer(s).end \in Int
    BY <1>a, BufferPlace
  <2>2. rx_pool_base(cfg_params, 0) <= Buffer(s).first /\ Buffer(s).end <= RPU_PKTRAM_SIZE
    BY <1>a, BuffersInside
  <2>3. 0 <= rx_pool_base(cfg_params, 0)
    <3>1. 0 \in Token
      BY DEF Token
    <3>2. Base(0) \in Nat /\ Size \in Nat /\ Base(0) + Size <= rx_pool_base(cfg_params, 0)
      BY <3>1, <1>a, SlicePlace
    <3> QED  BY <3>2, <1>b
  <2> QED  BY <2>1, <2>2, <2>3, <1>b DEF Inside
<1>4. ASSUME NEW d \in FramesMapped, NEW s \in BuffersMapped PROVE Apart(Frame(d), Buffer(s))
  BY <1>1, <1>3, <1>b DEF Apart
<1>5. ASSUME NEW s \in BuffersMapped, NEW r \in BuffersMapped, s # r
      PROVE  Apart(Buffer(s), Buffer(r))
  BY <1>5, <1>a, BuffersApart
<1> QED  BY <1>1, <1>2, <1>3, <1>4, <1>5

(* The invariant keeps mappings exact.                                     *)
LEMMA MappedFromInv == RamInv => TokensMapped
<1> SUFFICES ASSUME RamInv, NEW t \in Token
             PROVE  /\ use[t] = "rpu" =>
                         /\ coalesced[t] > 0
                         /\ \A frame \in 0 .. coalesced[t] - 1 :
                              tx_buf_info[desc_id(t, frame)].mapped
                    /\ use[t] = "free" => \A frame \in 0 .. MAX_TX_AGGREGATION - 1 :
                                            ~tx_buf_info[desc_id(t, frame)].mapped
  BY DEF TokensMapped
<1>1. ASSUME use[t] = "rpu", NEW frame \in 0 .. coalesced[t] - 1
      PROVE  tx_buf_info[desc_id(t, frame)].mapped
  <2>1. coalesced[t] \in 1 .. MAX_TX_AGGREGATION /\ First(t, coalesced[t])
    BY <1>1 DEF RamInv, Mappings
  <2>2. frame \in Place /\ frame < coalesced[t]
    BY <2>1 DEF Place
  <2> QED  BY <2>1, <2>2 DEF First, FrameOf
<1>2. ASSUME use[t] = "rpu" PROVE coalesced[t] > 0
  BY <1>2 DEF RamInv, Mappings
<1>3. ASSUME use[t] = "free", NEW frame \in Place PROVE ~tx_buf_info[desc_id(t, frame)].mapped
  <2>1. First(t, 0) /\ ~(frame < 0)
    BY <1>3 DEF RamInv, Mappings, Place
  <2> QED  BY <2>1 DEF First, FrameOf
<1> QED  BY <1>1, <1>2, <1>3 DEF Place

(* The invariant holds initially.                                          *)
LEMMA RamInvInit == RamInit => RamInv
<1> SUFFICES ASSUME RamInit PROVE RamInv
  OBVIOUS
<1>1. RamTypeOK
  BY RamTypeInit
<1>2. \A t \in Token, f \in Place : ~FrameOf(t, f).mapped
  <2>1. ASSUME NEW t \in Token, NEW f \in Place PROVE FrameOf(t, f) = None
    <3>1. desc_id(t, f) \in TxDesc
      BY DescOfToken
    <3> QED  BY <3>1 DEF FrameOf, RamInit
  <2> QED  BY <2>1 DEF None
<1>3. Held
  BY DEF RamInit, Held
<1>4. Gathering
  BY DEF RamInit, Gathering, Before
<1>5. Mappings
  BY <1>2 DEF RamInit, Mappings, First, Place
<1>6. Slots
  BY <1>2 DEF RamInit, Slots, Following, Slice
<1>7. Posted
  BY DEF RamInit, Posted, None
<1> QED  BY <1>1, <1>3, <1>4, <1>5, <1>6, <1>7 DEF RamInv

(* Every step keeps the invariant.                                         *)
LEMMA RamInvStep == RamInv /\ [RamNext]_ramvars => RamInv'
BY RamTypeStep, HeldStep, GatheringStep, MappingsStep, SlotsStep, PostedStep DEF RamInv

(* The invariant holds always.                                             *)
LEMMA RamInductive == RamSpec => []RamInv
<1>1. RamInit => RamInv
  BY RamInvInit
<1>2. RamInv /\ [RamNext]_ramvars => RamInv'
  BY RamInvStep
<1> QED  BY <1>1, <1>2, PTL DEF RamSpec

(* Every variable of the layout of packet RAM keeps its type.              *)
THEOREM RamTypeCorrect == RamSpec => []RamTypeOK
<1>1. RamInv => RamTypeOK
  BY DEF RamInv
<1> QED  BY <1>1, RamInductive, PTL

(* What nrf_wifi_sys_hal_buf_map_tx and nrf_wifi_sys_hal_buf_map_rx map    *)
(* never overlaps, for any number and size of tokens, frames and buffers   *)
(* that fit into packet RAM.                                               *)
THEOREM PlacesNeverOverlap == RamSpec => []PlacesApart
<1>1. RamInv => PlacesApart
  BY ApartFromInv
<1> QED  BY <1>1, RamInductive, PTL

(* tx_done_process finds every frame of a command mapped, and              *)
(* tx_cmd_prep_callbk_fn none of a token that is free, for any number of   *)
(* tokens and of frames in a command.                                      *)
THEOREM TokensMappedExactly == RamSpec => []TokensMapped
<1>1. RamInv => TokensMapped
  BY MappedFromInv
<1> QED  BY <1>1, RamInductive, PTL

=============================================================================
