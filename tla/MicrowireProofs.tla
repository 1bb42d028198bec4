-------------------------- MODULE MicrowireProofs --------------------------
(***************************************************************************)
(* Theorems about Microwire, for every set of parts whose instructions can *)
(* reach every word, every set of calls and every limit of the polls: its  *)
(* types, the part that is left alone while busy, what a call that         *)
(* succeeds has done, what a call that was killed can cost, and the write  *)
(* enable that is taken back.                                              *)
(***************************************************************************)
EXTENDS Microwire, Arithmetic

(* The part is idle unless the driver polls it, is between two calls, gave *)
(* up waiting, or began the call with a part that was busy already.        *)
IdlePartInv ==
  /\ busy \in BOOLEAN
  /\ busy => pc \in {"idle", "done", "erase_poll", "write_poll"} \/ busy0 \/ late

(* Every instruction but a look follows a poll that saw the part ready. *)
LEMMA IdlePartStep == IdlePartInv /\ [Next]_vars => IdlePartInv'
  <1> SUFFICES ASSUME IdlePartInv, [Next]_vars PROVE IdlePartInv'
    OBVIOUS
  <1> USE DEF IdlePartInv, partVars, callVars, Goto
  <1>1. ASSUME NEW r \in Requests, Call(r) PROVE IdlePartInv'
    BY <1>1 DEF Call
  <1>2. CASE Read_EEPROM_3wire
    BY <1>2 DEF Read_EEPROM_3wire
  <1>3. CASE merge
    BY <1>3 DEF merge
  <1>4. CASE enable_write_3wire
    BY <1>4 DEF enable_write_3wire
  <1>5. CASE Erase_EEPROM_3wire
    <2>1. busy' \in BOOLEAN /\ pc' = "erase_poll"
      BY <1>5 DEF Erase_EEPROM_3wire
    <2> QED
      BY <2>1
  <1>6. CASE Write_EEPROM_3wire
    <2>1. busy' \in BOOLEAN /\ pc' = "write_poll"
      BY <1>6 DEF Write_EEPROM_3wire
    <2> QED
      BY <2>1
  <1>7. CASE poll
    BY <1>7 DEF poll
  (* A wait that gives up is remembered.                                   *)
  <1>8. CASE chip_busy
    BY <1>8 DEF chip_busy
  (* And one that does not has seen the part ready.                        *)
  <1>9. CASE next_word
    <2>1. ~busy /\ busy' = busy
      BY <1>9 DEF next_word, part_ready
    <2> QED
      BY <2>1
  <1>10. CASE disable_write_3wire
    BY <1>10 DEF disable_write_3wire
  <1>11. CASE Return \/ Crash
    BY <1>11 DEF Return, Crash, EndCall
  <1>12. CASE PartDone
    BY <1>12 DEF PartDone
  <1>13. CASE UNCHANGED vars
    BY <1>13 DEF vars
  <1> QED
    BY <1>1, <1>2, <1>3, <1>4, <1>5, <1>6, <1>7, <1>8, <1>9, <1>10, <1>11, <1>12, <1>13
       DEF Next, Program

(* No instruction is sent to a part that is busy with one of this call,    *)
(* unless a wait gave up, after 10000 looks or whatever the limit is.      *)
THEOREM BusyPartSafe == Spec => []BusyPartLeftAlone
  <1>1. Init => IdlePartInv
    BY DEF Init, IdlePartInv
  <1>2. IdlePartInv => BusyPartLeftAlone
    BY DEF IdlePartInv, BusyPartLeftAlone
  <1> QED
    BY <1>1, <1>2, IdlePartStep, PTL DEF Spec

-----------------------------------------------------------------------------
(* The words of a part, one after another.                                 *)
LEMMA WordBytes ==
  ASSUME bench \in Benches, NEW w \in Nat
  PROVE  /\ Words \in Nat \ {0} /\ w * (bench.org + 1) \in Nat
         /\ w < Words => BytesOf(w) \subseteq Byte
         /\ \A b \in Byte : b < (w + 1) * (bench.org + 1)
                              <=> b < w * (bench.org + 1) \/ b \in BytesOf(w)
         /\ \A b \in Byte : b < Words * (bench.org + 1)
         /\ ~(w + 1 < Words) => \A b \in Byte : b < (w + 1) * (bench.org + 1)
  <1>1. bench.size \in Nat \ {0} /\ bench.size % 2 = 0 /\ bench.org \in {0, 1}
    BY MicrowireAssumption
  <1> USE DEF Words, convert_size, Byte, BytesOf
  <1>2. CASE bench.org = 0
    BY <1>1, <1>2
  <1>3. CASE bench.org = 1
    <2>1. PICK n \in Nat \ {0} : bench.size = 2 * n /\ Words = n
      BY <1>1, <1>3
    <2> QED
      BY <1>3, <2>1
  <1> QED
    BY <1>1, <1>2, <1>3

LEMMA NoneBelow ==
  ASSUME bench \in Benches
  PROVE  Below(0) = {}
  <1>1. bench.size \in Nat /\ bench.org \in {0, 1}
    BY MicrowireAssumption
  <1>2. 0 * (bench.org + 1) = 0
    BY <1>1
  <1> QED
    BY <1>1, <1>2 DEF Below, Byte

(* An idle part does what the driver means.                                *)
LEMMA Understands ==
  ASSUME PartsFit, bench \in Benches
  PROVE  LET n == addr_nbits(bench) IN
           /\ (IsEwen(EwenBits(n)) <=> ~busy)
           /\ (IsEral(EralBits(n)) <=> ~busy)
           /\ (IsEwds(EwdsBits(n)) <=> ~busy)
  <1>1. addr_nbits(bench) = bench.bits /\ bench.bits \in AddressLengths
    BY DEF PartsFit
  <1> QED
    BY <1>1, InstructionsMeant DEF IsEwen, IsEral, IsEwds, Understood

LEMMA UnderstandsWord ==
  ASSUME PartsFit, bench \in Benches, NEW w \in 0 .. Words - 1
  PROVE  LET n == addr_nbits(bench) IN
           /\ (IsRead(ReadBits(n, w)) <=> ~busy) /\ WordOf(ReadBits(n, w)) = w
           /\ (IsWrite(WriteBits(n, w)) <=> ~busy) /\ WordOf(WriteBits(n, w)) = w
  <1>1. /\ addr_nbits(bench) = bench.bits /\ bench.bits \in AddressLengths
        /\ w \in 0 .. 2 ^ bench.bits - 1
    BY DEF PartsFit, Words
  <1>2. w % Words = w
    <2>1. Words \in Nat \ {0}
      BY WordBytes
    <2>2. 0 * Words + w = w
      BY <2>1
    <2> QED
      BY <2>1, <2>2, QuotientUnique
  <1>3. LET n == bench.bits IN
          /\ Len(ReadBits(n, w)) = n + 2 /\ Opcode(ReadBits(n, w)) = <<1, 0>>
          /\ Len(WriteBits(n, w)) = n + 2 /\ Opcode(WriteBits(n, w)) = <<0, 1>>
          /\ Operand(ReadBits(n, w)) = w /\ Operand(WriteBits(n, w)) = w
    BY <1>1, InstructionsMeant
  <1> QED
    BY <1>1, <1>2, <1>3 DEF IsRead, IsWrite, Understood, WordOf

(* What a step that leaves the request alone does not change.              *)
LEMMA SameCall ==
  ASSUME UNCHANGED <<bench, req, before>>
  PROVE  /\ Byte' = Byte /\ Words' = Words /\ Values' = Values
         /\ Range' = Range /\ Partial' = Partial
         /\ \A b : Wanted(b)' = Wanted(b)
         /\ \A w : Below(w)' = Below(w)
BY DEF Byte, Words, Values, Range, Partial, Wanted, Below

(* What a call wants of a byte is a value.                                 *)
LEMMA WantedValues ==
  ASSUME TypeOK, CallInv, pc # "idle", NEW b \in Byte
  PROVE  Wanted(b) \in Values
  <1>1. req \in Requests /\ req.op \in {"read", "erase", "write"}
    BY MicrowireAssumption DEF CallInv
  <1> QED
    BY <1>1 DEF TypeOK, Wanted, Values, Img, FF

(* A range that is not part of the device is all of it.                    *)
LEMMA WholePart ==
  ASSUME bench \in Benches, req \in Requests, ~Partial, NEW b \in Byte
  PROVE  b \in Range
  <1>1. bench.size \in Nat /\ req.from \in Nat /\ req.len \in Nat
    BY MicrowireAssumption
  <1> QED
    BY <1>1 DEF Partial, Range, Byte

-----------------------------------------------------------------------------
(* Each step keeps the invariants.                                         *)
Good  == TypeOK /\ CallsInv

(* Before a call, and after the last one. *)
LEMMA EndGood ==
  ASSUME Good, EndCall
  PROVE  Good'
  <1> USE DEF Good, CallsInv, EndCall, Goto, partVars
  <1>1. Byte' = Byte /\ Words' = Words /\ Values' = Values
    BY DEF Byte, Words, Values
  <1>2. Words \in Nat \ {0}
    <2>1. bench \in Benches /\ 0 \in Nat
      BY DEF TypeOK
    <2> QED
      BY <2>1, WordBytes
  <1>3. [b \in Byte |-> FF] \in [Byte -> Values]
    BY DEF Values
  <1>4. TypeOK'
    <2>1. UNCHANGED <<bench, cell, busy, wen>> /\ before' = cell /\ ebuf' = [b \in Byte |-> FF]
      OBVIOUS
    <2>2. l' = 0 /\ i' = 0 /\ ret' = "ok" /\ pc' = "idle" /\ busy0' = FALSE /\ late' = FALSE
      OBVIOUS
    <2>3. l' \in 0 .. Words' - 1 /\ i' \in 0 .. PollLimit
      BY <1>1, <1>2, <2>2, MicrowireAssumption
    <2> HIDE DEF EndCall
    <2> QED
      BY <1>1, <1>3, <2>1, <2>2, <2>3 DEF TypeOK
  <1> QED
    BY <1>4 DEF CallInv, CopyInv, ProgressInv, MwOkIsDone, WriteDisabledAtExit, Changing, Erasing

LEMMA InitGood == Init => Good
  <1> SUFFICES ASSUME Init PROVE Good
    OBVIOUS
  <1> USE DEF Init
  <1>1. Words \in Nat \ {0}
    <2>1. bench \in Benches /\ 0 \in Nat
      OBVIOUS
    <2> QED
      BY <2>1, WordBytes
  <1>2. TypeOK
    <2>1. l \in 0 .. Words - 1 /\ i \in 0 .. PollLimit
      BY <1>1, MicrowireAssumption
    <2>2. cell \in [Byte -> Values] /\ ebuf \in [Byte -> Values]
      BY DEF Values, Old
    <2> QED
      BY <2>1, <2>2 DEF TypeOK
  <1> QED
    BY <1>2 DEF Good, CallsInv, CallInv, CopyInv, ProgressInv, MwOkIsDone, WriteDisabledAtExit,
                Changing, Erasing

(* A call begins: nothing of the part has changed, nothing is copied.      *)
LEMMA CallGood ==
  ASSUME Good, NEW r \in Requests, Call(r)
  PROVE  Good'
  <1> USE DEF Good, CallsInv
  <1>1. /\ pc = "idle" /\ pc' \in {"done", "read", "merge"} /\ req' = r /\ r \in Requests
        /\ pc' = "done" => ret' = "fail"
        /\ pc' # "done" => ret' = ret
        /\ pc' = "merge" => ~NeedsCopy(r)
        /\ before' = cell /\ busy0' = busy
        /\ UNCHANGED <<bench, cell, busy, wen, l, i, ebuf, late>>
    BY DEF Call, Goto, partVars
  <1>2. Byte' = Byte /\ Words' = Words /\ Values' = Values
    BY <1>1 DEF Byte, Words, Values
  <1>3. TypeOK'
    BY <1>1, <1>2 DEF TypeOK
  <1>4. CallInv'
    BY <1>1 DEF CallInv, Changing, Erasing
  <1>5. CopyInv'
    <2>1. Below(l)' = {}
      BY <1>1, <1>2, NoneBelow DEF Below, TypeOK, CallInv
    <2> QED
      BY <1>1, <1>2, <2>1 DEF CopyInv, Changing, Erasing, NeedsCopy
  <1>6. ProgressInv'
    BY <1>1, <1>2 DEF ProgressInv, Erasing
  <1> QED
    BY <1>1, <1>3, <1>4, <1>5, <1>6 DEF MwOkIsDone, WriteDisabledAtExit

(* A word is read into its place of the copy. *)
LEMMA ReadGood ==
  ASSUME PartsFit, Good, Read_EEPROM_3wire
  PROVE  Good'
  <1> DEFINE Copied(b) == IF b \notin BytesOf(l) THEN ebuf[b] ELSE IF busy THEN Bad ELSE cell[b]
  <1>1. /\ pc = "read" /\ UNCHANGED <<bench, cell, busy, wen, req, i, ret, before, busy0, late>>
        /\ \/ l + 1 < Words /\ l' = l + 1 /\ pc' = "read"
           \/ ~(l + 1 < Words) /\ l' = 0 /\ pc' = "merge"
    BY DEF Read_EEPROM_3wire, Goto, partVars
  <1>2. TypeOK /\ bench \in Benches /\ l \in 0 .. Words - 1 /\ l \in Nat /\ ~late /\ busy \in BOOLEAN
        /\ Words \in Nat \ {0}
    <2>1. bench \in Benches
      BY DEF Good, TypeOK
    <2> QED
      BY <1>1, <2>1, WordBytes DEF Good, TypeOK, CallsInv, CallInv
  <1>3. ebuf' = [b \in Byte |-> Copied(b)]
    <2> DEFINE bits == ReadBits(addr_nbits(bench), l)
    <2>1. WordOf(bits) = l /\ (IsRead(bits) <=> ~busy)
      BY <1>2, UnderstandsWord
    <2>2. (l - l) * (bench.org + 1) = 0 /\ \A b \in Byte : b - 0 = b
      BY <1>2, MicrowireAssumption DEF Byte
    <2>3. ebuf' = [b \in Byte |-> IF b \notin BytesOf(l) THEN ebuf[b]
                                  ELSE IF IsRead(bits) THEN cell[b - (l - WordOf(bits)) * (bench.org + 1)]
                                  ELSE Bad]
      BY DEF Read_EEPROM_3wire
    <2> QED
      BY <2>1, <2>2, <2>3
  <1>4. /\ BytesOf(l) \subseteq Byte
        /\ \A b \in Byte : b < (l + 1) * (bench.org + 1)
                             <=> b < l * (bench.org + 1) \/ b \in BytesOf(l)
        /\ ~(l + 1 < Words) => \A b \in Byte : b < (l + 1) * (bench.org + 1)
    BY <1>2, WordBytes
  <1>5. /\ Byte' = Byte /\ Words' = Words /\ Values' = Values
        /\ \A b : Wanted(b)' = Wanted(b)
        /\ \A w : Below(w)' = Below(w)
    BY <1>1, SameCall
  <1>6. TypeOK'
    <2>1. ebuf' \in [Byte -> Values]
      BY <1>2, <1>3 DEF TypeOK, Values
    <2>2. l' \in 0 .. Words' - 1
      BY <1>1, <1>2, <1>5
    <2> QED
      BY <1>1, <1>2, <1>5, <2>1, <2>2 DEF TypeOK
  <1>7. CallInv'
    BY <1>1 DEF Good, CallsInv, CallInv, Changing, Erasing
  <1>8. CopyInv'
    <2> SUFFICES ASSUME ~busy0 PROVE /\ pc' = "read" => \A b \in Below(l + 1) : ebuf'[b] = before[b]
                                     /\ pc' = "merge" => ebuf' = before
      BY <1>1, <1>5 DEF Good, CallsInv, CopyInv, Changing, Erasing
    <2>1. busy = FALSE /\ cell = before /\ \A b \in Below(l) : ebuf[b] = before[b]
      BY <1>1, <1>2 DEF Good, CallsInv, CallInv, CopyInv
    <2>2. \A b \in Byte : b < (l + 1) * (bench.org + 1) => ebuf'[b] = before[b]
      BY <1>3, <1>4, <2>1 DEF Below
    <2>3. CASE pc' = "read"
      BY <2>2, <2>3 DEF Below
    <2>4. CASE pc' = "merge"
      <3>1. \A b \in Byte : ebuf'[b] = before[b]
        BY <1>1, <1>4, <2>2, <2>4
      <3> QED
        BY <1>2, <1>3, <2>4, <3>1 DEF TypeOK
    <2> QED
      BY <1>1, <2>3, <2>4
  <1>9. ProgressInv'
    BY <1>1, <1>5 DEF Good, CallsInv, ProgressInv, Erasing
  <1> QED
    BY <1>1, <1>6, <1>7, <1>8, <1>9 DEF Good, CallsInv, MwOkIsDone, WriteDisabledAtExit

(* The request goes into the copy, or the copy to the caller. *)
LEMMA MergeGood ==
  ASSUME Good, merge
  PROVE  Good'
  <1>1. /\ pc = "merge" /\ UNCHANGED <<bench, cell, busy, wen, req, l, i, ret, before, busy0, late>>
        /\ \/ req.op = "read" /\ pc' = "done" /\ ebuf' = ebuf
           \/ req.op # "read" /\ pc' = "erase_ewen" /\ ebuf' = Merge(ebuf)
    BY DEF merge, Goto, partVars
  <1>2. TypeOK /\ bench \in Benches /\ req \in Requests /\ req.op \in {"read", "erase", "write"}
    BY <1>1, MicrowireAssumption DEF Good, TypeOK, CallsInv, CallInv
  <1>3. /\ Byte' = Byte /\ Words' = Words /\ Values' = Values
        /\ \A b : Wanted(b)' = Wanted(b)
    BY <1>1, SameCall
  <1>4. TypeOK'
    BY <1>1, <1>2, <1>3 DEF TypeOK, Merge, Values, Img
  <1>5. CallInv'
    BY <1>1 DEF Good, CallsInv, CallInv, Changing, Erasing
  <1>6. ASSUME ~busy0, req.op # "read", NEW b \in Byte PROVE ebuf'[b] = Wanted(b)
    <2>1. ebuf'[b] = IF b \notin Range THEN ebuf[b] ELSE IF req.op = "write" THEN Img(b) ELSE FF
      BY <1>1, <1>6 DEF Merge
    <2>2. CASE b \in Range
      BY <1>2, <1>6, <2>1, <2>2 DEF Wanted
    <2>3. CASE b \notin Range
      <3>1. Partial
        BY <1>2, <2>3, WholePart
      <3>2. ebuf = before
        BY <1>1, <1>6, <3>1 DEF Good, CallsInv, CopyInv, NeedsCopy, Partial
      <3> QED
        BY <2>1, <2>3, <3>2 DEF Wanted
    <2> QED
      BY <2>2, <2>3
  <1>7. CopyInv'
    BY <1>1, <1>3, <1>6 DEF Good, CallsInv, CopyInv, Changing, Erasing
  <1>8. ProgressInv'
    BY <1>1, <1>3 DEF Good, CallsInv, ProgressInv, Erasing
  <1>9. MwOkIsDone'
    BY <1>1, <1>3 DEF Good, CallsInv, CopyInv, NeedsCopy, MwOkIsDone, Wanted
  <1> QED
    BY <1>1, <1>4, <1>5, <1>7, <1>8, <1>9 DEF Good, CallsInv, WriteDisabledAtExit

(* An idle part is write enabled. *)
LEMMA EnableGood ==
  ASSUME PartsFit, Good, enable_write_3wire
  PROVE  Good'
  <1>1. /\ \/ pc = "erase_ewen" /\ pc' = "eral"
           \/ pc = "write_ewen" /\ pc' = "write"
        /\ UNCHANGED <<bench, cell, busy, req, l, i, ebuf, ret, before, busy0, late>>
    BY DEF enable_write_3wire, Goto
  <1>2. TypeOK /\ bench \in Benches /\ l = 0 /\ Below(0) = {}
    <2>1. bench \in Benches
      BY DEF Good, TypeOK
    <2> QED
      BY <1>1, <2>1, NoneBelow DEF Good, CallsInv, CallInv, Erasing
  <1>3. wen' \in BOOLEAN /\ (~busy => wen')
    BY <1>2, Understands DEF enable_write_3wire
  <1>4. /\ Byte' = Byte /\ Words' = Words /\ Values' = Values
        /\ \A b : Wanted(b)' = Wanted(b)
        /\ \A w : Below(w)' = Below(w)
    BY <1>1, SameCall
  <1>5. TypeOK'
    BY <1>1, <1>2, <1>3, <1>4 DEF TypeOK
  <1>6. CallInv'
    BY <1>1 DEF Good, CallsInv, CallInv, Changing, Erasing
  <1>7. CopyInv'
    BY <1>1, <1>4 DEF Good, CallsInv, CopyInv, Changing, Erasing
  <1>8. ProgressInv'
    BY <1>1, <1>2, <1>3, <1>4 DEF Good, CallsInv, CallInv, ProgressInv, Erasing
  <1> QED
    BY <1>1, <1>5, <1>6, <1>7, <1>8 DEF Good, CallsInv, MwOkIsDone, WriteDisabledAtExit

(* The whole part is erased. *)
LEMMA EraseGood ==
  ASSUME PartsFit, Good, Erase_EEPROM_3wire
  PROVE  Good'
  <1>1. /\ pc = "eral" /\ pc' = "erase_poll" /\ i' = 0
        /\ UNCHANGED <<bench, wen, req, l, ebuf, ret, before, busy0, late>>
    BY DEF Erase_EEPROM_3wire, Goto
  <1>2. TypeOK /\ bench \in Benches
    BY DEF Good, TypeOK
  <1>3. /\ (cell' = [b \in Byte |-> FF] /\ busy' = TRUE) \/ UNCHANGED <<cell, busy>>
        /\ ~busy /\ wen => cell' = [b \in Byte |-> FF] /\ busy' = TRUE
    BY <1>2, Understands DEF Erase_EEPROM_3wire
  <1>4. ~busy0 => cell' = [b \in Byte |-> FF]
    BY <1>1, <1>3 DEF Good, CallsInv, CallInv, ProgressInv
  <1>5. /\ Byte' = Byte /\ Words' = Words /\ Values' = Values
        /\ \A b : Wanted(b)' = Wanted(b)
    BY <1>1, SameCall
  <1>6. TypeOK'
    <2>1. cell' \in [Byte -> Values] /\ busy' \in BOOLEAN
      BY <1>2, <1>3 DEF TypeOK, Values
    <2>2. i' \in 0 .. PollLimit
      BY <1>1, MicrowireAssumption
    <2> QED
      BY <1>1, <1>2, <1>5, <2>1, <2>2 DEF TypeOK
  <1>7. CallInv'
    BY <1>1 DEF Good, CallsInv, CallInv, Changing, Erasing
  <1>8. CopyInv'
    BY <1>1, <1>5 DEF Good, CallsInv, CopyInv, Changing, Erasing
  <1>9. ProgressInv'
    BY <1>1, <1>4, <1>5 DEF ProgressInv, Erasing
  <1> QED
    BY <1>1, <1>6, <1>7, <1>8, <1>9 DEF Good, CallsInv, MwOkIsDone, WriteDisabledAtExit

(* A word of the copy goes to its place. *)
LEMMA WriteGood ==
  ASSUME PartsFit, Good, Write_EEPROM_3wire
  PROVE  Good'
  <1> DEFINE Written == [b \in Byte |-> IF b \in BytesOf(l) THEN ebuf[b] ELSE cell[b]]
  <1>1. /\ pc = "write" /\ pc' = "write_poll" /\ i' = 0
        /\ UNCHANGED <<bench, wen, req, l, ebuf, ret, before, busy0, late>>
    BY DEF Write_EEPROM_3wire, Goto
  <1>2. TypeOK /\ bench \in Benches /\ l \in 0 .. Words - 1 /\ l \in Nat /\ {busy, wen} \subseteq BOOLEAN
    <2>1. bench \in Benches
      BY DEF Good, TypeOK
    <2> QED
      BY <2>1, WordBytes DEF Good, TypeOK
  <1>3. /\ (cell' = Written /\ busy' = TRUE) \/ UNCHANGED <<cell, busy>>
        /\ ~busy /\ wen => cell' = Written /\ busy' = TRUE
    <2> DEFINE bits == WriteBits(addr_nbits(bench), l)
    <2>1. WordOf(bits) = l /\ (IsWrite(bits) <=> ~busy)
      BY <1>2, UnderstandsWord
    <2>2. (l - l) * (bench.org + 1) = 0 /\ \A b \in Byte : b + 0 = b
      BY <1>2, MicrowireAssumption DEF Byte
    <2>3. IF IsWrite(bits) /\ wen
          THEN /\ cell' = [b \in Byte |-> IF b \in BytesOf(WordOf(bits))
                                          THEN ebuf[b + (l - WordOf(bits)) * (bench.org + 1)] ELSE cell[b]]
               /\ busy' = TRUE
          ELSE UNCHANGED <<cell, busy>>
      BY DEF Write_EEPROM_3wire
    <2> HIDE DEF bits
    <2>4. [b \in Byte |-> IF b \in BytesOf(WordOf(bits))
                          THEN ebuf[b + (l - WordOf(bits)) * (bench.org + 1)] ELSE cell[b]] = Written
      BY <2>1, <2>2
    <2> HIDE DEF Written
    <2> QED
      BY <2>1, <2>3, <2>4
  <1>4. \A b \in Byte : b < (l + 1) * (bench.org + 1)
                          <=> b < l * (bench.org + 1) \/ b \in BytesOf(l)
    BY <1>2, WordBytes
  <1>5. /\ Byte' = Byte /\ Words' = Words /\ Values' = Values
        /\ \A b : Wanted(b)' = Wanted(b)
        /\ \A w : Below(w)' = Below(w)
    BY <1>1, SameCall
  <1>6. TypeOK'
    <2>1. cell' \in [Byte -> Values] /\ busy' \in BOOLEAN
      BY <1>2, <1>3 DEF TypeOK
    <2>2. i' \in 0 .. PollLimit
      BY <1>1, MicrowireAssumption
    <2> QED
      BY <1>1, <1>2, <1>5, <2>1, <2>2 DEF TypeOK
  <1>7. CallInv'
    BY <1>1 DEF Good, CallsInv, CallInv, Changing, Erasing
  <1>8. CopyInv'
    BY <1>1, <1>5 DEF Good, CallsInv, CopyInv, Changing, Erasing
  <1>9. ProgressInv'
    <2> SUFFICES ASSUME ~busy0
                 PROVE  /\ \A b \in Byte : cell'[b] \in {before[b], FF, Wanted(b)}
                        /\ ~late => wen /\ \A b \in Below(l + 1) : cell'[b] = Wanted(b)
      BY <1>1, <1>5 DEF ProgressInv, Erasing
    <2>1. /\ \A b \in Byte : ebuf[b] = Wanted(b) /\ cell[b] \in {before[b], FF, Wanted(b)}
          /\ ~late => wen /\ ~busy /\ \A b \in Below(l) : cell[b] = Wanted(b)
      BY <1>1 DEF Good, CallsInv, CallInv, CopyInv, ProgressInv, Changing
    <2>2. \A b \in Byte : cell'[b] \in {before[b], FF, Wanted(b)}
      BY <1>3, <2>1
    <2>3. ASSUME ~late, NEW b \in Below(l + 1) PROVE cell'[b] = Wanted(b)
      <3>1. b \in Byte /\ (b \in BytesOf(l) \/ b \in Below(l))
        BY <1>4, <2>3 DEF Below
      <3> QED
        BY <1>3, <2>1, <2>3, <3>1
    <2> QED
      BY <2>1, <2>2, <2>3
  <1> QED
    BY <1>1, <1>6, <1>7, <1>8, <1>9 DEF Good, CallsInv, MwOkIsDone, WriteDisabledAtExit

(* A look at the ready line, and what follows the last one. *)
LEMMA PollGood ==
  ASSUME Good, poll
  PROVE  Good'
  <1>1. /\ pc \in {"erase_poll", "write_poll"} /\ i < PollLimit /\ i' = i + 1
        /\ UNCHANGED <<bench, cell, busy, wen, pc, req, l, ebuf, ret, before, busy0, late>>
    BY DEF poll, partVars
  <1>2. /\ Byte' = Byte /\ Words' = Words /\ Values' = Values
        /\ \A b : Wanted(b)' = Wanted(b)
        /\ \A w : Below(w)' = Below(w)
    BY <1>1, SameCall
  <1>3. TypeOK'
    BY <1>1, <1>2, MicrowireAssumption DEF Good, TypeOK
  <1> QED
    BY <1>1, <1>2, <1>3 DEF Good, CallsInv, CallInv, CopyInv, ProgressInv, MwOkIsDone,
       WriteDisabledAtExit, Changing, Erasing

LEMMA GiveUpGood ==
  ASSUME Good, chip_busy
  PROVE  Good'
  <1>1. /\ \/ pc = "write_poll" /\ pc' = "done" /\ ret' = "fail"
           \/ pc = "erase_poll" /\ pc' \in {"write_ewen", "done"} /\ ret' = ret
        /\ late' = TRUE
        /\ UNCHANGED <<bench, cell, busy, wen, req, l, i, ebuf, before, busy0>>
    BY DEF chip_busy, Goto, partVars
  <1>2. /\ Byte' = Byte /\ Words' = Words /\ Values' = Values
        /\ \A b : Wanted(b)' = Wanted(b)
    BY <1>1, SameCall
  <1>3. TypeOK'
    BY <1>1, <1>2 DEF Good, TypeOK
  <1> QED
    BY <1>1, <1>2, <1>3 DEF Good, CallsInv, CallInv, CopyInv, ProgressInv, MwOkIsDone,
       WriteDisabledAtExit, Changing, Erasing

LEMMA ReadyGood ==
  ASSUME Good, next_word
  PROVE  Good'
  <1>1. /\ ~busy
        /\ \/ pc = "erase_poll" /\ pc' = "erase_ewds" /\ l' = l
           \/ pc = "write_poll" /\ l + 1 < Words /\ pc' = "write" /\ l' = l + 1
           \/ pc = "write_poll" /\ l + 1 = Words /\ pc' = "write_ewds" /\ l' = l
        /\ UNCHANGED <<bench, cell, busy, wen, req, i, ebuf, ret, before, busy0, late>>
    BY DEF next_word, part_ready, Goto, partVars
  <1>2. TypeOK /\ l \in 0 .. Words - 1 /\ Words \in Nat \ {0}
    <2>1. bench \in Benches /\ 0 \in Nat
      BY DEF Good, TypeOK
    <2> QED
      BY <2>1, WordBytes DEF Good, TypeOK
  <1>3. /\ Byte' = Byte /\ Words' = Words /\ Values' = Values
        /\ \A b : Wanted(b)' = Wanted(b)
        /\ \A w : Below(w)' = Below(w)
    BY <1>1, SameCall
  <1>4. TypeOK'
    <2>1. l' \in 0 .. Words' - 1
      BY <1>1, <1>2, <1>3
    <2> QED
      BY <1>1, <1>2, <1>3, <2>1 DEF TypeOK
  <1>5. CallInv'
    BY <1>1 DEF Good, CallsInv, CallInv, Changing, Erasing
  <1>6. CopyInv'
    BY <1>1, <1>3 DEF Good, CallsInv, CopyInv, Changing, Erasing
  <1>7. ProgressInv'
    <2>1. l + 1 = Words => Below(l + 1) = Byte
      BY <1>2, WordBytes DEF TypeOK, Below
    <2> QED
      BY <1>1, <1>3, <2>1 DEF Good, CallsInv, ProgressInv, Erasing
  <1> QED
    BY <1>1, <1>4, <1>5, <1>6, <1>7 DEF Good, CallsInv, MwOkIsDone, WriteDisabledAtExit

(* The call is over, or the erase is. *)
LEMMA DisableGood ==
  ASSUME PartsFit, Good, disable_write_3wire
  PROVE  Good'
  <1>1. /\ \/ pc = "erase_ewds" /\ (Partial \/ req.op = "write") /\ pc' = "write_ewen"
           \/ pc = "erase_ewds" /\ ~(Partial \/ req.op = "write") /\ pc' = "done"
           \/ pc = "write_ewds" /\ pc' = "done"
        /\ UNCHANGED <<bench, cell, busy, req, l, i, ebuf, ret, before, busy0, late>>
    BY DEF disable_write_3wire, Goto
  <1>2. TypeOK /\ bench \in Benches /\ req \in Requests /\ req.op \in {"erase", "write"}
    BY <1>1, MicrowireAssumption DEF Good, TypeOK, CallsInv, CallInv, Changing, Erasing
  <1>3. wen' \in BOOLEAN /\ (~busy => ~wen')
    BY <1>2, Understands DEF disable_write_3wire, TypeOK
  <1>4. /\ Byte' = Byte /\ Words' = Words /\ Values' = Values
        /\ \A b : Wanted(b)' = Wanted(b)
    BY <1>1, SameCall
  <1>5. TypeOK'
    BY <1>1, <1>2, <1>3, <1>4 DEF TypeOK
  <1>6. CallInv'
    BY <1>1 DEF Good, CallsInv, CallInv, Changing, Erasing
  <1>7. CopyInv'
    BY <1>1, <1>4 DEF Good, CallsInv, CopyInv, Changing, Erasing
  <1>8. ProgressInv'
    BY <1>1, <1>4 DEF Good, CallsInv, ProgressInv, Erasing
  <1>9. MwOkIsDone'
    <2> SUFFICES ASSUME pc' = "done", ~busy0, ~late, NEW b \in Byte PROVE cell[b] = Wanted(b)
      BY <1>1, <1>2, <1>4 DEF MwOkIsDone
    <2>1. CASE pc = "write_ewds"
      BY <2>1 DEF Good, CallsInv, ProgressInv
    <2>2. CASE pc = "erase_ewds"
      <3>1. req.op = "erase" /\ b \in Range
        BY <1>1, <1>2, <2>2, WholePart
      <3>2. cell[b] = FF
        BY <2>2 DEF Good, CallsInv, ProgressInv, Erasing
      <3> QED
        BY <3>1, <3>2 DEF Wanted
    <2> QED
      BY <1>1, <2>1, <2>2
  <1>10. WriteDisabledAtExit'
    BY <1>1, <1>3 DEF Good, CallsInv, CallInv, WriteDisabledAtExit
  <1> QED
    BY <1>5, <1>6, <1>7, <1>8, <1>9, <1>10 DEF Good, CallsInv

(* The part ends a cycle, and stutters. *)
LEMMA IdleGood ==
  ASSUME Good, PartDone \/ UNCHANGED vars
  PROVE  Good'
  <1>1. /\ UNCHANGED <<bench, cell, wen, pc, req, l, i, ebuf, ret, before, busy0, late>>
        /\ busy' = busy \/ busy' = FALSE
    BY DEF PartDone, vars, partVars, callVars
  <1>2. /\ Byte' = Byte /\ Words' = Words /\ Values' = Values
        /\ \A b : Wanted(b)' = Wanted(b)
        /\ \A w : Below(w)' = Below(w)
    BY <1>1, SameCall
  <1>3. TypeOK'
    BY <1>1, <1>2 DEF Good, TypeOK
  <1>4. CallInv'
    BY <1>1 DEF Good, CallsInv, CallInv, Changing, Erasing
  <1>5. CopyInv'
    BY <1>1, <1>2 DEF Good, CallsInv, CopyInv, Changing, Erasing, NeedsCopy
  <1>6. ProgressInv'
    BY <1>1, <1>2 DEF Good, CallsInv, ProgressInv, Erasing
  <1> QED
    BY <1>1, <1>2, <1>3, <1>4, <1>5, <1>6 DEF Good, CallsInv, MwOkIsDone, WriteDisabledAtExit

LEMMA NextGood ==
  ASSUME PartsFit
  PROVE  Good /\ [Next]_vars => Good'
  <1> SUFFICES ASSUME Good, [Next]_vars PROVE Good'
    OBVIOUS
  <1>1. ASSUME NEW r \in Requests, Call(r) PROVE Good'
    BY <1>1, CallGood
  <1>2. CASE Program
    BY <1>2, ReadGood, MergeGood, EnableGood, EraseGood, WriteGood, PollGood, GiveUpGood, ReadyGood,
       DisableGood, EndGood DEF Program, Return
  <1>3. CASE Crash
    BY <1>3, EndGood DEF Crash
  <1>4. CASE PartDone \/ UNCHANGED vars
    BY <1>4, IdleGood
  <1> QED
    BY <1>1, <1>2, <1>3, <1>4 DEF Next

(* So they hold in every run, with parts that have the driver's addresses. *)
LEMMA AlwaysGood ==
  ASSUME PartsFit
  PROVE  Spec => []Good
  <1>1. Good /\ [Next]_vars => Good'
    BY NextGood
  <1> QED
    BY <1>1, InitGood, PTL DEF Spec

(* The parts of mw_eepromlist do, with as many address bits as the driver  *)
(* chooses for them when the user has not (fix_addr_len).                  *)
LEMMA ListedPartsFit ==
  ASSUME \A b \in Benches : b.size \in mw_eepromlist /\ b.fix = 0 /\ b.bits = addr_nbits(b)
  PROVE  PartsFit
  <1> SUFFICES ASSUME NEW b \in Benches
               PROVE  /\ b.bits \in AddressLengths
                      /\ 0 .. convert_size(b) - 1 \subseteq 0 .. 2 ^ b.bits - 1
    BY DEF PartsFit
  <1> DEFINE part == [size |-> b.size, org |-> b.org, fix |-> 0]
  <1>1. b.size \in mw_eepromlist /\ b.org \in {0, 1} /\ b.fix = 0 /\ b.bits = addr_nbits(b)
    BY MicrowireAssumption
  <1>2. addr_nbits(b) = addr_nbits(part) /\ convert_size(b) = convert_size(part)
    BY <1>1 DEF addr_nbits, convert_size
  <1>3. convert_size(b) <= 2 ^ b.bits
    BY <1>1, <1>2, EveryWordAddressable
  <1>4. b.bits \in AddressLengths
    BY <1>1 DEF addr_nbits, AddressLengths
  <1>5. 2 ^ b.bits \in Int
    BY <1>4 DEF AddressLengths
  <1>6. convert_size(b) \in Int
    BY <1>1 DEF convert_size, mw_eepromlist
  <1> QED
    BY <1>3, <1>4, <1>5, <1>6

-----------------------------------------------------------------------------
(* Every variable keeps its type: the word that is read or written is one  *)
(* of the part, and so are the bytes of it.                                *)
THEOREM MicrowireTypeCorrect ==
  ASSUME PartsFit
  PROVE  Spec => []TypeOK
  <1>1. Good => TypeOK
    BY DEF Good
  <1> QED
    BY <1>1, AlwaysGood, PTL

(* A call that says it is done did what it was asked and lost nothing of   *)
(* the rest of the part, which it read, erased and wrote back.             *)
THEOREM MicrowireCorrect ==
  ASSUME PartsFit
  PROVE  Spec => []MwOkIsDone
  <1>1. Good => MwOkIsDone
    BY DEF Good, CallsInv
  <1> QED
    BY <1>1, AlwaysGood, PTL

(* Killed, or after a wait that gave up, a call leaves each byte as it was, *)
(* as it is wanted, or blank: never the byte of another place or call.     *)
THEOREM OnlyBlanksBytes ==
  ASSUME PartsFit
  PROVE  Spec => []OnlyBlanked
  <1>1. Good => OnlyBlanked
    BY DEF Good, CallsInv, ProgressInv, OnlyBlanked
  <1> QED
    BY <1>1, AlwaysGood, PTL

(* A call whose waits all saw the part ready leaves it write disabled.     *)
THEOREM LeavesWriteDisabled ==
  ASSUME PartsFit
  PROVE  Spec => []WriteDisabledAtExit
  <1>1. Good => WriteDisabledAtExit
    BY DEF Good, CallsInv
  <1> QED
    BY <1>1, AlwaysGood, PTL
=============================================================================
