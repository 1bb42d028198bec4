----------------------------- MODULE Microwire -----------------------------
(***************************************************************************)
(* src/src/mw_eeprom.c and src/src/bitbang_microwire.c: one call after     *)
(* another of mw_eeprom_read, _erase and _write to a Microwire EEPROM      *)
(* (external) whose lines are driven bit by bit.  A step is an             *)
(* instruction, from the rise of the chip select to its fall, or a look at *)
(* the ready line.  An erase clears the whole part; to keep what is        *)
(* outside its range, the driver reads everything first and writes it back.*)
(***************************************************************************)
EXTENDS Integers, Sequences

CONSTANTS Benches,     \* part and options: size, org, fix_addr_len and the part's address bits
          Requests,    \* calls: op, from and len
          PollLimit    \* the 10000 looks at the ready line

MAX_MW_EEPROM_SIZE == 4096

(* mw_eepromlist, by its sizes, and the address bits of an instruction.    *)
mw_eepromlist == {32, 64, 128, 256, 512, 1024, 2048, 4096}

MutAddrNbits(b) == IF b.fix # 0 THEN b.fix ELSE 13 - b.org

addr_nbits(b) ==
  CASE b.fix # 0                             -> b.fix
    [] b.fix = 0 /\ b.size = 128             -> 7 - b.org
    [] b.fix = 0 /\ b.size \in {256, 512}    -> 9 - b.org
    [] b.fix = 0 /\ b.size \in {1024, 2048}  -> 11 - b.org
    [] b.fix = 0 /\ b.size = 4096            -> 13 - b.org
    [] OTHER                                 -> 6

convert_size(b) == b.size \div (b.org + 1)

(* Every word of every part has an address. *)
ASSUME EveryWordAddressable ==
  \A size \in mw_eepromlist, org \in {0, 1} :
    LET b == [size |-> size, org |-> org, fix |-> 0] IN convert_size(b) <= 2 ^ addr_nbits(b)

ASSUME MicrowireAssumption ==
  /\ PollLimit \in Nat \ {0}
  /\ \A b \in Benches : /\ {b.size, b.fix, b.bits} \subseteq Nat /\ b.org \in {0, 1}
                       /\ 0 < b.size /\ b.size % 2 = 0
  /\ \A r \in Requests : r.op \in {"read", "erase", "write"} /\ {r.from, r.len} \subseteq Nat

VARIABLES
  bench,
  cell, busy, wen,   \* the part: its bytes, a cycle going on, write enabled
  pc, req,
  l, i,              \* the word, and the looks at the ready line
  ebuf,              \* the driver's copy of the part
  ret,
  before, busy0, late  \* history: the part when the call began; a wait gave up

partVars == <<cell, busy, wen>>
callVars == <<pc, req, l, i, ebuf, ret, before, busy0, late>>
vars     == <<bench, partVars, callVars>>

Byte  == 0 .. bench.size - 1
Words == convert_size(bench)

(* The bytes of a word. *)
BytesOf(w) == w * (bench.org + 1) .. w * (bench.org + 1) + bench.org

(* What a byte is: what it was at first, the one a write has for this      *)
(* place, erased, or nothing known.                                        *)
Old(b) == <<"old", b>>
Img(b) == <<"img", b>>
FF     == <<"ff", 0>>
Bad    == <<"bad", 0>>

Values == ({"old", "img"} \X Byte) \cup {FF, Bad}

NoRequest == [op |-> "none", from |-> 0, len |-> 0]

Init ==
  /\ bench \in Benches
  /\ cell = [b \in Byte |-> Old(b)] /\ busy = FALSE /\ wen = FALSE
  /\ pc = "idle" /\ req = NoRequest /\ l = 0 /\ i = 0 /\ ret = "ok"
  /\ ebuf = [b \in Byte |-> FF] /\ before = cell /\ busy0 = FALSE /\ late = FALSE

-----------------------------------------------------------------------------
(* The part.  An instruction is a start bit, an opcode and an address; a   *)
(* busy part does not listen.                                              *)
send_to_di(val, nbit) == [k \in 1 .. nbit |-> (val \div 2 ^ (nbit - k)) % 2]

Address(bits) ==
  LET n == Len(bits)
      value[k \in 0 .. n] == IF k = 0 THEN 0 ELSE 2 * value[k - 1] + bits[k]
  IN value[n]

(* Bits that are too few or too many for the part are not understood.      *)
Understood(bits) == Len(bits) = bench.bits + 2 /\ ~busy

Opcode(bits) == SubSeq(bits, 1, 2)
Special(bits) == SubSeq(bits, 3, 4)
Operand(bits) == Address(SubSeq(bits, 3, Len(bits)))
WordOf(bits) == Operand(bits) % Words

IsEwen(bits) == Understood(bits) /\ Opcode(bits) = <<0, 0>> /\ Special(bits) = <<1, 1>>
IsEral(bits) == Understood(bits) /\ Opcode(bits) = <<0, 0>> /\ Special(bits) = <<1, 0>>
IsEwds(bits) == Understood(bits) /\ Opcode(bits) = <<0, 0>> /\ Special(bits) = <<0, 0>>
IsRead(bits) == Understood(bits) /\ Opcode(bits) = <<1, 0>>
IsWrite(bits) == Understood(bits) /\ Opcode(bits) = <<0, 1>>

(* What the driver sends, with n address bits. *)
ReadBits(n, w)  == send_to_di(2, 2) \o send_to_di(w, n)
WriteBits(n, w) == send_to_di(1, 2) \o send_to_di(w, n)
EwenBits(n)     == send_to_di(3, 4) \o send_to_di(0, n - 2)
EralBits(n)     == send_to_di(2, 4) \o send_to_di(0, n - 2)
EwdsBits(n)     == send_to_di(0, 4) \o send_to_di(0, n - 2)

(* The part takes it as it is meant, for every length that addr_nbits      *)
(* knows and every word such a length can name.                            *)
AddressLengths == 6 .. 13

ASSUME InstructionsMeant ==
  \A n \in AddressLengths :
    /\ \A w \in 0 .. 2 ^ n - 1 :
         /\ Len(ReadBits(n, w)) = n + 2 /\ Opcode(ReadBits(n, w)) = <<1, 0>>
         /\ Len(WriteBits(n, w)) = n + 2 /\ Opcode(WriteBits(n, w)) = <<0, 1>>
         /\ Operand(ReadBits(n, w)) = w /\ Operand(WriteBits(n, w)) = w
    /\ \A bits \in {EwenBits(n), EralBits(n), EwdsBits(n)} :
         Len(bits) = n + 2 /\ Opcode(bits) = <<0, 0>>
    /\ Special(EwenBits(n)) = <<1, 1>>
    /\ Special(EralBits(n)) = <<1, 0>>
    /\ Special(EwdsBits(n)) = <<0, 0>>

PartDone ==
  /\ busy /\ busy' = FALSE
  /\ UNCHANGED <<bench, cell, wen, callVars>>

-----------------------------------------------------------------------------
(* The calls.                                                              *)

Goto(label) == pc' = label

Partial == req.from # 0 \/ req.len < bench.size

Range == req.from .. req.from + req.len - 1

(* memcpy and memset into the copy, in place.                              *)
MutMerge(buf) == [b \in Byte |-> IF b < req.len THEN Img(b + req.from) ELSE buf[b]]

Merge(buf) ==
  [b \in Byte |-> IF b \notin Range THEN buf[b] ELSE IF req.op = "write" THEN Img(b) ELSE FF]

NeedsCopy(r) == r.op = "read" \/ r.from # 0 \/ r.len < bench.size

(* A range beyond the copy on the stack is left out: what it does to the   *)
(* process is undefined.                                                   *)
Call(r) ==
  /\ pc = "idle" /\ r.from + r.len <= MAX_MW_EEPROM_SIZE
  /\ req' = r
  /\ \/ r.len = 0 /\ Goto("done") /\ ret' = "fail"
     \/ r.len # 0 /\ Goto(IF NeedsCopy(r) THEN "read" ELSE "merge") /\ UNCHANGED ret
  /\ before' = cell /\ busy0' = busy
  /\ UNCHANGED <<bench, partVars, l, i, ebuf, late>>

(* Read_EEPROM_3wire, a word at a time: nothing tells whether it was read. *)
Read_EEPROM_3wire ==
  /\ pc = "read"
  /\ LET bits == ReadBits(addr_nbits(bench), l) IN
       ebuf' = [b \in Byte |-> IF b \notin BytesOf(l) THEN ebuf[b]
                               ELSE IF IsRead(bits) THEN cell[b - (l - WordOf(bits)) * (bench.org + 1)]
                               ELSE Bad]
  /\ IF l + 1 < Words THEN l' = l + 1 /\ UNCHANGED pc ELSE l' = 0 /\ Goto("merge")
  /\ UNCHANGED <<bench, partVars, req, i, ret, before, busy0, late>>

(* A read copies its range out and ends; the others go on to the erase.    *)
merge ==
  /\ pc = "merge"
  /\ IF req.op = "read" THEN Goto("done") /\ UNCHANGED ebuf
                        ELSE Goto("erase_ewen") /\ ebuf' = Merge(ebuf)
  /\ UNCHANGED <<bench, partVars, req, l, i, ret, before, busy0, late>>

enable_write_3wire ==
  /\ pc \in {"erase_ewen", "write_ewen"}
  /\ wen' = (wen \/ IsEwen(EwenBits(addr_nbits(bench))))
  /\ Goto(IF pc = "erase_ewen" THEN "eral" ELSE "write")
  /\ UNCHANGED <<bench, cell, busy, req, l, i, ebuf, ret, before, busy0, late>>

Erase_EEPROM_3wire ==
  /\ pc = "eral"
  /\ IF IsEral(EralBits(addr_nbits(bench))) /\ wen
     THEN cell' = [b \in Byte |-> FF] /\ busy' = TRUE
     ELSE UNCHANGED <<cell, busy>>
  /\ Goto("erase_poll") /\ i' = 0
  /\ UNCHANGED <<bench, wen, req, l, ebuf, ret, before, busy0, late>>

Write_EEPROM_3wire ==
  /\ pc = "write"
  /\ LET bits == WriteBits(addr_nbits(bench), l) IN
       IF IsWrite(bits) /\ wen
       THEN /\ cell' = [b \in Byte |-> IF b \in BytesOf(WordOf(bits))
                                       THEN ebuf[b + (l - WordOf(bits)) * (bench.org + 1)] ELSE cell[b]]
            /\ busy' = TRUE
       ELSE UNCHANGED <<cell, busy>>
  /\ Goto("write_poll") /\ i' = 0
  /\ UNCHANGED <<bench, wen, req, l, ebuf, ret, before, busy0, late>>

(* A bug: the count of the looks starts over.                              *)
MutPoll ==
  /\ pc \in {"erase_poll", "write_poll"} /\ busy /\ i < PollLimit
  /\ i' = (i + 1) % PollLimit
  /\ UNCHANGED <<bench, partVars, pc, req, l, ebuf, ret, before, busy0, late>>

(* A bug: one look too many.                                               *)
MutPollMore ==
  /\ pc \in {"erase_poll", "write_poll"} /\ busy /\ i <= PollLimit
  /\ i' = i + 1
  /\ UNCHANGED <<bench, partVars, pc, req, l, ebuf, ret, before, busy0, late>>

poll ==
  /\ pc \in {"erase_poll", "write_poll"} /\ busy /\ i < PollLimit
  /\ i' = i + 1
  /\ UNCHANGED <<bench, partVars, pc, req, l, ebuf, ret, before, busy0, late>>

(* Only the count tells that a wait gave up, also of a part that got ready *)
(* at the last look.  An erase gives up without saying so, a write says -1;*)
(* both leave writing enabled.                                             *)
chip_busy ==
  /\ pc \in {"erase_poll", "write_poll"} /\ i = PollLimit
  /\ late' = TRUE
  /\ IF pc = "write_poll" THEN Goto("done") /\ ret' = "fail"
     ELSE Goto(IF Partial \/ req.op = "write" THEN "write_ewen" ELSE "done") /\ UNCHANGED ret
  /\ UNCHANGED <<bench, partVars, req, l, i, ebuf, before, busy0>>

(* A bug: no wait.                                                         *)
MutPartReady == pc \in {"erase_poll", "write_poll"} /\ i < PollLimit

part_ready == pc \in {"erase_poll", "write_poll"} /\ i < PollLimit /\ ~busy

MutNextWord ==
  /\ part_ready
  /\ \/ pc = "erase_poll" /\ Goto("erase_ewds") /\ UNCHANGED l
     \/ pc = "write_poll" /\ l + 1 < Words /\ Goto("write") /\ l' = l + 1
     \/ pc = "write_poll" /\ l + 1 = Words /\ Goto("done") /\ UNCHANGED l
  /\ UNCHANGED <<bench, partVars, req, i, ebuf, ret, before, busy0, late>>

next_word ==
  /\ part_ready
  /\ \/ pc = "erase_poll" /\ Goto("erase_ewds") /\ UNCHANGED l
     \/ pc = "write_poll" /\ l + 1 < Words /\ Goto("write") /\ l' = l + 1
     \/ pc = "write_poll" /\ l + 1 = Words /\ Goto("write_ewds") /\ UNCHANGED l
  /\ UNCHANGED <<bench, partVars, req, i, ebuf, ret, before, busy0, late>>

disable_write_3wire ==
  /\ pc \in {"erase_ewds", "write_ewds"}
  /\ wen' = (wen /\ ~IsEwds(EwdsBits(addr_nbits(bench))))
  /\ Goto(IF pc = "erase_ewds" /\ (Partial \/ req.op = "write") THEN "write_ewen" ELSE "done")
  /\ UNCHANGED <<bench, cell, busy, req, l, i, ebuf, ret, before, busy0, late>>

-----------------------------------------------------------------------------
EndCall ==
  /\ Goto("idle") /\ req' = NoRequest /\ l' = 0 /\ i' = 0 /\ ret' = "ok"
  /\ ebuf' = [b \in Byte |-> FF] /\ before' = cell /\ busy0' = FALSE /\ late' = FALSE
  /\ UNCHANGED <<bench, partVars>>

Return == pc = "done" /\ EndCall

(* The process is killed. *)
Crash == pc \notin {"idle", "done"} /\ EndCall

Program ==
  \/ Read_EEPROM_3wire \/ merge \/ enable_write_3wire \/ Erase_EEPROM_3wire
  \/ Write_EEPROM_3wire \/ poll \/ chip_busy \/ next_word \/ disable_write_3wire \/ Return

Next == (\E r \in Requests : Call(r)) \/ Program \/ Crash \/ PartDone

(* WF_vars(Program), with its ENABLED written out: a call always has a     *)
(* next step, and no step of the program stutters.                         *)
Scheduled == []<>(pc = "idle") \/ []<><<Program>>_vars

Spec == Init /\ [][Next]_vars /\ Scheduled

-----------------------------------------------------------------------------
(* Properties.                                                             *)

(* Every variable keeps its type; the looks at the ready line stay within  *)
(* their limit.                                                            *)
TypeOK ==
  /\ bench \in Benches /\ cell \in [Byte -> Values] /\ ebuf \in [Byte -> Values]
  /\ before \in [Byte -> Values] /\ {busy, wen, busy0, late} \subseteq BOOLEAN
  /\ l \in 0 .. Words - 1 /\ i \in 0 .. PollLimit /\ ret \in {"ok", "fail"}
  /\ pc \in {"idle", "read", "merge", "erase_ewen", "eral", "erase_poll", "erase_ewds",
             "write_ewen", "write", "write_poll", "write_ewds", "done"}

(* A call that reports success did what it was asked in its range and left *)
(* every other byte as it was, although all of them were erased and        *)
(* written back (mw_eeprom_write and _erase): for a part that was idle     *)
(* when the call began, and unless a wait gave up.                         *)
Wanted(b) ==
  CASE b \notin Range \/ req.op = "read" -> before[b]
    [] b \in Range /\ req.op = "write"   -> Img(b)
    [] b \in Range /\ req.op = "erase"   -> FF

MwOkIsDone ==
  pc = "done" /\ ret = "ok" /\ ~busy0 /\ ~late =>
    \A b \in Byte : cell[b] = Wanted(b) /\ (req.op = "read" => ebuf[b] = cell[b])

(* Whatever happens to a call, a kill in the middle and a wait that gives  *)
(* up included, a byte outside its range is as it was or blank, and one    *)
(* inside is that or what the call wants (Merge and the order of erase and *)
(* write): never another call's byte, nor one of another place.            *)
OnlyBlanked ==
  pc # "idle" /\ ~busy0 => \A b \in Byte : cell[b] \in {before[b], FF, Wanted(b)}

(* A call that changed the part leaves it write disabled, also when the    *)
(* one before it was killed while it was enabled: unless a wait gave up    *)
(* (the returns after chip_busy() skip disable_write_3wire).               *)
WriteDisabledAtExit ==
  pc = "done" /\ req.op # "read" /\ ret = "ok" /\ ~busy0 /\ ~late => ~wen

(* No instruction is sent to a part that is busy with one of this call:    *)
(* unless a wait gave up.                                                  *)
BusyPartLeftAlone ==
  pc \in {"read", "erase_ewen", "eral", "erase_ewds", "write_ewen", "write", "write_ewds"} =>
    ~busy \/ busy0 \/ late

(* Every call returns, though the part may stay busy for ever. *)
Terminates == pc # "idle" ~> pc = "idle"

-----------------------------------------------------------------------------
(* The inductive invariants behind the properties.                         *)

(* The part has the address bits that the driver sends, enough for its     *)
(* words.                                                                  *)
PartsFit ==
  \A b \in Benches : /\ b.bits = addr_nbits(b) /\ b.bits \in AddressLengths
                     /\ 0 .. convert_size(b) - 1 \subseteq 0 .. 2 ^ b.bits - 1

Erasing  == {"erase_poll", "erase_ewds", "write_ewen"}
Changing == {"erase_ewen", "eral", "write", "write_poll", "write_ewds"} \cup Erasing

(* A call knows what it is doing, and begins at the first word.            *)
CallInv ==
  /\ pc # "idle" => req \in Requests
  /\ pc \in {"idle", "merge", "erase_ewen", "eral"} \cup Erasing => l = 0
  /\ pc \in {"idle", "read", "merge", "erase_ewen", "eral"} => ~late
  /\ pc \in Changing => req.op # "read"
  /\ busy => pc \in {"idle", "done", "erase_poll", "write_poll"} \/ busy0 \/ late

(* What the driver's copy of the part holds: what was read, then what the  *)
(* part is to hold.                                                        *)
Below(w) == {b \in Byte : b < w * (bench.org + 1)}

CopyInv ==
  ~busy0 =>
    /\ pc \in {"read", "merge", "erase_ewen", "eral"} => cell = before
    /\ pc = "read" => \A b \in Below(l) : ebuf[b] = before[b]
    /\ pc = "merge" /\ NeedsCopy(req) => ebuf = before
    /\ pc \in Changing => \A b \in Byte : ebuf[b] = Wanted(b)

(* How far the part got: blank, then word after word, when no wait gave    *)
(* up; and blank or as wanted where it has changed at all, if one did.     *)
ProgressInv ==
  ~busy0 =>
    /\ pc # "idle" => \A b \in Byte : cell[b] \in {before[b], FF, Wanted(b)}
    /\ ~late =>
         /\ pc \in {"eral", "write", "write_poll"} => wen
         /\ pc \in Erasing => \A b \in Byte : cell[b] = FF
         /\ pc = "write" => \A b \in Below(l) : cell[b] = Wanted(b)
         /\ pc = "write_poll" => \A b \in Below(l + 1) : cell[b] = Wanted(b)
         /\ pc = "write_ewds" => \A b \in Byte : cell[b] = Wanted(b)

CallsInv == CallInv /\ CopyInv /\ ProgressInv /\ MwOkIsDone /\ WriteDisabledAtExit
=============================================================================
