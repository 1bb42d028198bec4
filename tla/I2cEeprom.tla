----------------------------- MODULE I2cEeprom -----------------------------
(***************************************************************************)
(* src/src/i2c_eeprom.c: reading, erasing and writing an I2C EEPROM        *)
(* (external) that takes two address bytes, as the driver sends them       *)
(* whatever addr_size the list gives.  The part answers a transfer unless  *)
(* a write cycle is going on; the driver looks at no result.  The part     *)
(* wraps addresses, and a write wraps inside its page.                     *)
(*                                                                         *)
(* The command's image is the file of a write: cell c ends up "img" when   *)
(* it holds the byte of the image meant for it, "bad" when it holds any    *)
(* other.                                                                  *)
(***************************************************************************)
EXTENDS Process

CONSTANTS EeSize, EePage,   \* eepromlist[].size and page_size
          WordSize,         \* the number of values of a uint32_t
          MaxTransfer,      \* what a controller that cannot mangle transfers at once
          FileMax           \* the most bytes a read or a write has

(* Sizes and pages of the parts that -E knows.                             *)
eepromlist ==
  {[size |-> 128, page_size |-> 8], [size |-> 256, page_size |-> 8],
   [size |-> 512, page_size |-> 16], [size |-> 1024, page_size |-> 16],
   [size |-> 2048, page_size |-> 16], [size |-> 4096, page_size |-> 32],
   [size |-> 8192, page_size |-> 32], [size |-> 16384, page_size |-> 64],
   [size |-> 32768, page_size |-> 64], [size |-> 65536, page_size |-> 128],
   [size |-> 131072, page_size |-> 128]}

ASSUME WholePages == \A part \in eepromlist : part.size % part.page_size = 0

ASSUME EepromAssumption ==
  /\ EePage \in Nat \ {0} /\ MaxTransfer \in Nat \ {0}
  /\ EeSize \in Nat \ {0} /\ EeSize % EePage = 0
  /\ FileMax \in Nat /\ EeSize <= FileMax
  /\ WordSize \in Nat /\ 2 * FileMax < WordSize

EeCell   == 0 .. EeSize - 1
FileByte == 0 .. FileMax - 1

VARIABLES
  ee,       \* the part's cells
  eeBusy,   \* its write cycle is going on
  rbuf,     \* the file of a read: the cell values its bytes are, or "zero"
  nak,      \* history: a transfer of this process was not acknowledged
  idle0     \* history: no write cycle was going on when the process started

partVars   == <<ee, eeBusy>>
eepromVars == <<ee, eeBusy, rbuf, nak, idle0>>

EeValues == {"old", "img", "ff", "bad"}

PageOf(off) == off \div EePage

(* fill_addr_len and do_read of main.c; the file of a write has the size   *)
(* of the part.                                                            *)
EeLen == IF req.haveLen THEN req.len
         ELSE IF req.op = "erase" THEN (EeSize - req.addr) % WordSize ELSE EeSize

End == (req.addr + EeLen) % WordSize

(* The steps the controller takes through a read. *)
ReadChunk == IF rig.mangle THEN EePage ELSE MaxTransfer

Least(a, b) == IF a < b THEN a ELSE b

EeTransfer(reached) ==
  \E ok \in BOOLEAN : Outcome(rig.eeprom /\ ~eeBusy, reached, ok) /\ nak' = (nak \/ ~ok)

(* What the part changes: a byte that is erased, or a page that is written. *)
Changes(cells, value(_)) ==
  /\ ee' = [c \in EeCell |-> IF c \in cells THEN value(c) ELSE ee[c]]
  /\ eeBusy' = TRUE

-----------------------------------------------------------------------------
(* Main's do_* for an EEPROM.  Lock dereferences the flash status an       *)
(* EEPROM does not have and unlock asserts it, as a length of zero is      *)
(* asserted to be none; an erase has whole pages.                          *)
ActionDies == req.op \in {"lock", "unlock"} \/ EeLen = 0

(* A bug: the offset stays.                                                *)
MutContinue(off, again) ==
  /\ i' = i
  /\ IF off < End THEN Goto(again) /\ UNCHANGED ret ELSE Goto("cleanup") /\ ret' = "ok"

(* The head of the loops.  They end, at once when the end of the range has *)
(* wrapped, with a result that ui_op_status takes for success; the length  *)
(* that read and write return also makes do_write skip the verify.         *)
Continue(off, again) ==
  /\ i' = off
  /\ IF off < End THEN Goto(again) /\ UNCHANGED ret ELSE Goto("cleanup") /\ ret' = "ok"

do_action ==
  /\ pc = "ee_action" /\ ~ActionDies
  /\ \/ req.op = "read" /\ Continue(req.addr, "ee_read")
     \/ req.op = "write" /\ Continue(req.addr, "ee_write")
     \/ req.op = "erase" /\ EeLen % EePage = 0 /\ Continue(req.addr, "ee_erase")
     \/ /\ req.op = "erase" /\ EeLen % EePage # 0
        /\ i' = req.addr /\ Goto("cleanup") /\ ret' = "fail"
  /\ UNCHANGED <<rig, req, handles, fault, eepromVars>>

(* The destination is buf + off, not buf + (off - from): what lands beyond *)
(* the file is lost, or ends the process (FileOverrun).                    *)
ReadLen == Least(ReadChunk, End - i)

i2c_eeprom_read ==
  /\ pc = "ee_read"
  /\ \E reached \in BOOLEAN :
       /\ EeTransfer(reached)
       /\ rbuf' = [k \in FileByte |-> IF reached /\ k \in i .. i + ReadLen - 1 /\ k < EeLen
                                      THEN ee[k % EeSize] ELSE rbuf[k]]
  /\ Continue(i + ReadChunk, "ee_read")
  /\ UNCHANGED <<rig, req, handles, partVars, idle0>>

(* A bug: the byte after the one that is meant.                            *)
MutErase ==
  /\ pc = "ee_erase"
  /\ \E reached \in BOOLEAN :
       /\ EeTransfer(reached)
       /\ IF reached THEN Changes({(i + 1) % EeSize}, LAMBDA c : "ff") ELSE UNCHANGED partVars
  /\ Continue(i + 1, "ee_erase")
  /\ UNCHANGED <<rig, req, handles, rbuf, idle0>>

(* A bug: the loop counts down.                                            *)
MutEraseDown ==
  /\ pc = "ee_erase"
  /\ \E reached \in BOOLEAN :
       /\ EeTransfer(reached)
       /\ IF reached THEN Changes({i % EeSize}, LAMBDA c : "ff") ELSE UNCHANGED partVars
  /\ Continue(i - 1, "ee_erase")
  /\ UNCHANGED <<rig, req, handles, rbuf, idle0>>

(* Byte after byte, without waiting for the write cycle of the last one.   *)
i2c_eeprom_erase ==
  /\ pc = "ee_erase"
  /\ \E reached \in BOOLEAN :
       /\ EeTransfer(reached)
       /\ IF reached THEN Changes({i % EeSize}, LAMBDA c : "ff") ELSE UNCHANGED partVars
  /\ Continue(i + 1, "ee_erase")
  /\ UNCHANGED <<rig, req, handles, rbuf, idle0>>

(* A whole page of the file, from byte off of it, goes to off.  Byte k of  *)
(* it wraps inside the page; it is the one meant for that cell only when   *)
(* the request starts at 0, and beyond the request it may be anything.     *)
FileByteFor(c) == CHOOSE k \in i .. i + EePage - 1 : k % EePage = c % EePage

Meant(c) == req.addr = 0 /\ FileByteFor(c) = c /\ c < EeLen

i2c_eeprom_write ==
  /\ pc = "ee_write"
  /\ \E reached \in BOOLEAN :
       /\ EeTransfer(reached)
       /\ IF reached
          THEN Changes({c \in EeCell : PageOf(c) = PageOf(i % EeSize)},
                       LAMBDA c : IF Meant(c) THEN "img" ELSE "bad")
          ELSE UNCHANGED partVars
  /\ Goto("ee_sleep")
  /\ UNCHANGED <<rig, req, i, ret, handles, rbuf, idle0>>

(* A bug: no waiting.                                                      *)
MutSleep ==
  /\ pc = "ee_sleep"
  /\ Continue(i + EePage, "ee_write")
  /\ UNCHANGED <<rig, req, handles, fault, eepromVars>>

(* The 10 ms that follow a page outlast the write cycle.                   *)
usleep ==
  /\ pc = "ee_sleep" /\ ~eeBusy
  /\ Continue(i + EePage, "ee_write")
  /\ UNCHANGED <<rig, req, handles, fault, eepromVars>>

(* The bytes of the file that a transfer touches: those beyond its end may *)
(* be unmapped.                                                            *)
FileOverrun ==
  \/ pc = "ee_read" /\ i + ReadLen > EeLen
  \/ pc = "ee_write" /\ i + EePage > EeLen

-----------------------------------------------------------------------------
(* The part ends its write cycle. *)
EepromDone ==
  /\ eeBusy /\ eeBusy' = FALSE
  /\ UNCHANGED <<procVars, ee, rbuf, nak, idle0>>
=============================================================================
