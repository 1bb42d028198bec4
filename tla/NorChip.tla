------------------------------ MODULE NorChip -------------------------------
(***************************************************************************)
(* The SPI NOR part on the other side of the programmer, as the driver in  *)
(* src/src/spi_nor_flash.c uses it.  The chip keeps its state from one run *)
(* of the program to the next; it is not part of the repository.           *)
(*                                                                         *)
(* What the array holds is abstracted to what the properties tell apart,   *)
(* relative to one reference image of the whole device: a cell is erased   *)
(* ("ff"), holds the image's byte ("img"), what it held at first ("old"),  *)
(* or some other byte ("bad").  A change is applied to mem when the chip   *)
(* accepts the command: mem is the content the array has once the          *)
(* operation in progress, if any, is over.                                 *)
(***************************************************************************)
EXTENDS FlashRegions

CONSTANTS PageSize     \* cells the chip programs in one command

ASSUME ChipAssumption == PageSize \in Nat \ {0} /\ DeviceSize % PageSize = 0

VARIABLES mem,       \* the array
          wip,       \* status register bit 0: an operation is in progress
          wel,       \* status register bit 1: write enable latch
          bp,        \* status register bits 5..2: block protection
          bpNext,    \* the BP value once the operation in progress is over
          fourByte   \* the chip expects four address bytes

chipVars == <<mem, wip, wel, bp, bpNext, fourByte>>

Value == {"ff", "img", "old", "bad"}
Cell  == 0 .. DeviceSize - 1

ChipTypeOK ==
  /\ mem \in [Cell -> Value]
  /\ wip \in BOOLEAN
  /\ wel \in BOOLEAN
  /\ bp \in Bp
  /\ bpNext \in Bp
  /\ fourByte \in BOOLEAN

Protected(c) == c \div RegionSize >= NumRegions - ProtectedRegions(bp)

SectorOf(a) == {c \in Cell : c \div RegionSize = (a % DeviceSize) \div RegionSize}

PageOf(a) == {c \in Cell : c \div PageSize = (a % DeviceSize) \div PageSize}

(* Programming can only clear bits. *)
Programmed(old, new) == IF old = "ff" \/ old = new THEN new ELSE "bad"

(* A command starts an internal operation only on an idle chip whose write *)
(* enable latch is set.                                                    *)
Enabled == ~wip /\ wel

(* WREN and WRDI are ignored while an operation is in progress. *)
ChipWren == wel' = (wel \/ ~wip) /\ UNCHANGED <<mem, wip, bp, bpNext, fourByte>>
ChipWrdi == wel' = (wel /\ wip)  /\ UNCHANGED <<mem, wip, bp, bpNext, fourByte>>

(* Gives cells their value in new in one operation, unless the chip is not *)
(* enabled or the operation would touch a protected cell: then nothing     *)
(* happens.                                                                *)
ChipChange(cells, new) ==
  IF Enabled /\ \A c \in cells : ~Protected(c)
  THEN /\ wip' = TRUE
       /\ mem' = [c \in Cell |-> IF c \in cells THEN new[c] ELSE mem[c]]
       /\ UNCHANGED <<wel, bp, bpNext, fourByte>>
  ELSE UNCHANGED chipVars

Erased == [c \in Cell |-> "ff"]

ChipSectorErase(a) == ChipChange(SectorOf(a), Erased)

(* Bulk erase is refused while any BP bit is set. *)
ChipBulkErase == IF bp = 0 THEN ChipChange(Cell, Erased) ELSE UNCHANGED chipVars

(* PageSize cells sent to address a.  They wrap inside the page, so those  *)
(* below a in the page get the tail of the buffer; and only the first n    *)
(* come from the request, what follows them in the buffer is something     *)
(* else.                                                                   *)
ChipPageProgram(a, n) ==
  LET first   == a % DeviceSize
      data(c) == IF c \in first .. first + n - 1 THEN "img" ELSE "bad"
  IN ChipChange(PageOf(a), [c \in Cell |-> Programmed(mem[c], data(c))])

(* A page program whose address bytes the chip counts differently from the *)
(* driver: some page gets bytes that are not meant for it.                 *)
ChipStrayProgram ==
  \E a \in Cell : ChipChange(PageOf(a), [c \in Cell |-> Programmed(mem[c], "bad")])

(* WRSR: only the BP bits of the value matter here. *)
ChipWriteStatus(v) ==
  IF Enabled
  THEN wip' = TRUE /\ bpNext' = v /\ UNCHANGED <<mem, wel, bp, fourByte>>
  ELSE UNCHANGED chipVars

(* Enter or leave four byte address mode. *)
ChipSetMode(on) ==
  IF ~wip
  THEN fourByte' = on /\ UNCHANGED <<mem, wip, wel, bp, bpNext>>
  ELSE UNCHANGED chipVars

(* The write of the extended address register takes no time, and consumes  *)
(* the latch.                                                              *)
ChipWriteExtended == ChipWrdi

(* The operation in progress ends, in the chip's own time. *)
ChipDone ==
  /\ wip
  /\ wip' = FALSE
  /\ wel' = FALSE
  /\ bp' = bpNext
  /\ UNCHANGED <<mem, bpNext, fourByte>>
=============================================================================
