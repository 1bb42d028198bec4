------------------------------ MODULE NandChip ------------------------------
(***************************************************************************)
(* The SPI NAND part on the other side of the programmer, as the driver in *)
(* src/src/spi_nand_flash.c uses it; it is not part of the repository, and *)
(* keeps its state from one run of the program to the next.                *)
(*                                                                         *)
(* A part is one or more dies of whole blocks; commands carry a row        *)
(* address within the selected die.  A value is a pair: erased, something  *)
(* else, or a byte that belongs at one cell: what the reference image has  *)
(* for it, or what it held at first.  A change is applied when the chip    *)
(* accepts the command.                                                    *)
(***************************************************************************)
EXTENDS FlashRegions

CONSTANTS PageSize,   \* cells in a page
          NumDies,    \* dies of the part
          Worn,       \* blocks where a program or an erase may fail
          Weak,       \* pages that may have become uncorrectable
          BpAtStart   \* BP values the part may come with

VARIABLES mem,        \* the array, its data areas
          oob,        \* the spare area of every page
          cache,      \* the cache register: data and spare area of one page
          oip,        \* status bit 0: an operation is in progress
          failBit,    \* P_FAIL or E_FAIL of the last program or erase
          eccBits,    \* ECC status of the last page read: "ok", "uncorrectable"
          wel,        \* write enable latch
          bp,         \* BP3..BP0 of the protection register
          ecc,        \* on-die ECC enable bit of every die
          otp,        \* OTP access mode
          die         \* the selected die

chipVars == <<mem, oob, cache, oip, failBit, eccBits, wel, bp, ecc, otp, die>>

Cell     == 0 .. DeviceSize - 1
NumPages == DeviceSize \div PageSize
Page     == 0 .. NumPages - 1
Column   == 0 .. PageSize - 1
Die      == 0 .. NumDies - 1
DiePages == NumPages \div NumDies

ASSUME ChipAssumption ==
  /\ PageSize \in Nat \ {0} /\ RegionSize % PageSize = 0
  /\ NumDies \in Nat \ {0} /\ NumRegions % NumDies = 0
  /\ Worn \subseteq Region /\ Weak \subseteq Page
  /\ BpAtStart \subseteq Bp

Ff      == <<"ff", 0>>
Bad     == <<"bad", 0>>
Old(c)  == <<"old", c>>
Img(c)  == <<"img", c>>
Value   == {Ff, Bad} \cup ({"old", "img"} \X Nat)
Spare   == {"ff", "old", "zero"}
Content == [data: [Column -> Value], oob: Spare]

ChipTypeOK ==
  /\ mem \in [Cell -> Value] /\ oob \in [Page -> Spare] /\ cache \in Content
  /\ oip \in BOOLEAN /\ failBit \in BOOLEAN /\ eccBits \in {"ok", "uncorrectable"}
  /\ wel \in BOOLEAN /\ bp \in Bp /\ ecc \in [Die -> BOOLEAN] /\ otp \in BOOLEAN
  /\ die \in Die

ChipInit ==
  /\ mem = [c \in Cell |-> Old(c)] /\ oob = [p \in Page |-> "old"]
  /\ cache = [data |-> [k \in Column |-> Ff], oob |-> "ff"]
  /\ oip = FALSE /\ failBit = FALSE /\ eccBits = "ok"
  /\ wel = FALSE /\ bp \in BpAtStart
  /\ ecc = [d \in Die |-> FALSE] /\ otp = FALSE /\ die = 0

(* All of the part from BP 11 on, an upper part of it below. *)
ProtectedBlocks ==
  CASE bp = 0      -> 0
    [] bp \in 1..10 -> (NumRegions + 1) \div 2
    [] OTHER       -> NumRegions

(* The page a row address selects, and the block it is in. *)
PageAt(row)  == (die * DiePages) + (row % DiePages)
BlockAt(row) == (PageAt(row) * PageSize) \div RegionSize

Protected(row) == BlockAt(row) >= NumRegions - ProtectedBlocks

InPage(c, p) == c \div PageSize = p

(* Programming can only clear bits. *)
Programmed(old, new) ==
  IF old = Ff \/ old = new THEN new ELSE IF new = Ff THEN old ELSE Bad

(* A busy chip ignores every command but GET FEATURE. *)
Accepted(new, old) == IF oip THEN old ELSE new

ChipWren ==
  /\ wel' = Accepted(TRUE, wel)
  /\ UNCHANGED <<mem, oob, cache, oip, failBit, eccBits, bp, ecc, otp, die>>

ChipWrdi ==
  /\ wel' = Accepted(FALSE, wel)
  /\ UNCHANGED <<mem, oob, cache, oip, failBit, eccBits, bp, ecc, otp, die>>

ChipSelectDie(d) ==
  /\ die' = Accepted(IF d \in Die THEN d ELSE die, die)
  /\ UNCHANGED <<mem, oob, cache, oip, failBit, eccBits, wel, bp, ecc, otp>>

(* SET FEATURE of the protection and of the feature register. *)
ChipSetBp(v) ==
  /\ bp' = Accepted(v, bp)
  /\ UNCHANGED <<mem, oob, cache, oip, failBit, eccBits, wel, ecc, otp, die>>

ChipSetFeature(eccOn, otpOn) ==
  /\ ecc' = Accepted([ecc EXCEPT ![die] = eccOn], ecc) /\ otp' = Accepted(otpOn, otp)
  /\ UNCHANGED <<mem, oob, cache, oip, failBit, eccBits, wel, bp, die>>

ChipProgramLoad(content) ==
  /\ cache' = Accepted(content, cache)
  /\ UNCHANGED <<mem, oob, oip, failBit, eccBits, wel, bp, ecc, otp, die>>

(* PAGE READ: in OTP mode the rows are those of the OTP area. *)
ChipPageRead(row) ==
  LET p == PageAt(row)
      stored == [data |-> [k \in Column |-> mem[(p * PageSize) + k]], oob |-> oob[p]]
      other  == [data |-> [k \in Column |-> Bad], oob |-> "ff"]
  IN IF oip THEN UNCHANGED chipVars ELSE
     /\ oip' = TRUE
     /\ \/ otp /\ cache' = other /\ eccBits' = "ok"
        \/ ~otp /\ cache' = stored /\ eccBits' = "ok"
        \/ ~otp /\ p \in Weak /\ cache' = other /\ eccBits' = "uncorrectable"
     /\ UNCHANGED <<mem, oob, failBit, wel, bp, ecc, otp, die>>

(* PROGRAM EXECUTE and BLOCK ERASE.  A protected or a worn block sets the  *)
(* fail bit; a worn one may keep anything.                                 *)
ChipExecute(row) ==
  LET p == PageAt(row)
  IN IF oip \/ ~wel THEN UNCHANGED chipVars ELSE
     /\ oip' = TRUE
     /\ \/ /\ otp \/ Protected(row)
           /\ failBit' = ~otp
           /\ UNCHANGED <<mem, oob>>
        \/ /\ ~otp /\ ~Protected(row)
           /\ failBit' = FALSE
           /\ mem' = [c \in Cell |-> IF InPage(c, p)
                                     THEN Programmed(mem[c], cache.data[c % PageSize])
                                     ELSE mem[c]]
           /\ oob' = [oob EXCEPT ![p] = IF cache.oob = "zero" THEN "zero" ELSE oob[p]]
        \/ /\ ~otp /\ ~Protected(row) /\ BlockAt(row) \in Worn
           /\ failBit' = TRUE
           /\ mem' = [c \in Cell |-> IF InPage(c, p) THEN Bad ELSE mem[c]]
           /\ UNCHANGED oob
     /\ UNCHANGED <<cache, eccBits, wel, bp, ecc, otp, die>>

ChipBlockErase(row) ==
  LET b == BlockAt(row)
  IN IF oip \/ ~wel THEN UNCHANGED chipVars ELSE
     /\ oip' = TRUE
     /\ \/ /\ otp \/ Protected(row)
           /\ failBit' = TRUE
           /\ UNCHANGED <<mem, oob>>
        \/ /\ ~otp /\ ~Protected(row)
           /\ failBit' = FALSE
           /\ mem' = [c \in Cell |-> IF c \div RegionSize = b THEN Ff ELSE mem[c]]
           /\ oob' = [p \in Page |-> IF (p * PageSize) \div RegionSize = b
                                     THEN "ff" ELSE oob[p]]
        \/ /\ ~otp /\ ~Protected(row) /\ b \in Worn
           /\ failBit' = TRUE
           /\ mem' = [c \in Cell |-> IF c \div RegionSize = b THEN Bad ELSE mem[c]]
           /\ UNCHANGED oob
     /\ UNCHANGED <<cache, eccBits, wel, bp, ecc, otp, die>>

(* The operation in progress ends, in the chip's own time, and clears the  *)
(* write enable latch.                                                     *)
ChipDone ==
  /\ oip
  /\ oip' = FALSE
  /\ wel' = FALSE
  /\ UNCHANGED <<mem, oob, cache, failBit, eccBits, bp, ecc, otp, die>>
=============================================================================
