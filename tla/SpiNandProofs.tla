---------------------------- MODULE SpiNandProofs ---------------------------
(***************************************************************************)
(* Theorems about SpiNand, for every number of blocks, pages and dies,     *)
(* whatever blocks are worn and pages weak, every kind of part and set of  *)
(* command lines.                                                          *)
(***************************************************************************)
EXTENDS SpiNand, Arithmetic

-----------------------------------------------------------------------------
(* The layout of the part.                                                 *)

(* What the assumptions say of every constant's type.                      *)
LEMMA ConstantTypes ==
  /\ NumRegions \in Nat \ {0} /\ RegionSize \in Nat \ {0} /\ WordSize \in Nat \ {0}
  /\ PageSize \in Nat \ {0} /\ NumDies \in Nat \ {0}
  /\ DeviceSize \in Nat \ {0} /\ DeviceSize < WordSize
  /\ 0 \in Word /\ 0 \in Die
  /\ DieSelect \in BOOLEAN /\ HasCallbacks \in BOOLEAN /\ WeAfter \in BOOLEAN
<1>1. NumRegions * RegionSize \in Nat \ {0}
  <2>1. NumRegions \in Nat \ {0} /\ RegionSize \in Nat \ {0}
    BY RegionsAssumption
  <2>2. 1 * RegionSize <= NumRegions * RegionSize
    BY <2>1, ProductMonotonic
  <2> QED
    BY <2>1, <2>2
<1> QED
  BY <1>1, RegionsAssumption, ChipAssumption, NandAssumption DEF Word, Die, DeviceSize

(* A block is a whole number of pages, and a die a whole number of blocks. *)
LEMMA Layout ==
  /\ RegionSize \div PageSize \in Nat \ {0}
  /\ RegionSize = (RegionSize \div PageSize) * PageSize
  /\ NumPages \in Nat \ {0} /\ DeviceSize = NumPages * PageSize
  /\ DiePages \in Nat \ {0} /\ NumPages = NumDies * DiePages
<1> DEFINE R == RegionSize \div PageSize
           K == NumRegions \div NumDies
<1>1. R \in Nat /\ RegionSize = R * PageSize
  BY ConstantTypes, ChipAssumption, DivMod
<1>2. K \in Nat /\ NumRegions = K * NumDies
  BY ConstantTypes, ChipAssumption, DivMod
<1> HIDE DEF R, K
<1>3. R # 0 /\ K # 0
  BY <1>1, <1>2, ConstantTypes
<1>4. K * R \in Nat \ {0}
  <2>1. 1 * R <= K * R
    BY <1>1, <1>2, <1>3, ProductMonotonic
  <2> QED
    BY <1>1, <1>2, <1>3, <2>1
<1>5. NumRegions * R \in Nat /\ NumRegions * R = (K * R) * NumDies
  BY <1>1, <1>2, ConstantTypes
<1>6. DeviceSize = (NumRegions * R) * PageSize + 0
  BY <1>1, <1>5, ConstantTypes DEF DeviceSize
<1>7. NumPages = NumRegions * R
  <2>1. 0 \in 0 .. PageSize - 1
    BY ConstantTypes
  <2>2. ((NumRegions * R) * PageSize + 0) \div PageSize = NumRegions * R
    BY <1>5, <2>1, ConstantTypes, QuotientUnique
  <2> QED
    BY <1>6, <2>2 DEF NumPages
<1>8. DiePages = K * R
  <2>1. 0 \in 0 .. NumDies - 1
    BY ConstantTypes
  <2>2. ((K * R) * NumDies + 0) \div NumDies = K * R
    BY <1>4, <2>1, ConstantTypes, QuotientUnique
  <2>3. (K * R) * NumDies + 0 = NumPages
    BY <1>4, <1>5, <1>7, ConstantTypes
  <2> QED
    BY <2>2, <2>3 DEF DiePages
<1>9. NumPages = NumDies * DiePages
  BY <1>4, <1>5, <1>7, <1>8, ConstantTypes
<1>10. NumPages # 0
  BY <1>5, <1>6, <1>7, ConstantTypes
<1> QED
  BY <1>1, <1>3, <1>4, <1>5, <1>6, <1>7, <1>8, <1>9, <1>10, ConstantTypes DEF R

(* Pages and columns, and the cells they name. *)
LEMMA CellOfPage ==
  ASSUME NEW p \in Page, NEW k \in Column
  PROVE  /\ (p * PageSize) + k \in Cell
         /\ ((p * PageSize) + k) \div PageSize = p
         /\ ((p * PageSize) + k) % PageSize = k
<1>1. /\ p \in Nat /\ k \in Nat /\ k < PageSize /\ PageSize \in Nat \ {0}
      /\ NumPages \in Nat /\ p + 1 <= NumPages
  BY ConstantTypes, Layout DEF Page, Column
<1>2. (p + 1) * PageSize <= NumPages * PageSize
  BY <1>1, ProductMonotonic
<1>3. p * PageSize \in Nat /\ (p + 1) * PageSize = p * PageSize + PageSize
  BY <1>1
<1>4. (p * PageSize) + k \in Cell
  BY <1>1, <1>2, <1>3, ConstantTypes, Layout DEF Cell
<1>5. k \in 0 .. PageSize - 1
  BY <1>1
<1> QED
  BY <1>1, <1>4, <1>5, QuotientUnique

(* A cell is the column of a page: its address is the page's and the column. *)
LEMMA PageOfCell ==
  ASSUME NEW c \in Cell
  PROVE  /\ c \in Nat /\ c \div PageSize \in Page /\ c % PageSize \in Column
         /\ c = (c \div PageSize) * PageSize + (c % PageSize)
<1> DEFINE p == c \div PageSize
           k == c % PageSize
<1>1. c \in Nat /\ c < DeviceSize /\ PageSize \in Nat \ {0}
  BY ConstantTypes DEF Cell
<1>2. p \in Nat /\ k \in 0 .. PageSize - 1 /\ c = p * PageSize + k
  BY <1>1, DivMod
<1> HIDE DEF p, k
<1>3. p * PageSize < NumPages * PageSize
  <2>1. p * PageSize \in Nat /\ p * PageSize <= c
    BY <1>1, <1>2
  <2> QED
    BY <1>1, <2>1, Layout, ConstantTypes
<1>4. p < NumPages
  BY <1>1, <1>2, <1>3, Layout, ProductOrder
<1>5. p \in Page /\ k \in Column
  BY <1>2, <1>4, Layout DEF Page, Column
<1> QED
  BY <1>1, <1>2, <1>5 DEF p, k

(* Every row address selects a page of the selected die. *)
LEMMA PageAtType ==
  ASSUME die \in Die, NEW row \in Nat
  PROVE  PageAt(row) \in Page
<1> DEFINE x == row % DiePages
<1>1. x \in 0 .. DiePages - 1 /\ DiePages \in Nat \ {0}
  BY Layout, DivMod
<1> HIDE DEF x
<1>2. die \in Nat /\ die + 1 <= NumDies /\ NumDies \in Nat
  BY ConstantTypes DEF Die
<1>3. (die + 1) * DiePages <= NumDies * DiePages
  BY <1>1, <1>2, ProductMonotonic
<1>4. die * DiePages \in Nat /\ (die + 1) * DiePages = die * DiePages + DiePages
  BY <1>1, <1>2
<1>5. die * DiePages + x \in 0 .. NumPages - 1
  BY <1>1, <1>3, <1>4, Layout
<1> QED
  BY <1>5 DEF PageAt, Page, x

(* In the die it belongs to, a row address selects the page it names.      *)
LEMMA RowInDie ==
  ASSUME NEW row \in Page
  PROVE  /\ row \in Nat /\ DieOf(row) \in Die
         /\ die = DieOf(row) => PageAt(row) = row
<1> DEFINE q == row \div DiePages
           x == row % DiePages
<1>1. row \in Nat /\ row < NumPages /\ DiePages \in Nat \ {0}
  BY Layout DEF Page
<1>2. q \in Nat /\ x \in 0 .. DiePages - 1 /\ row = q * DiePages + x
  BY <1>1, DivMod
<1> HIDE DEF q, x
<1>3. q * DiePages < NumDies * DiePages
  <2>1. q * DiePages \in Nat /\ q * DiePages <= row
    BY <1>1, <1>2
  <2> QED
    BY <1>1, <2>1, Layout
<1>4. q < NumDies
  BY <1>1, <1>2, <1>3, ConstantTypes, ProductOrder
<1>5. q \in Die
  BY <1>2, <1>4, ConstantTypes DEF Die
<1> QED
  BY <1>1, <1>2, <1>5 DEF DieOf, PageAt, q, x

(* The first rows are those of the first die. *)
LEMMA DieOfZero == DieOf(0) = 0
<1>1. 0 \in 0 .. DiePages - 1 /\ 0 * DiePages + 0 = 0 /\ DiePages \in Nat \ {0}
  BY Layout
<1>2. (0 * DiePages + 0) \div DiePages = 0
  BY <1>1, QuotientUnique
<1> QED
  BY <1>1, <1>2 DEF DieOf

-----------------------------------------------------------------------------
(* Type correctness.                                                       *)

(* The command line, the marks and the buffer of a process that has not    *)
(* started.                                                                *)
LEMMA NoRequestType ==
  NoRequest \in RequestType /\ NoFlags \in [Region -> BOOLEAN] /\ AllOnes \in Content
  BY ConstantTypes DEF NoRequest, RequestType, Ops, NoFlags, AllOnes, Content, Value, Spare

(* Values that can be stored. *)
LEMMA Values ==
  /\ Ff \in Value /\ Bad \in Value
  /\ \A c \in Nat : Old(c) \in Value /\ Image(c) \in Value
  /\ \A old, new \in Value : Programmed(old, new) \in Value
<1>1. Ff \in Value /\ Bad \in Value
  BY DEF Value
<1>2. \A c \in Nat : Old(c) \in Value /\ Img(c) \in Value
  BY DEF Value, Old, Img
<1>3. \A c \in Nat : Image(c) \in Value
  BY <1>1, <1>2 DEF Image
<1>4. \A old, new \in Value : Programmed(old, new) \in Value
  BY <1>1 DEF Programmed
<1> QED
  BY <1>1, <1>2, <1>3, <1>4

(* The part as it comes, and no process, are typed.                        *)
LEMMA InitType == Init => TypeOK
<1> SUFFICES ASSUME Init PROVE TypeOK
  OBVIOUS
<1>1. mem \in [Cell -> Value]
  BY Values DEF Init, ChipInit, Cell
<1>2. ChipTypeOK
  BY <1>1, ChipAssumption, ConstantTypes
     DEF Init, ChipInit, ChipTypeOK, Content, Spare, Value
<1>3. OperationTypeOK
  BY NoRequestType
     DEF Init, OperationTypeOK, Labels, PageReturns, Codes
<1>4. FlagTypeOK
  BY DEF Init, FlagTypeOK
<1> QED
  BY <1>2, <1>3, <1>4 DEF TypeOK

(* A process that ends leaves nothing untyped behind.                      *)
LEMMA QuitType == TypeOK /\ Quit => TypeOK'
<1> SUFFICES ASSUME TypeOK, Quit PROVE TypeOK'
  OBVIOUS
<1>1. ChipTypeOK'
  BY DEF TypeOK, ChipTypeOK, Quit, chipVars
<1>2. OperationTypeOK'
  BY NoRequestType
     DEF Quit, OperationTypeOK, Labels, PageReturns, Codes
<1>3. FlagTypeOK'
  BY DEF Quit, FlagTypeOK
<1> QED
  BY <1>1, <1>2, <1>3 DEF TypeOK

(* A length and an address are numbers of the code's width. *)
LEMMA OpLenType == TypeOK => OpLen \in Nat
<1> SUFFICES ASSUME TypeOK PROVE OpLen \in Nat
  OBVIOUS
<1>1. /\ req.len \in Nat /\ req.addr \in Nat /\ req.haveLen \in BOOLEAN
      /\ DeviceSize \in Nat /\ WordSize \in Nat \ {0}
  BY ConstantTypes DEF TypeOK, OperationTypeOK, RequestType, Word
<1>2. (DeviceSize - req.addr) % WordSize \in Nat
  BY <1>1
<1> QED
  BY <1>1, <1>2 DEF OpLen

(* The page and the row of the next command are page numbers.             *)
LEMMA TargetType == TypeOK => Target \in Nat /\ Row \in Nat /\ DieOf(Row) \in Nat
<1> SUFFICES ASSUME TypeOK PROVE Target \in Nat /\ Row \in Nat /\ DieOf(Row) \in Nat
  OBVIOUS
<1>1. i \in Nat /\ req.addr \in Nat
  BY DEF TypeOK, OperationTypeOK, RequestType, Word
<1>2. (req.addr + i) % WordSize \in Nat
  BY <1>1, ConstantTypes, DivMod
<1>3. Target \in Nat
  BY <1>1, <1>2 DEF Target
<1>4. Row \in Nat
  BY <1>3, ConstantTypes, DivMod DEF Row
<1>5. DieOf(Row) \in Nat
  BY <1>4, Layout, DivMod DEF DieOf
<1> QED
  BY <1>3, <1>4, <1>5

(* No command, whatever row it names, makes the chip ill-typed.            *)
LEMMA ChipTypes ==
  ASSUME ChipTypeOK
  PROVE  /\ ChipWren => ChipTypeOK'
         /\ ChipWrdi => ChipTypeOK'
         /\ \A d : ChipSelectDie(d) => ChipTypeOK'
         /\ \A v \in Bp : ChipSetBp(v) => ChipTypeOK'
         /\ \A eccOn, otpOn \in BOOLEAN : ChipSetFeature(eccOn, otpOn) => ChipTypeOK'
         /\ \A content \in Content : ChipProgramLoad(content) => ChipTypeOK'
         /\ \A row \in Nat : ChipPageRead(row) => ChipTypeOK'
         /\ \A row \in Nat : ChipExecute(row) => ChipTypeOK'
         /\ \A row \in Nat : ChipBlockErase(row) => ChipTypeOK'
         /\ ChipDone => ChipTypeOK'
         /\ UNCHANGED chipVars => ChipTypeOK'
<1>1. UNCHANGED chipVars => ChipTypeOK'
  BY DEF ChipTypeOK, chipVars
<1>2. ChipWren => ChipTypeOK'
  BY DEF ChipTypeOK, ChipWren, Accepted
<1>3. ChipWrdi => ChipTypeOK'
  BY DEF ChipTypeOK, ChipWrdi, Accepted
<1>4. \A d : ChipSelectDie(d) => ChipTypeOK'
  BY DEF ChipTypeOK, ChipSelectDie, Accepted
<1>5. \A v \in Bp : ChipSetBp(v) => ChipTypeOK'
  BY DEF ChipTypeOK, ChipSetBp, Accepted
<1>6. \A eccOn, otpOn \in BOOLEAN : ChipSetFeature(eccOn, otpOn) => ChipTypeOK'
  BY DEF ChipTypeOK, ChipSetFeature, Accepted
<1>7. \A content \in Content : ChipProgramLoad(content) => ChipTypeOK'
  BY DEF ChipTypeOK, ChipProgramLoad, Accepted
<1>8. ASSUME NEW row \in Nat, ChipPageRead(row) PROVE ChipTypeOK'
  <2> DEFINE p == PageAt(row)
             stored == [data |-> [k \in Column |-> mem[(p * PageSize) + k]], oob |-> oob[p]]
             other  == [data |-> [k \in Column |-> Bad], oob |-> "ff"]
  <2>1. p \in Page
    BY PageAtType DEF ChipTypeOK
  <2>2. stored \in Content
    <3>1. \A k \in Column : mem[(p * PageSize) + k] \in Value
      BY <2>1, CellOfPage DEF ChipTypeOK
    <3>2. oob[p] \in Spare
      BY <2>1 DEF ChipTypeOK
    <3> HIDE DEF p
    <3> QED
      BY <3>1, <3>2 DEF Content
  <2>3. other \in Content
    BY Values DEF Content, Spare
  <2>4. cache' \in {cache, stored, other} /\ oip' \in BOOLEAN
        /\ eccBits' \in {"ok", "uncorrectable"}
    BY <1>8 DEF ChipPageRead, ChipTypeOK, chipVars
  <2>5. UNCHANGED <<mem, oob, failBit, wel, bp, ecc, otp, die>>
    BY <1>8 DEF ChipPageRead, chipVars
  <2> HIDE DEF stored, other
  <2> QED
    BY <2>2, <2>3, <2>4, <2>5 DEF ChipTypeOK
<1>9. ASSUME NEW row \in Nat, ChipExecute(row) PROVE ChipTypeOK'
  <2> DEFINE p == PageAt(row)
             new  == [c \in Cell |-> IF InPage(c, p)
                                     THEN Programmed(mem[c], cache.data[c % PageSize])
                                     ELSE mem[c]]
             worn == [c \in Cell |-> IF InPage(c, p) THEN Bad ELSE mem[c]]
             spare == [oob EXCEPT ![p] = IF cache.oob = "zero" THEN "zero" ELSE oob[p]]
  <2>1. p \in Page
    BY PageAtType DEF ChipTypeOK
  <2>2. new \in [Cell -> Value]
    <3>1. \A c \in Cell : cache.data[c % PageSize] \in Value
      BY PageOfCell DEF ChipTypeOK, Content
    <3>2. \A c \in Cell : Programmed(mem[c], cache.data[c % PageSize]) \in Value
      BY <3>1, Values DEF ChipTypeOK
    <3> QED
      BY <3>2 DEF ChipTypeOK
  <2>3. worn \in [Cell -> Value]
    BY Values DEF ChipTypeOK
  <2>4. spare \in [Page -> Spare]
    BY <2>1 DEF ChipTypeOK, Spare
  <2>5. mem' \in {mem, new, worn} /\ oob' \in {oob, spare}
    BY <1>9 DEF ChipExecute, chipVars
  <2>6. /\ oip' \in BOOLEAN /\ failBit' \in BOOLEAN
        /\ UNCHANGED <<cache, eccBits, wel, bp, ecc, otp, die>>
    BY <1>9 DEF ChipExecute, chipVars, ChipTypeOK
  <2> HIDE DEF new, worn, spare
  <2> QED
    BY <2>2, <2>3, <2>4, <2>5, <2>6 DEF ChipTypeOK
<1>10. ASSUME NEW row \in Nat, ChipBlockErase(row) PROVE ChipTypeOK'
  <2> DEFINE b == BlockAt(row)
             new  == [c \in Cell |-> IF c \div RegionSize = b THEN Ff ELSE mem[c]]
             worn == [c \in Cell |-> IF c \div RegionSize = b THEN Bad ELSE mem[c]]
             spare == [p \in Page |-> IF (p * PageSize) \div RegionSize = b
                                      THEN "ff" ELSE oob[p]]
  <2>1. new \in [Cell -> Value] /\ worn \in [Cell -> Value]
    BY Values DEF ChipTypeOK
  <2>2. spare \in [Page -> Spare]
    BY DEF ChipTypeOK, Spare
  <2>3. mem' \in {mem, new, worn} /\ oob' \in {oob, spare}
    BY <1>10 DEF ChipBlockErase, chipVars
  <2>4. /\ oip' \in BOOLEAN /\ failBit' \in BOOLEAN
        /\ UNCHANGED <<cache, eccBits, wel, bp, ecc, otp, die>>
    BY <1>10 DEF ChipBlockErase, chipVars, ChipTypeOK
  <2> HIDE DEF new, worn, spare
  <2> QED
    BY <2>1, <2>2, <2>3, <2>4 DEF ChipTypeOK
<1>11. ChipDone => ChipTypeOK'
  BY DEF ChipTypeOK, ChipDone
<1> QED
  BY <1>1, <1>2, <1>3, <1>4, <1>5, <1>6, <1>7, <1>8, <1>9, <1>10, <1>11

(* The protection callback returns a mark for every region. *)
LEMMA MarkTypes ==
  /\ NoFlags \in [Region -> BOOLEAN]
  /\ \A flags \in [Region -> BOOLEAN] : ReadProtection(flags) =>
       locked' \in [Region -> BOOLEAN] /\ (fault \in BOOLEAN => fault' \in BOOLEAN)
<1>1. NoFlags \in [Region -> BOOLEAN] /\ AllFlags \in [Region -> BOOLEAN]
  BY DEF NoFlags, AllFlags
<1>2. ASSUME NEW flags \in [Region -> BOOLEAN], NEW b
      PROVE  spi_nand_bp_bit2_to_bit6(b, flags) \in [Region -> BOOLEAN]
  BY <1>1 DEF spi_nand_bp_bit2_to_bit6
<1> QED
  BY <1>1, <1>2 DEF ReadProtection, Fail

(* What is read from the cache register, and what is merged into it.       *)
LEMMA BufferTypes ==
  ASSUME TypeOK
  PROVE  /\ read_from_cache => buf' \in Content
         /\ write_overlay => buf' \in Content
         /\ AllOnes \in Content
<1>1. ASSUME read_from_cache PROVE buf' \in Content
  <2>1. cache.data \in [Column -> Value] /\ cache.oob \in Spare
    BY DEF TypeOK, ChipTypeOK, Content
  <2>2. [data |-> cache.data, oob |-> IF IncludeOob THEN cache.oob ELSE "zero"] \in Content
    BY <2>1 DEF Content, Spare
  <2>3. [data |-> [k \in Column |-> Bad], oob |-> "zero"] \in Content
    BY Values DEF Content, Spare
  <2> QED
    BY <1>1, <2>2, <2>3 DEF read_from_cache
<1>2. ASSUME write_overlay PROVE buf' \in Content
  <2> DEFINE new == [k \in Column |-> IF k < CopySize THEN FileCell(k) ELSE buf.data[k]]
  <2>1. buf \in Content
    BY DEF TypeOK, OperationTypeOK
  <2>2. ASSUME NEW k \in Column PROVE FileCell(k) \in Value
    <3>1. req.addr + i + k \in Nat
      BY ConstantTypes DEF TypeOK, OperationTypeOK, RequestType, Word, Column
    <3> QED
      BY <3>1, Values DEF FileCell
  <2>3. new \in [Column -> Value]
    BY <2>1, <2>2 DEF Content
  <2>4. buf' = [buf EXCEPT !.data = new]
    BY <1>2 DEF write_overlay
  <2> HIDE DEF new
  <2> QED
    BY <2>1, <2>3, <2>4 DEF Content
<1> QED
  BY <1>1, <1>2, NoRequestType

(* The feature register holds a bit of each kind, whatever was read. *)
LEMMA FeatureTypes ==
  ASSUME ChipTypeOK, fault \in BOOLEAN
  PROVE  /\ ecc[die] \in BOOLEAN /\ otp \in BOOLEAN
         /\ \A e, o \in BOOLEAN, others \in SUBSET (BOOLEAN \X BOOLEAN) :
              UpdateFeature(e, o, others) => ChipTypeOK' /\ fault' \in BOOLEAN
<1>1. ecc[die] \in BOOLEAN /\ otp \in BOOLEAN
  BY DEF ChipTypeOK
<1>2. ASSUME NEW e \in BOOLEAN, NEW o \in BOOLEAN, NEW others \in SUBSET (BOOLEAN \X BOOLEAN),
             UpdateFeature(e, o, others)
      PROVE  ChipTypeOK' /\ fault' \in BOOLEAN
  <2>1. fault' \in BOOLEAN
    BY <1>2 DEF UpdateFeature, Send, Fail
  <2>2. CASE Send(ChipSetFeature(e, o))
    BY <2>1, <2>2, ChipTypes DEF Send
  <2>3. CASE \E f \in others : ChipSetFeature(f[1], f[2])
    <3>1. PICK f \in others : ChipSetFeature(f[1], f[2])
      BY <2>3
    <3>2. f[1] \in BOOLEAN /\ f[2] \in BOOLEAN
      OBVIOUS
    <3> QED
      BY <2>1, <3>1, <3>2, ChipTypes
  <2> QED
    BY <1>2, <2>2, <2>3 DEF UpdateFeature
<1> QED
  BY <1>1, <1>2

(* Every step of program, chip and user keeps the types: the loop offset   *)
(* only grows from naturals, and the rows that are sent are numbers.       *)
LEMMA TypeStep == TypeOK /\ [Next]_vars => TypeOK'
<1> SUFFICES ASSUME TypeOK, [Next]_vars PROVE TypeOK'
  OBVIOUS
<1> USE DEF TypeOK, OperationTypeOK, FlagTypeOK, Labels, PageReturns, Goto, callVars, opVars,
            otherHist, histVars
<1>0. /\ PageSize \in Nat /\ RegionSize \in Nat
      /\ UNCHANGED chipVars => ChipTypeOK'
      /\ OpLen \in Nat /\ Target \in Nat /\ Row \in Nat /\ DieOf(Row) \in Nat
      /\ Fail => fault' \in BOOLEAN
  BY ConstantTypes, ChipTypes, OpLenType, TargetType DEF Fail
<1>1. CASE \E r \in Requests : Start(r)
  BY <1>0, <1>1, NandAssumption DEF Start
<1>2. CASE spi_nand_probe
  BY <1>0, <1>2, QuitType DEF spi_nand_probe
<1>3. CASE ecc_select_die
  BY <1>0, <1>3, ChipTypes DEF ecc_select_die, Send
<1>4. CASE spi_nand_enable_ondie_ecc
  <2>1. ChipTypeOK'
    BY <1>0, <1>4, FeatureTypes DEF spi_nand_enable_ondie_ecc
  <2>2. OperationTypeOK'
    BY <1>0, <1>4, FeatureTypes DEF spi_nand_enable_ondie_ecc
  <2>3. FlagTypeOK'
    BY <1>0, <1>4, FeatureTypes DEF spi_nand_enable_ondie_ecc
  <2> QED
    BY <2>1, <2>2, <2>3
<1>5. CASE spi_nand_init
  BY <1>0, <1>5, MarkTypes DEF spi_nand_init, ReadProtection
<1>6. CASE do_identify
  BY <1>0, <1>6 DEF do_identify
<1>7. CASE do_lock_unlock
  BY <1>0, <1>7 DEF do_lock_unlock, Finish, Codes
<1>8. CASE do_erase
  BY <1>0, <1>8, QuitType DEF do_erase, Finish, Codes
<1>9. CASE do_read
  BY <1>0, <1>9, QuitType DEF do_read
<1>10. CASE do_write
  BY <1>0, <1>10, QuitType DEF do_write, Finish, Codes
<1>11. CASE spi_nand_select_die
  <2>1. ChipTypeOK'
    BY <1>0, <1>11, ChipTypes DEF spi_nand_select_die, AfterSelect, Send
  <2>2. OperationTypeOK'
    BY <1>0, <1>11, ChipTypes DEF spi_nand_select_die, AfterSelect, Send
  <2>3. FlagTypeOK'
    BY <1>0, <1>11, ChipTypes DEF spi_nand_select_die, AfterSelect, Send
  <2> QED
    BY <2>1, <2>2, <2>3
<1>12. CASE write_enable
  BY <1>0, <1>12, ChipTypes DEF write_enable, AfterWren, Send
<1>13. CASE poll
  <2>1. ChipTypeOK'
    BY <1>0, <1>13 DEF poll, AfterPoll, ChipTypeOK
  <2>2. OperationTypeOK'
    BY <1>0, <1>13 DEF poll, AfterPoll, ChipTypeOK
  <2>3. FlagTypeOK'
    BY <1>0, <1>13 DEF poll, AfterPoll, ChipTypeOK
  <2> QED
    BY <2>1, <2>2, <2>3
<1>14. CASE page_read
  BY <1>0, <1>14, ChipTypes DEF page_read, Send
<1>15. CASE check_ecc_status
  BY <1>0, <1>15 DEF check_ecc_status, PageResult, LoadResult, Codes
<1>16. CASE read_from_cache
  BY <1>0, <1>16, BufferTypes DEF read_from_cache
<1>17. CASE otp_on
  <2>1. ChipTypeOK'
    BY <1>0, <1>17, FeatureTypes DEF otp_on, ReadPage
  <2>2. OperationTypeOK'
    BY <1>0, <1>17, FeatureTypes DEF otp_on, ReadPage
  <2>3. FlagTypeOK'
    BY <1>0, <1>17, FeatureTypes DEF otp_on, ReadPage
  <2> QED
    BY <2>1, <2>2, <2>3
<1>18. CASE unique_id
  BY <1>0, <1>18 DEF unique_id, ReadPage
<1>19. CASE parameter_page
  BY <1>0, <1>19 DEF parameter_page, Codes
<1>20. CASE otp_off
  <2>1. ChipTypeOK'
    BY <1>0, <1>20, FeatureTypes DEF otp_off
  <2>2. OperationTypeOK'
    BY <1>0, <1>20, FeatureTypes DEF otp_off
  <2>3. FlagTypeOK'
    BY <1>0, <1>20, FeatureTypes DEF otp_off
  <2> QED
    BY <2>1, <2>2, <2>3
<1>21. CASE lock_write
  BY <1>0, <1>21, ChipTypes DEF lock_write, Send, spi_nand_set_bp_from_status_bit2_to_bit6, Bp
<1>22. CASE lock_reread
  BY <1>0, <1>22, MarkTypes DEF lock_reread, ReadProtection
<1>23. CASE erase_block
  BY <1>0, <1>23, ChipTypes DEF erase_block, Send, CountAfterKill
<1>24. CASE erase_end
  BY <1>0, <1>24, ChipTypes DEF erase_end, Finish, Send, Codes
<1>25. CASE read_next
  BY <1>0, <1>25, QuitType DEF read_next, ReadPage
<1>26. CASE read_copy
  <2>1. ChipTypeOK'
    BY <1>0, <1>26 DEF read_copy, Finish, Codes
  <2>2. OperationTypeOK'
    BY <1>0, <1>26 DEF read_copy, Finish, Codes
  <2>3. FlagTypeOK'
    BY <1>0, <1>26 DEF read_copy, Finish, Codes
  <2> QED
    BY <2>1, <2>2, <2>3
<1>27. CASE write_start
  BY <1>0, <1>27, QuitType, BufferTypes, QuitType DEF write_start, ReadPage, Codes
<1>28. CASE write_overlay
  BY <1>0, <1>28, BufferTypes DEF write_overlay
<1>29. CASE program_load
  BY <1>0, <1>29, ChipTypes DEF program_load, Send
<1>30. CASE program_execute
  BY <1>0, <1>30, ChipTypes DEF program_execute, Send, CountAfterKill
<1>31. CASE program_end
  BY <1>0, <1>31, ChipTypes DEF program_end, Send, Codes
<1>32. CASE write_next
  BY <1>0, <1>32 DEF write_next, CopySize
<1>33. CASE verify_next
  BY <1>0, <1>33, QuitType DEF verify_next, ReadPage
<1>34. CASE verify_compare
  <2>1. ChipTypeOK'
    BY <1>0, <1>34 DEF verify_compare, Finish, Codes
  <2>2. OperationTypeOK'
    BY <1>0, <1>34 DEF verify_compare, Finish, Codes
  <2>3. FlagTypeOK'
    BY <1>0, <1>34 DEF verify_compare, Finish, Codes
  <2> QED
    BY <2>1, <2>2, <2>3
<1>35. CASE cleanup
  BY <1>0, <1>35, QuitType DEF cleanup
<1>36. CASE sigterm
  BY <1>0, <1>36 DEF sigterm
<1>37. CASE Crash
  BY <1>0, <1>37, QuitType DEF Crash
<1>38. CASE ChipStep
  BY <1>0, <1>38, ChipTypes DEF ChipStep
<1>39. CASE UNCHANGED vars
  BY <1>0, <1>39 DEF vars
<1> QED
  BY <1>1, <1>2, <1>3, <1>4, <1>5, <1>6, <1>7, <1>8, <1>9, <1>10, <1>11, <1>12, <1>13, <1>14,
     <1>15, <1>16, <1>17, <1>18, <1>19, <1>20, <1>21, <1>22, <1>23, <1>24, <1>25, <1>26, <1>27,
     <1>28, <1>29, <1>30, <1>31, <1>32, <1>33, <1>34, <1>35, <1>36, <1>37, <1>38, <1>39
     DEF Next, Program

(* In every run of snander, interrupted, restarted or with a transfer that *)
(* fails, the variables of the driver and of the part keep their types.    *)
THEOREM NandTypeCorrect == Spec => []TypeOK
<1>1. Init => TypeOK
  BY InitType
<1>2. TypeOK /\ [Next]_vars => TypeOK'
  BY TypeStep
<1> QED
  BY <1>1, <1>2, PTL DEF Spec

-----------------------------------------------------------------------------
(* A busy chip.                                                            *)

(* A process that ends is not in the middle of anything. *)
LEMMA QuitBusy == Quit => BusyChipLeftAlone'
  BY DEF Quit, BusyChipLeftAlone

(* These commands start no operation. *)
LEMMA QuietCommands ==
  /\ ChipWren => UNCHANGED oip
  /\ ChipWrdi => UNCHANGED oip
  /\ \A eccOn, otpOn : ChipSetFeature(eccOn, otpOn) => UNCHANGED oip
  /\ UNCHANGED chipVars => UNCHANGED oip
  BY DEF ChipWren, ChipWrdi, ChipSetFeature, chipVars

(* Setting a feature, sent or not, starts no operation and hides no fault. *)
LEMMA FeatureQuiet ==
  ASSUME NEW e, NEW o, NEW others, UpdateFeature(e, o, others)
  PROVE  UNCHANGED oip /\ (fault => fault')
<1>1. CASE Send(ChipSetFeature(e, o))
  BY <1>1, QuietCommands DEF Send, Fail
<1>2. CASE Fail /\ \E f \in others : ChipSetFeature(f[1], f[2])
  BY <1>2, QuietCommands DEF Fail
<1> QED
  BY <1>1, <1>2 DEF UpdateFeature

(* Commands are only sent after a poll that ended, and every command that  *)
(* makes the chip busy is followed by one.                                 *)
LEMMA BusyStep == TypeOK /\ BusyChipLeftAlone /\ [Next]_vars => BusyChipLeftAlone'
<1> SUFFICES ASSUME TypeOK, BusyChipLeftAlone, [Next]_vars PROVE BusyChipLeftAlone'
  OBVIOUS
<1> USE DEF BusyChipLeftAlone, chipVars, Goto, callVars, opVars, histVars, otherHist
<1>1. CASE \E r \in Requests : Start(r)
  BY <1>1 DEF Start
<1>2. CASE spi_nand_probe
  BY <1>2, QuitBusy DEF spi_nand_probe
<1>3. CASE ecc_select_die
  BY <1>3 DEF ecc_select_die, Send, ChipSelectDie, Fail
<1>4. CASE spi_nand_enable_ondie_ecc
  <2>1. UNCHANGED oip /\ (fault => fault')
    BY <1>4, FeatureQuiet DEF spi_nand_enable_ondie_ecc
  <2>2. pc = "ecc_set"
    BY <1>4 DEF spi_nand_enable_ondie_ecc
  <2> QED
    BY <2>1, <2>2
<1>5. CASE spi_nand_init
  BY <1>5 DEF spi_nand_init, ReadProtection, Fail
<1>6. CASE do_identify
  BY <1>6 DEF do_identify
<1>7. CASE do_lock_unlock
  BY <1>7 DEF do_lock_unlock, Finish
<1>8. CASE do_erase
  BY <1>8, QuitBusy DEF do_erase, Finish
<1>9. CASE do_read
  BY <1>9, QuitBusy DEF do_read
<1>10. CASE do_write
  BY <1>10, QuitBusy DEF do_write, Finish
<1>11. CASE spi_nand_select_die
  BY <1>11 DEF spi_nand_select_die, AfterSelect, Send, ChipSelectDie, Fail
<1>12. CASE write_enable
  <2>1. UNCHANGED oip /\ (fault => fault')
    BY <1>12, QuietCommands DEF write_enable, Send, Fail
  <2>2. pc \in {"er_wren", "wr_wren"}
    BY <1>12 DEF write_enable, AfterWren
  <2> QED
    BY <2>1, <2>2
<1>13. CASE poll
  BY <1>13 DEF poll, AfterPoll, Fail
<1>14. CASE page_read
  BY <1>14 DEF page_read, Send, ChipPageRead, Fail
<1>15. CASE check_ecc_status
  BY <1>15 DEF check_ecc_status, Fail
<1>16. CASE read_from_cache
  BY <1>16 DEF read_from_cache, Fail
<1>17. CASE otp_on
  BY <1>17 DEF otp_on, ReadPage, UpdateFeature, Send, ChipSetFeature, Fail
<1>18. CASE unique_id
  BY <1>18 DEF unique_id, ReadPage
<1>19. CASE parameter_page
  BY <1>19 DEF parameter_page
<1>20. CASE otp_off
  BY <1>20 DEF otp_off, UpdateFeature, Send, ChipSetFeature, Fail
<1>21. CASE lock_write
  BY <1>21 DEF lock_write, Send, ChipSetBp, Fail
<1>22. CASE lock_reread
  BY <1>22 DEF lock_reread, ReadProtection, Fail
<1>23. CASE erase_block
  BY <1>23 DEF erase_block, Send, ChipBlockErase, Fail
<1>24. CASE erase_end
  <2>1. UNCHANGED oip /\ (fault => fault')
    BY <1>24, QuietCommands DEF erase_end, Send, Fail
  <2>2. pc = "er_wrdi"
    BY <1>24 DEF erase_end, Finish
  <2> QED
    BY <2>1, <2>2
<1>25. CASE read_next
  BY <1>25, QuitBusy DEF read_next, ReadPage
<1>26. CASE read_copy
  BY <1>26 DEF read_copy, Finish
<1>27. CASE write_start
  BY <1>27, QuitBusy DEF write_start, ReadPage
<1>28. CASE write_overlay
  BY <1>28 DEF write_overlay
<1>29. CASE program_load
  BY <1>29 DEF program_load, Send, ChipProgramLoad, Fail
<1>30. CASE program_execute
  BY <1>30 DEF program_execute, Send, ChipExecute, Fail
<1>31. CASE program_end
  BY <1>31 DEF program_end, Send, ChipWrdi, Fail
<1>32. CASE write_next
  BY <1>32 DEF write_next
<1>33. CASE verify_next
  BY <1>33, QuitBusy DEF verify_next, ReadPage
<1>34. CASE verify_compare
  BY <1>34 DEF verify_compare, Finish
<1>35. CASE cleanup
  BY <1>35, QuitBusy DEF cleanup
<1>36. CASE sigterm
  BY <1>36 DEF sigterm
<1>37. CASE Crash
  BY <1>37, QuitBusy DEF Crash
<1>38. CASE ChipStep
  BY <1>38 DEF ChipStep, ChipDone
<1>39. CASE UNCHANGED vars
  BY <1>39 DEF vars
<1> QED
  BY <1>1, <1>2, <1>3, <1>4, <1>5, <1>6, <1>7, <1>8, <1>9, <1>10, <1>11, <1>12, <1>13, <1>14,
     <1>15, <1>16, <1>17, <1>18, <1>19, <1>20, <1>21, <1>22, <1>23, <1>24, <1>25, <1>26, <1>27,
     <1>28, <1>29, <1>30, <1>31, <1>32, <1>33, <1>34, <1>35, <1>36, <1>37, <1>38, <1>39
     DEF Next, Program

(* While the chip is busy, also from a process that was killed, the driver *)
(* sends it nothing but status reads.                                      *)
THEOREM NandBusyChipSafe == Spec => []BusyChipLeftAlone
<1>1. Init => BusyChipLeftAlone
  BY DEF Init, ChipInit, BusyChipLeftAlone
<1>2. TypeOK /\ BusyChipLeftAlone /\ [Next]_vars => BusyChipLeftAlone'
  BY BusyStep
<1> QED
  BY <1>1, <1>2, NandTypeCorrect, PTL DEF Spec

-----------------------------------------------------------------------------
(* Operations and their labels, and ^C.                                    *)

(* A process that ends has no request, and has sent nothing. *)
LEMMA QuitOperation == Quit => OperationInv' /\ AbortInv'
  BY DEF Quit, OperationInv, AbortInv, HeadsFor, PageLabels, IdentifyLabels, EraseLabels,
         ReadLabels, WriteLabels, ProgramLabels, VerifyLabels

(* Both hold of an idle driver.                                           *)
LEMMA InitOperation == Init => OperationInv /\ AbortInv
  BY DEF Init, OperationInv, AbortInv, HeadsFor, PageLabels, IdentifyLabels, EraseLabels,
         ReadLabels, WriteLabels, ProgramLabels, VerifyLabels

(* No operation runs into the code of another. *)
LEMMA OperationStep == TypeOK /\ OperationInv /\ [Next]_vars => OperationInv'
<1> SUFFICES ASSUME TypeOK, OperationInv, [Next]_vars PROVE OperationInv'
  OBVIOUS
<1> USE DEF OperationInv, HeadsFor, PageLabels, IdentifyLabels, EraseLabels, ReadLabels,
            WriteLabels, ProgramLabels, VerifyLabels, Goto, callVars, opVars, histVars, otherHist
<1>1. CASE \E r \in Requests : Start(r)
  BY <1>1 DEF Start
<1>2. CASE spi_nand_probe
  BY <1>2, QuitOperation DEF spi_nand_probe
<1>3. CASE ecc_select_die
  BY <1>3 DEF ecc_select_die
<1>4. CASE spi_nand_enable_ondie_ecc
  BY <1>4 DEF spi_nand_enable_ondie_ecc
<1>5. CASE spi_nand_init
  BY <1>5 DEF spi_nand_init
<1>6. CASE do_identify
  BY <1>6 DEF do_identify
<1>7. CASE do_lock_unlock
  BY <1>7 DEF do_lock_unlock, Finish
<1>8. CASE do_erase
  BY <1>8, QuitOperation DEF do_erase, Finish
<1>9. CASE do_read
  BY <1>9, QuitOperation DEF do_read
<1>10. CASE do_write
  BY <1>10, QuitOperation DEF do_write, Finish
<1>11. CASE spi_nand_select_die
  BY <1>11 DEF spi_nand_select_die, AfterSelect
<1>12. CASE write_enable
  BY <1>12 DEF write_enable, AfterWren
<1>13. CASE poll
  BY <1>13 DEF poll, AfterPoll
<1>14. CASE page_read
  BY <1>14 DEF page_read
<1>15. CASE check_ecc_status
  BY <1>15 DEF check_ecc_status
<1>16. CASE read_from_cache
  BY <1>16 DEF read_from_cache, TypeOK, OperationTypeOK, PageReturns
<1>17. CASE otp_on
  BY <1>17 DEF otp_on, ReadPage
<1>18. CASE unique_id
  BY <1>18 DEF unique_id, ReadPage
<1>19. CASE parameter_page
  BY <1>19 DEF parameter_page
<1>20. CASE otp_off
  BY <1>20 DEF otp_off
<1>21. CASE lock_write
  BY <1>21 DEF lock_write
<1>22. CASE lock_reread
  BY <1>22 DEF lock_reread
<1>23. CASE erase_block
  BY <1>23 DEF erase_block
<1>24. CASE erase_end
  BY <1>24 DEF erase_end, Finish
<1>25. CASE read_next
  BY <1>25, QuitOperation DEF read_next, ReadPage
<1>26. CASE read_copy
  BY <1>26 DEF read_copy, Finish
<1>27. CASE write_start
  BY <1>27, QuitOperation DEF write_start, ReadPage
<1>28. CASE write_overlay
  BY <1>28 DEF write_overlay
<1>29. CASE program_load
  BY <1>29 DEF program_load
<1>30. CASE program_execute
  BY <1>30 DEF program_execute
<1>31. CASE program_end
  BY <1>31 DEF program_end
<1>32. CASE write_next
  BY <1>32 DEF write_next
<1>33. CASE verify_next
  BY <1>33, QuitOperation DEF verify_next, ReadPage
<1>34. CASE verify_compare
  BY <1>34 DEF verify_compare, Finish
<1>35. CASE cleanup
  BY <1>35, QuitOperation DEF cleanup
<1>36. CASE sigterm
  BY <1>36 DEF sigterm
<1>37. CASE Crash
  BY <1>37, QuitOperation DEF Crash
<1>38. CASE ChipStep
  BY <1>38 DEF ChipStep
<1>39. CASE UNCHANGED vars
  BY <1>39 DEF vars
<1> QED
  BY <1>1, <1>2, <1>3, <1>4, <1>5, <1>6, <1>7, <1>8, <1>9, <1>10, <1>11, <1>12, <1>13, <1>14,
     <1>15, <1>16, <1>17, <1>18, <1>19, <1>20, <1>21, <1>22, <1>23, <1>24, <1>25, <1>26, <1>27,
     <1>28, <1>29, <1>30, <1>31, <1>32, <1>33, <1>34, <1>35, <1>36, <1>37, <1>38, <1>39
     DEF Next, Program

(* Every loop looks at the flag before it sends another command. *)
LEMMA AbortStep == TypeOK /\ OperationInv /\ AbortInv /\ [Next]_vars => AbortInv'
<1> SUFFICES ASSUME TypeOK, OperationInv, AbortInv, [Next]_vars PROVE AbortInv'
  OBVIOUS
<1> USE DEF AbortInv, SentLabels, HeadsFor, PageLabels, VerifyLabels, Goto, callVars, opVars,
            histVars, otherHist
<1>1. CASE \E r \in Requests : Start(r)
  BY <1>1 DEF Start
<1>2. CASE spi_nand_probe
  BY <1>2, QuitOperation DEF spi_nand_probe
<1>3. CASE ecc_select_die
  BY <1>3 DEF ecc_select_die
<1>4. CASE spi_nand_enable_ondie_ecc
  BY <1>4 DEF spi_nand_enable_ondie_ecc
<1>5. CASE spi_nand_init
  BY <1>5 DEF spi_nand_init
<1>6. CASE do_identify
  BY <1>6 DEF do_identify
<1>7. CASE do_lock_unlock
  BY <1>7 DEF do_lock_unlock, Finish
<1>8. CASE do_erase
  BY <1>8, QuitOperation DEF do_erase, Finish
<1>9. CASE do_read
  BY <1>9, QuitOperation DEF do_read
<1>10. CASE do_write
  BY <1>10, QuitOperation DEF do_write, Finish
<1>11. CASE spi_nand_select_die
  BY <1>11 DEF spi_nand_select_die, AfterSelect
<1>12. CASE write_enable
  BY <1>12 DEF write_enable, AfterWren
<1>13. CASE poll
  BY <1>13 DEF poll, AfterPoll
<1>14. CASE page_read
  BY <1>14 DEF page_read
<1>15. CASE check_ecc_status
  BY <1>15 DEF check_ecc_status
<1>16. CASE read_from_cache
  BY <1>16 DEF read_from_cache
<1>17. CASE otp_on
  BY <1>17 DEF otp_on, ReadPage
<1>18. CASE unique_id
  BY <1>18 DEF unique_id, ReadPage
<1>19. CASE parameter_page
  BY <1>19 DEF parameter_page
<1>20. CASE otp_off
  BY <1>20 DEF otp_off
<1>21. CASE lock_write
  BY <1>21 DEF lock_write
<1>22. CASE lock_reread
  BY <1>22 DEF lock_reread
<1>23. CASE erase_block
  BY <1>23 DEF erase_block, CountAfterKill
<1>24. CASE erase_end
  BY <1>24 DEF erase_end, Finish
<1>25. CASE read_next
  BY <1>25, QuitOperation DEF read_next, ReadPage
<1>26. CASE read_copy
  BY <1>26 DEF read_copy, Finish
<1>27. CASE write_start
  BY <1>27, QuitOperation DEF write_start, ReadPage
<1>28. CASE write_overlay
  BY <1>28 DEF write_overlay
<1>29. CASE program_load
  BY <1>29 DEF program_load
<1>30. CASE program_execute
  BY <1>30 DEF program_execute, CountAfterKill
<1>31. CASE program_end
  BY <1>31 DEF program_end
<1>32. CASE write_next
  BY <1>32 DEF write_next, Written
<1>33. CASE verify_next
  BY <1>33, QuitOperation DEF verify_next, ReadPage
<1>34. CASE verify_compare
  BY <1>34 DEF verify_compare, Finish
<1>35. CASE cleanup
  BY <1>35, QuitOperation DEF cleanup
<1>36. CASE sigterm
  BY <1>36 DEF sigterm, TypeOK, OperationTypeOK, FlagTypeOK
<1>37. CASE Crash
  BY <1>37, QuitOperation DEF Crash
<1>38. CASE ChipStep
  BY <1>38 DEF ChipStep
<1>39. CASE UNCHANGED vars
  BY <1>39 DEF vars
<1> QED
  BY <1>1, <1>2, <1>3, <1>4, <1>5, <1>6, <1>7, <1>8, <1>9, <1>10, <1>11, <1>12, <1>13, <1>14,
     <1>15, <1>16, <1>17, <1>18, <1>19, <1>20, <1>21, <1>22, <1>23, <1>24, <1>25, <1>26, <1>27,
     <1>28, <1>29, <1>30, <1>31, <1>32, <1>33, <1>34, <1>35, <1>36, <1>37, <1>38, <1>39
     DEF Next, Program

(* After ^C at most one more page is programmed or block erased.           *)
THEOREM NandAbortIsSoon == Spec => []AbortStopsSoon
<1>1. Init => OperationInv /\ AbortInv
  BY InitOperation
<1>2. TypeOK /\ OperationInv /\ AbortInv /\ [Next]_vars => (OperationInv /\ AbortInv)'
  BY OperationStep, AbortStep
<1>3. AbortInv => AbortStopsSoon
  BY DEF AbortInv, AbortStopsSoon
<1> QED
  BY <1>1, <1>2, <1>3, NandTypeCorrect, PTL DEF Spec

-----------------------------------------------------------------------------
(* The selected die.                                                       *)

(* A process that ends has forgotten the die it selected. *)
LEMMA QuitDie == Quit => DieInv'
  BY DEF Quit, DieInv, StartLabels, RowLabels

(* Of the driver's commands only DIE SELECT changes the die, and a chip    *)
(* that is not busy accepts it.                                            *)
LEMMA DieCommands ==
  /\ ChipWren => UNCHANGED die
  /\ ChipWrdi => UNCHANGED die
  /\ \A v : ChipSetBp(v) => UNCHANGED die
  /\ \A eccOn, otpOn : ChipSetFeature(eccOn, otpOn) => UNCHANGED die
  /\ \A content : ChipProgramLoad(content) => UNCHANGED die
  /\ \A row : ChipPageRead(row) => UNCHANGED die
  /\ \A row : ChipExecute(row) => UNCHANGED die
  /\ \A row : ChipBlockErase(row) => UNCHANGED die
  /\ ChipDone => UNCHANGED die
  /\ UNCHANGED chipVars => UNCHANGED die
  /\ \A d \in Die : ChipSelectDie(d) /\ ~oip => die' = d
  BY DEF ChipWren, ChipWrdi, ChipSetBp, ChipSetFeature, ChipProgramLoad, ChipPageRead,
         ChipExecute, ChipBlockErase, ChipDone, chipVars, ChipSelectDie, Accepted

(* Every row is sent after spi_nand_select_die has seen it; the die that   *)
(* enabling the ECC selected is not remembered.                            *)
LEMMA DieStep == TypeOK /\ BusyChipLeftAlone /\ OperationInv /\ DieInv /\ [Next]_vars => DieInv'
<1> SUFFICES ASSUME TypeOK, BusyChipLeftAlone, OperationInv, DieInv, [Next]_vars PROVE DieInv'
  OBVIOUS
<1> USE DEF DieInv, StartLabels, RowLabels, Goto, callVars, opVars, histVars, otherHist
<1>0. /\ UNCHANGED <<req, i>> => UNCHANGED Row
      /\ UNCHANGED chipVars => UNCHANGED die
  BY DEF Row, Target, chipVars
<1>1. CASE \E r \in Requests : Start(r)
  BY <1>0, <1>1 DEF Start
<1>2. CASE spi_nand_probe
  BY <1>0, <1>2, QuitDie DEF spi_nand_probe
<1>3. CASE ecc_select_die
  BY <1>0, <1>3, DieCommands DEF ecc_select_die, Send, Fail
<1>4. CASE spi_nand_enable_ondie_ecc
  BY <1>0, <1>4, DieCommands DEF spi_nand_enable_ondie_ecc, UpdateFeature, Send, Fail
<1>5. CASE spi_nand_init
  BY <1>0, <1>5, DieCommands DEF spi_nand_init, ReadProtection, Fail
<1>6. CASE do_identify
  BY <1>0, <1>6 DEF do_identify
<1>7. CASE do_lock_unlock
  BY <1>0, <1>7 DEF do_lock_unlock, Finish
<1>8. CASE do_erase
  BY <1>0, <1>8, QuitDie DEF do_erase, Finish
<1>9. CASE do_read
  BY <1>0, <1>9, QuitDie DEF do_read
<1>10. CASE do_write
  BY <1>0, <1>10, QuitDie DEF do_write, Finish
<1>11. CASE spi_nand_select_die
  BY <1>0, <1>11, DieCommands DEF spi_nand_select_die, AfterSelect, Send, Fail, BusyChipLeftAlone
<1>12. CASE write_enable
  BY <1>0, <1>12, DieCommands DEF write_enable, AfterWren, Send, Fail
<1>13. CASE poll
  BY <1>0, <1>13, DieCommands DEF poll, AfterPoll, Fail
<1>14. CASE page_read
  BY <1>0, <1>14, DieCommands DEF page_read, Send, Fail
<1>15. CASE check_ecc_status
  BY <1>0, <1>15, DieCommands DEF check_ecc_status, Fail
<1>16. CASE read_from_cache
  <2>1. pc' \notin StartLabels \cup RowLabels \/ pc' = "idle"
    BY <1>16 DEF read_from_cache, TypeOK, OperationTypeOK, PageReturns
  <2>2. UNCHANGED <<die, dieId, selected>> /\ (~fault' => ~fault)
    BY <1>0, <1>16 DEF read_from_cache, Fail
  <2>3. pc' # "idle"
    BY <1>16 DEF read_from_cache, OperationInv, PageLabels
  <2> QED
    BY <2>1, <2>2, <2>3
<1>17. CASE otp_on
  BY <1>0, <1>17, DieCommands DEF otp_on, ReadPage, UpdateFeature, Send, Fail
<1>18. CASE unique_id
  BY <1>0, <1>18 DEF unique_id, ReadPage
<1>19. CASE parameter_page
  BY <1>0, <1>19 DEF parameter_page
<1>20. CASE otp_off
  BY <1>0, <1>20, DieCommands DEF otp_off, UpdateFeature, Send, Fail
<1>21. CASE lock_write
  BY <1>0, <1>21, DieCommands DEF lock_write, Send, Fail
<1>22. CASE lock_reread
  BY <1>0, <1>22, DieCommands DEF lock_reread, ReadProtection, Fail
<1>23. CASE erase_block
  BY <1>0, <1>23, DieCommands DEF erase_block, Send, Fail
<1>24. CASE erase_end
  BY <1>0, <1>24, DieCommands DEF erase_end, Finish, Send, Fail
<1>25. CASE read_next
  BY <1>0, <1>25, QuitDie DEF read_next, ReadPage
<1>26. CASE read_copy
  BY <1>0, <1>26 DEF read_copy, Finish
<1>27. CASE write_start
  BY <1>0, <1>27, QuitDie DEF write_start, ReadPage
<1>28. CASE write_overlay
  BY <1>0, <1>28 DEF write_overlay
<1>29. CASE program_load
  BY <1>0, <1>29, DieCommands DEF program_load, Send, Fail
<1>30. CASE program_execute
  BY <1>0, <1>30, DieCommands DEF program_execute, Send, Fail
<1>31. CASE program_end
  BY <1>0, <1>31, DieCommands DEF program_end, Send, Fail
<1>32. CASE write_next
  BY <1>0, <1>32 DEF write_next
<1>33. CASE verify_next
  BY <1>0, <1>33, QuitDie DEF verify_next, ReadPage
<1>34. CASE verify_compare
  BY <1>0, <1>34 DEF verify_compare, Finish
<1>35. CASE cleanup
  BY <1>0, <1>35, QuitDie DEF cleanup
<1>36. CASE sigterm
  BY <1>0, <1>36 DEF sigterm
<1>37. CASE Crash
  BY <1>0, <1>37, QuitDie DEF Crash
<1>38. CASE ChipStep
  BY <1>0, <1>38, DieCommands DEF ChipStep
<1>39. CASE UNCHANGED vars
  BY <1>0, <1>39 DEF vars
<1> QED
  BY <1>1, <1>2, <1>3, <1>4, <1>5, <1>6, <1>7, <1>8, <1>9, <1>10, <1>11, <1>12, <1>13, <1>14,
     <1>15, <1>16, <1>17, <1>18, <1>19, <1>20, <1>21, <1>22, <1>23, <1>24, <1>25, <1>26, <1>27,
     <1>28, <1>29, <1>30, <1>31, <1>32, <1>33, <1>34, <1>35, <1>36, <1>37, <1>38, <1>39
     DEF Next, Program

(* A command with a row address goes to the die the address is in.         *)
THEOREM RightDieCorrect == Spec => []RightDie
<1>1. Init => OperationInv /\ DieInv
  BY InitOperation DEF Init, DieInv, RowLabels
<1>2. TypeOK /\ BusyChipLeftAlone /\ OperationInv /\ DieInv /\ [Next]_vars
      => (OperationInv /\ DieInv)'
  BY OperationStep, DieStep
<1>3. TypeOK /\ DieInv => RightDie
  <2> SUFFICES ASSUME TypeOK, DieInv, pc \in RowLabels, ~fault, Target \in Cell,
                      selected \/ DieOf(Row) # 0
               PROVE  die = DieOf(Row)
    BY DEF RightDie, RowLabels
  <2>1. Row \in Page
    BY PageOfCell DEF Row
  <2>2. DieOf(Row) \in Die
    BY <2>1, RowInDie
  <2>3. CASE DieSelect
    BY <2>2, <2>3 DEF DieInv
  <2>4. CASE ~DieSelect
    <3>1. Die = {0}
      BY <2>4, NandAssumption, ConstantTypes DEF Die
    <3> QED
      BY <2>2, <3>1 DEF TypeOK, ChipTypeOK
  <2> QED
    BY <2>3, <2>4
<1> QED
  BY <1>1, <1>2, <1>3, NandTypeCorrect, NandBusyChipSafe, PTL DEF Spec

-----------------------------------------------------------------------------
(* The feature register.                                                   *)

(* A process that ends has enabled nothing yet. *)
LEMMA QuitEcc == Quit => EccInv' /\ OtpInv'
  BY ConstantTypes DEF Quit, EccInv, OtpInv, NoRequest

(* Only SET FEATURE changes the two bits, in the selected die.             *)
LEMMA FeatureCommands ==
  /\ ChipWren => UNCHANGED <<ecc, otp>>
  /\ ChipWrdi => UNCHANGED <<ecc, otp>>
  /\ \A d : ChipSelectDie(d) => UNCHANGED <<ecc, otp>>
  /\ \A v : ChipSetBp(v) => UNCHANGED <<ecc, otp>>
  /\ \A content : ChipProgramLoad(content) => UNCHANGED <<ecc, otp>>
  /\ \A row : ChipPageRead(row) => UNCHANGED <<ecc, otp>>
  /\ \A row : ChipExecute(row) => UNCHANGED <<ecc, otp>>
  /\ \A row : ChipBlockErase(row) => UNCHANGED <<ecc, otp>>
  /\ ChipDone => UNCHANGED <<ecc, otp>>
  /\ UNCHANGED chipVars => UNCHANGED <<ecc, otp>>
  /\ \A eccOn, otpOn : ChipSetFeature(eccOn, otpOn) /\ ~oip =>
       ecc' = [ecc EXCEPT ![die] = eccOn] /\ otp' = otpOn
  BY DEF ChipWren, ChipWrdi, ChipSetBp, ChipSetFeature, ChipProgramLoad, ChipPageRead,
         ChipExecute, ChipBlockErase, ChipDone, chipVars, ChipSelectDie, Accepted

(* A register update that does not fail has its effect on an idle chip.    *)
LEMMA FeatureEffect ==
  ASSUME NEW e, NEW o, NEW others, UpdateFeature(e, o, others), ~oip, ~fault'
  PROVE  /\ ~fault /\ UNCHANGED die
         /\ ecc' = [ecc EXCEPT ![die] = e] /\ otp' = o
<1>1. ~Fail
  BY DEF Fail
<1>2. ChipSetFeature(e, o) /\ UNCHANGED fault
  BY <1>1 DEF UpdateFeature, Send
<1> QED
  BY <1>2, FeatureCommands, DieCommands

(* The dies are gone through one by one, and no step after that turns an   *)
(* ECC off: identify writes the bit back as it read it.                    *)
LEMMA EccStep == TypeOK /\ BusyChipLeftAlone /\ OperationInv /\ EccInv /\ [Next]_vars => EccInv'
<1> SUFFICES ASSUME TypeOK, BusyChipLeftAlone, OperationInv, EccInv, [Next]_vars PROVE EccInv'
  OBVIOUS
<1> USE DEF EccInv, Goto, callVars, opVars, histVars, otherHist
<1>0. /\ NumDies \in Nat \ {0} /\ Die = 0 .. NumDies - 1 /\ die \in Die
      /\ ~DieSelect => NumDies = 1
      /\ ecc \in [Die -> BOOLEAN]
      /\ UNCHANGED chipVars => UNCHANGED <<ecc, die>>
  BY ConstantTypes, NandAssumption DEF Die, TypeOK, ChipTypeOK, chipVars
<1>1. CASE \E r \in Requests : Start(r)
  BY <1>0, <1>1, FeatureCommands DEF Start
<1>2. CASE spi_nand_probe
  BY <1>0, <1>2, QuitEcc, FeatureCommands DEF spi_nand_probe, chipVars
<1>3. CASE ecc_select_die
  <2>1. UNCHANGED ecc /\ (~fault' => ~fault /\ ~oip /\ die' = i)
    BY <1>0, <1>3, FeatureCommands, DieCommands DEF ecc_select_die, Send, Fail, BusyChipLeftAlone
  <2> QED
    BY <1>3, <2>1 DEF ecc_select_die
<1>4. CASE spi_nand_enable_ondie_ecc
  <2>1. ~fault' => ~oip
    BY <1>4, FeatureQuiet DEF spi_nand_enable_ondie_ecc, BusyChipLeftAlone
  <2>2. ~fault' => ~fault /\ UNCHANGED die /\ ecc' = [ecc EXCEPT ![die] = TRUE]
    BY <1>4, <2>1, FeatureEffect DEF spi_nand_enable_ondie_ecc
  <2>3. pc = "ecc_set" /\ i \in Die
    BY <1>4 DEF spi_nand_enable_ondie_ecc
  <2>4. ~fault' => die = i /\ \A d \in Die : d < i + 1 => ecc'[d]
    BY <1>0, <2>2, <2>3
  <2>5. CASE OtherDies
    <3>1. pc' = "ecc_die" /\ i' = i + 1 /\ i' \in Die
      BY <1>0, <1>4, <2>3, <2>5 DEF spi_nand_enable_ondie_ecc, OtherDies
    <3> QED
      BY <2>4, <3>1
  <2>6. CASE ~OtherDies
    <3>1. pc' \in {"status", "action"} /\ i' = 0
      BY <1>4, <2>6 DEF spi_nand_enable_ondie_ecc
    <3>2. \A d \in Die : d < i + 1
      BY <1>0, <2>3, <2>6 DEF OtherDies
    <3> QED
      BY <2>4, <3>1, <3>2
  <2> QED
    BY <2>5, <2>6
<1>5. CASE spi_nand_init
  BY <1>0, <1>5, FeatureCommands DEF spi_nand_init, ReadProtection, Fail
<1>6. CASE do_identify
  BY <1>0, <1>6, FeatureCommands DEF do_identify
<1>7. CASE do_lock_unlock
  BY <1>0, <1>7, FeatureCommands DEF do_lock_unlock, Finish
<1>8. CASE do_erase
  BY <1>0, <1>8, QuitEcc, FeatureCommands DEF do_erase, Finish
<1>9. CASE do_read
  BY <1>0, <1>9, QuitEcc, FeatureCommands DEF do_read
<1>10. CASE do_write
  BY <1>0, <1>10, QuitEcc, FeatureCommands DEF do_write, Finish
<1>11. CASE spi_nand_select_die
  BY <1>0, <1>11, FeatureCommands
     DEF spi_nand_select_die, AfterSelect, Send, Fail, BusyChipLeftAlone
<1>12. CASE write_enable
  BY <1>0, <1>12, FeatureCommands DEF write_enable, AfterWren, Send, Fail
<1>13. CASE poll
  BY <1>0, <1>13, FeatureCommands DEF poll, AfterPoll, Fail
<1>14. CASE page_read
  BY <1>0, <1>14, FeatureCommands DEF page_read, Send, Fail
<1>15. CASE check_ecc_status
  BY <1>0, <1>15, FeatureCommands DEF check_ecc_status, Fail
<1>16. CASE read_from_cache
  <2>1. pc' \notin {"idle", "probe", "status", "action", "ecc_die", "ecc_set"}
    BY <1>16 DEF read_from_cache, TypeOK, OperationTypeOK, PageReturns, OperationInv, PageLabels
  <2>2. UNCHANGED <<ecc, die, i>> /\ (~fault' => ~fault)
    BY <1>0, <1>16 DEF read_from_cache, Fail
  <2> QED
    BY <1>16, <2>1, <2>2 DEF read_from_cache
<1>17. CASE otp_on
  <2>1. ~fault' => ~oip
    BY <1>17, FeatureQuiet DEF otp_on, BusyChipLeftAlone
  <2>2. ~fault' => ~fault /\ ecc' = [ecc EXCEPT ![die] = ecc[die]]
    BY <1>17, <2>1, FeatureEffect DEF otp_on
  <2>3. [ecc EXCEPT ![die] = ecc[die]] = ecc
    BY <1>0
  <2>4. ~fault' => ~fault /\ UNCHANGED ecc
    BY <2>2, <2>3
  <2> QED
    BY <1>17, <2>4 DEF otp_on, ReadPage
<1>18. CASE unique_id
  BY <1>0, <1>18, FeatureCommands DEF unique_id, ReadPage
<1>19. CASE parameter_page
  BY <1>0, <1>19, FeatureCommands DEF parameter_page
<1>20. CASE otp_off
  <2>1. ~fault' => ~oip
    BY <1>20, FeatureQuiet DEF otp_off, BusyChipLeftAlone
  <2>2. ~fault' => ~fault /\ ecc' = [ecc EXCEPT ![die] = ecc[die]]
    BY <1>20, <2>1, FeatureEffect DEF otp_off
  <2>3. [ecc EXCEPT ![die] = ecc[die]] = ecc
    BY <1>0
  <2>4. ~fault' => ~fault /\ UNCHANGED ecc
    BY <2>2, <2>3
  <2> QED
    BY <1>20, <2>4 DEF otp_off
<1>21. CASE lock_write
  BY <1>0, <1>21, FeatureCommands DEF lock_write, Send, Fail
<1>22. CASE lock_reread
  BY <1>0, <1>22, FeatureCommands DEF lock_reread, ReadProtection, Fail
<1>23. CASE erase_block
  BY <1>0, <1>23, FeatureCommands DEF erase_block, Send, Fail
<1>24. CASE erase_end
  BY <1>0, <1>24, FeatureCommands DEF erase_end, Finish, Send, Fail
<1>25. CASE read_next
  BY <1>0, <1>25, QuitEcc, FeatureCommands DEF read_next, ReadPage
<1>26. CASE read_copy
  BY <1>0, <1>26, FeatureCommands DEF read_copy, Finish
<1>27. CASE write_start
  BY <1>0, <1>27, QuitEcc, FeatureCommands DEF write_start, ReadPage
<1>28. CASE write_overlay
  BY <1>0, <1>28, FeatureCommands DEF write_overlay
<1>29. CASE program_load
  BY <1>0, <1>29, FeatureCommands DEF program_load, Send, Fail
<1>30. CASE program_execute
  BY <1>0, <1>30, FeatureCommands DEF program_execute, Send, Fail
<1>31. CASE program_end
  BY <1>0, <1>31, FeatureCommands DEF program_end, Send, Fail
<1>32. CASE write_next
  BY <1>0, <1>32, FeatureCommands DEF write_next
<1>33. CASE verify_next
  BY <1>0, <1>33, QuitEcc, FeatureCommands DEF verify_next, ReadPage
<1>34. CASE verify_compare
  BY <1>0, <1>34, FeatureCommands DEF verify_compare, Finish
<1>35. CASE cleanup
  BY <1>0, <1>35, QuitEcc DEF cleanup
<1>36. CASE sigterm
  BY <1>0, <1>36 DEF sigterm
<1>37. CASE Crash
  BY <1>0, <1>37, QuitEcc, FeatureCommands DEF Crash
<1>38. CASE ChipStep
  BY <1>0, <1>38, FeatureCommands, DieCommands DEF ChipStep
<1>39. CASE UNCHANGED vars
  BY <1>0, <1>39 DEF vars
<1> QED
  BY <1>1, <1>2, <1>3, <1>4, <1>5, <1>6, <1>7, <1>8, <1>9, <1>10, <1>11, <1>12, <1>13, <1>14,
     <1>15, <1>16, <1>17, <1>18, <1>19, <1>20, <1>21, <1>22, <1>23, <1>24, <1>25, <1>26, <1>27,
     <1>28, <1>29, <1>30, <1>31, <1>32, <1>33, <1>34, <1>35, <1>36, <1>37, <1>38, <1>39
     DEF Next, Program

(* identify clears the OTP bit on its way to the exit.                     *)
LEMMA OtpStep == TypeOK /\ BusyChipLeftAlone /\ OperationInv /\ OtpInv /\ [Next]_vars => OtpInv'
<1> SUFFICES ASSUME TypeOK, BusyChipLeftAlone, OperationInv, OtpInv, [Next]_vars PROVE OtpInv'
  OBVIOUS
<1> USE DEF OtpInv, OperationInv, HeadsFor, PageLabels, IdentifyLabels, EraseLabels, ReadLabels,
            WriteLabels, ProgramLabels, VerifyLabels, Goto, callVars, opVars, histVars, otherHist
<1>1. CASE \E r \in Requests : Start(r)
  BY <1>1, FeatureCommands DEF Start
<1>2. CASE spi_nand_probe
  BY <1>2, QuitEcc, FeatureCommands DEF spi_nand_probe
<1>3. CASE ecc_select_die
  BY <1>3, FeatureCommands DEF ecc_select_die, Send, Fail
<1>4. CASE spi_nand_enable_ondie_ecc
  BY <1>4, FeatureCommands DEF spi_nand_enable_ondie_ecc, UpdateFeature, Send, Fail
<1>5. CASE spi_nand_init
  BY <1>5, FeatureCommands DEF spi_nand_init, ReadProtection, Fail
<1>6. CASE do_identify
  BY <1>6, FeatureCommands DEF do_identify
<1>7. CASE do_lock_unlock
  BY <1>7, FeatureCommands DEF do_lock_unlock, Finish
<1>8. CASE do_erase
  BY <1>8, QuitEcc, FeatureCommands DEF do_erase, Finish
<1>9. CASE do_read
  BY <1>9, QuitEcc, FeatureCommands DEF do_read
<1>10. CASE do_write
  BY <1>10, QuitEcc, FeatureCommands DEF do_write, Finish
<1>11. CASE spi_nand_select_die
  <2>1. pc' # "exit"
    BY <1>11 DEF spi_nand_select_die, AfterSelect
  <2> QED
    BY <2>1
<1>12. CASE write_enable
  BY <1>12, FeatureCommands DEF write_enable, AfterWren, Send, Fail
<1>13. CASE poll
  BY <1>13, FeatureCommands DEF poll, AfterPoll, Fail
<1>14. CASE page_read
  BY <1>14, FeatureCommands DEF page_read, Send, Fail
<1>15. CASE check_ecc_status
  BY <1>15, FeatureCommands DEF check_ecc_status, Fail
<1>16. CASE read_from_cache
  <2>1. pc' # "exit"
    BY <1>16 DEF read_from_cache, TypeOK, OperationTypeOK, PageReturns
  <2> QED
    BY <2>1
<1>17. CASE otp_on
  BY <1>17, FeatureCommands DEF otp_on, ReadPage, UpdateFeature, Send, Fail
<1>18. CASE unique_id
  BY <1>18, FeatureCommands DEF unique_id, ReadPage
<1>19. CASE parameter_page
  BY <1>19, FeatureCommands DEF parameter_page
<1>20. CASE otp_off
  <2>1. ~fault' => ~oip
    BY <1>20, FeatureQuiet DEF otp_off, BusyChipLeftAlone
  <2>2. ~fault' => ~otp'
    BY <1>20, <2>1, FeatureEffect DEF otp_off
  <2> QED
    BY <2>2
<1>21. CASE lock_write
  BY <1>21, FeatureCommands DEF lock_write, Send, Fail
<1>22. CASE lock_reread
  BY <1>22, FeatureCommands DEF lock_reread, ReadProtection, Fail
<1>23. CASE erase_block
  BY <1>23, FeatureCommands DEF erase_block, Send, Fail
<1>24. CASE erase_end
  BY <1>24, FeatureCommands DEF erase_end, Finish, Send, Fail
<1>25. CASE read_next
  BY <1>25, QuitEcc, FeatureCommands DEF read_next, ReadPage
<1>26. CASE read_copy
  BY <1>26, FeatureCommands DEF read_copy, Finish
<1>27. CASE write_start
  BY <1>27, QuitEcc, FeatureCommands DEF write_start, ReadPage
<1>28. CASE write_overlay
  BY <1>28, FeatureCommands DEF write_overlay
<1>29. CASE program_load
  BY <1>29, FeatureCommands DEF program_load, Send, Fail
<1>30. CASE program_execute
  BY <1>30, FeatureCommands DEF program_execute, Send, Fail
<1>31. CASE program_end
  BY <1>31, FeatureCommands DEF program_end, Send, Fail
<1>32. CASE write_next
  BY <1>32, FeatureCommands DEF write_next
<1>33. CASE verify_next
  BY <1>33, QuitEcc, FeatureCommands DEF verify_next, ReadPage
<1>34. CASE verify_compare
  BY <1>34, FeatureCommands DEF verify_compare, Finish
<1>35. CASE cleanup
  BY <1>35, QuitEcc DEF cleanup
<1>36. CASE sigterm
  BY <1>36, FeatureCommands DEF sigterm
<1>37. CASE Crash
  BY <1>37, QuitEcc, FeatureCommands DEF Crash
<1>38. CASE ChipStep
  BY <1>38, FeatureCommands DEF ChipStep
<1>39. CASE UNCHANGED vars
  BY <1>39, FeatureCommands DEF vars
<1> QED
  BY <1>1, <1>2, <1>3, <1>4, <1>5, <1>6, <1>7, <1>8, <1>9, <1>10, <1>11, <1>12, <1>13, <1>14,
     <1>15, <1>16, <1>17, <1>18, <1>19, <1>20, <1>21, <1>22, <1>23, <1>24, <1>25, <1>26, <1>27,
     <1>28, <1>29, <1>30, <1>31, <1>32, <1>33, <1>34, <1>35, <1>36, <1>37, <1>38, <1>39
     DEF Next, Program

(* From the end of the initialisation to the end of the process the on-die *)
(* ECC is on in every die, unless --disableecc was given or a transfer     *)
(* failed.  That the code keeps it on for --disableecc too is why EccInv   *)
(* has no such exception.                                                  *)
THEOREM EccCorrect == Spec => []EccOnEveryDie
<1>1. Init => OperationInv /\ EccInv
  BY InitOperation DEF Init, ChipInit, EccInv
<1>2. TypeOK /\ BusyChipLeftAlone /\ OperationInv /\ EccInv /\ [Next]_vars
      => (OperationInv /\ EccInv)'
  BY OperationStep, EccStep
<1>3. EccInv => EccOnEveryDie
  BY DEF EccInv, EccOnEveryDie
<1> QED
  BY <1>1, <1>2, <1>3, NandTypeCorrect, NandBusyChipSafe, PTL DEF Spec

(* identify leaves the part out of OTP mode with its ECC on.               *)
THEOREM IdentifyCorrect == Spec => []IdentifyLeavesOtp
<1>1. Init => OperationInv /\ EccInv /\ OtpInv
  BY InitOperation DEF Init, ChipInit, EccInv, OtpInv
<1>2. TypeOK /\ BusyChipLeftAlone /\ OperationInv /\ EccInv /\ OtpInv /\ [Next]_vars
      => (OperationInv /\ EccInv /\ OtpInv)'
  BY OperationStep, EccStep, OtpStep
<1>3. EccInv /\ OtpInv => IdentifyLeavesOtp
  BY DEF EccInv, OtpInv, IdentifyLeavesOtp
<1> QED
  BY <1>1, <1>2, <1>3, NandTypeCorrect, NandBusyChipSafe, PTL DEF Spec
=============================================================================
