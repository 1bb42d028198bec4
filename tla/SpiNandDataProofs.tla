-------------------------- MODULE SpiNandDataProofs -------------------------
(***************************************************************************)
(* Theorems about SpiNand and the array: what a page read, a program and   *)
(* an erase do to the request's cells, and what the exit status says.  The *)
(* first die of a part with several may be another one than the driver     *)
(* takes it for, so what is proved is about requests beyond it, and about  *)
(* every request of a part with one die.                                   *)
(***************************************************************************)
EXTENDS SpiNandProofs

-----------------------------------------------------------------------------
(* The request's range and the current page.                               *)

(* The range of a request inside the device does not wrap. *)
LEMMA RequestRange ==
  ASSUME TypeOK, InDevice, OpLen > 0
  PROVE  /\ req.addr \in Nat /\ OpLen \in Nat /\ req.addr + OpLen <= DeviceSize
         /\ Asked = {c \in Cell : req.addr <= c /\ c < req.addr + OpLen}
<1>1. /\ req.addr \in Nat /\ req.addr < WordSize
      /\ OpLen \in Nat /\ DeviceSize \in Nat \ {0} /\ WordSize \in Nat \ {0}
      /\ DeviceSize < WordSize
  BY ConstantTypes, OpLenType DEF TypeOK, OperationTypeOK, RequestType, Word
<1>2. \A k \in 0 .. OpLen - 1 : (req.addr + k) % WordSize \in Cell
  BY DEF InDevice, Asked
<1>3. req.addr < DeviceSize
  <2>1. 0 \in 0 .. OpLen - 1 /\ (req.addr + 0) % WordSize = req.addr
    BY <1>1
  <2> QED
    BY <1>1, <1>2, <2>1 DEF Cell
<1>4. ASSUME req.addr + OpLen > DeviceSize PROVE FALSE
  <2>1. DeviceSize - req.addr \in 0 .. OpLen - 1
    BY <1>1, <1>3, <1>4
  <2>2. (req.addr + (DeviceSize - req.addr)) % WordSize = DeviceSize
    BY <1>1, <1>3
  <2> QED
    BY <1>1, <1>2, <2>1, <2>2 DEF Cell
<1>5. req.addr + OpLen <= DeviceSize
  BY <1>1, <1>4
<1>6. \A k \in 0 .. OpLen - 1 : (req.addr + k) % WordSize = req.addr + k
  BY <1>1, <1>5
<1>7. ASSUME NEW c \in Asked PROVE c \in Cell /\ req.addr <= c /\ c < req.addr + OpLen
  <2>1. PICK k \in 0 .. OpLen - 1 : c = req.addr + k
    BY <1>6 DEF Asked
  <2> QED
    BY <1>1, <1>5, <2>1 DEF Cell
<1>8. ASSUME NEW c \in Cell, req.addr <= c, c < req.addr + OpLen PROVE c \in Asked
  <2>1. c - req.addr \in 0 .. OpLen - 1 /\ c = req.addr + (c - req.addr)
    BY <1>1, <1>8 DEF Cell
  <2> QED
    BY <1>6, <2>1 DEF Asked
<1> QED
  BY <1>1, <1>5, <1>7, <1>8

(* The loop offset is inside the range, so the address is one of it.       *)
LEMMA TargetAsked ==
  ASSUME TypeOK, i < OpLen, req.op # "identify"
  PROVE  /\ Target \in Asked
         /\ InDevice => Target = req.addr + i /\ Target \in Cell
<1>1. i \in Nat /\ i \in 0 .. OpLen - 1 /\ OpLen > 0
  BY OpLenType DEF TypeOK, OperationTypeOK
<1>2. Target \in Asked
  BY <1>1 DEF Target, Asked
<1>3. ASSUME InDevice PROVE Target = req.addr + i
  <2>1. req.addr \in Nat /\ req.addr + OpLen <= DeviceSize
    BY <1>1, <1>3, RequestRange
  <2>2. (req.addr + i) % WordSize = req.addr + i
    BY <1>1, <2>1, ConstantTypes, OpLenType
  <2> QED
    BY <2>2 DEF Target
<1> QED
  BY <1>2, <1>3 DEF InDevice

(* The cells of a page that an aligned address starts. *)
LEMMA CurrentPage ==
  ASSUME Aligned, Target \in Cell
  PROVE  /\ Row \in Page /\ Target = Row * PageSize
         /\ \A k \in Column : Target + k \in Cell /\ InPage(Target + k, Row)
         /\ \A c \in Cell : InPage(c, Row) =>
              Target <= c /\ c - Target \in Column /\ c % PageSize = c - Target
<1>1. /\ Row \in Page /\ Target = Row * PageSize /\ Target \in Nat
  BY PageOfCell, ConstantTypes, Layout DEF Aligned, Row, Page
<1>2. ASSUME NEW k \in Column PROVE Target + k \in Cell /\ InPage(Target + k, Row)
  BY <1>1, CellOfPage DEF InPage
<1>3. ASSUME NEW c \in Cell, InPage(c, Row)
      PROVE  Target <= c /\ c - Target \in Column /\ c % PageSize = c - Target
  <2> DEFINE k == c % PageSize
  <2>1. c = Row * PageSize + k /\ k \in Column
    BY <1>3, PageOfCell DEF InPage
  <2> HIDE DEF k
  <2>2. c = Target + k /\ k \in Nat
    BY <1>1, <2>1 DEF Column
  <2> QED
    BY <1>1, <2>1, <2>2 DEF k
<1> QED
  BY <1>1, <1>2, <1>3

(* The cells of a page are in one block. *)
LEMMA BlockOfPage ==
  ASSUME NEW c \in Cell
  PROVE  c \div RegionSize = ((c \div PageSize) * PageSize) \div RegionSize
<1> DEFINE p == c \div PageSize
           R == RegionSize \div PageSize
           t == p \div R
<1>1. c \in Nat /\ p \in Nat /\ c % PageSize \in 0 .. PageSize - 1
      /\ c = p * PageSize + (c % PageSize)
  BY PageOfCell, ConstantTypes, DivMod
<1>2. R \in Nat \ {0} /\ RegionSize = R * PageSize
  BY Layout
<1> HIDE DEF p, R
<1>3. t \in Nat /\ p % R \in 0 .. R - 1 /\ p = t * R + (p % R)
  BY <1>1, <1>2, DivMod
<1> DEFINE x == p % R
           y == c % PageSize
<1>4. x \in Nat /\ x + 1 <= R /\ y \in Nat /\ y + 1 <= PageSize
  BY <1>1, <1>2, <1>3, ConstantTypes
<1> HIDE DEF t, x, y
<1>5. p * PageSize = t * RegionSize + x * PageSize
  <2>1. p = t * R + x
    BY <1>3 DEF x
  <2>2. (t * R) * PageSize = t * (R * PageSize)
    BY <1>2, <1>3, ConstantTypes
  <2>3. p * PageSize = (t * R) * PageSize + x * PageSize
    BY <1>2, <1>3, <1>4, <2>1, ConstantTypes
  <2> QED
    BY <1>2, <2>2, <2>3
<1>6. x * PageSize \in Nat /\ x * PageSize + PageSize <= RegionSize
  <2>1. (x + 1) * PageSize <= R * PageSize
    BY <1>2, <1>4, ConstantTypes, ProductMonotonic
  <2>2. (x + 1) * PageSize = x * PageSize + PageSize /\ x * PageSize \in Nat
    BY <1>4, ConstantTypes
  <2> QED
    BY <1>2, <2>1, <2>2
<1>7. x * PageSize \in 0 .. RegionSize - 1 /\ x * PageSize + y \in 0 .. RegionSize - 1
  BY <1>4, <1>6, ConstantTypes
<1>8. (t * RegionSize + x * PageSize) \div RegionSize = t
  BY <1>3, <1>7, ConstantTypes, QuotientUnique DEF t
<1>9. (t * RegionSize + (x * PageSize + y)) \div RegionSize = t
  BY <1>3, <1>7, ConstantTypes, QuotientUnique DEF t
<1>10. c = t * RegionSize + (x * PageSize + y)
  <2>1. c = p * PageSize + y
    BY <1>1 DEF y
  <2> QED
    BY <1>3, <1>4, <1>5, <1>6, <2>1, ConstantTypes DEF t
<1> QED
  BY <1>5, <1>8, <1>9, <1>10 DEF p

(* A row that is in the die that is selected names its own page.           *)
LEMMA RowHits ==
  ASSUME TypeOK, DieInv, BeyondFirstDie, DieSelect => ~fault, pc \in RowLabels,
         i < OpLen, req.op # "identify", Target \in Cell
  PROVE  PageAt(Row) = Row
<1>1. Target \in Asked
  BY TargetAsked
<1>2. Row \in Page /\ DieOf(Row) \in Die
  BY PageOfCell, RowInDie DEF Row
<1>3. CASE DieSelect
  <2>1. DieOf(Row) # 0
    BY <1>1, <1>3 DEF BeyondFirstDie, Row
  <2>2. die = DieOf(Row)
    BY <1>2, <1>3, <2>1 DEF DieInv
  <2> QED
    BY <1>2, <2>2, RowInDie
<1>4. CASE ~DieSelect
  <2>1. Die = {0}
    BY <1>4, NandAssumption, ConstantTypes DEF Die
  <2>2. die = DieOf(Row)
    BY <1>2, <2>1 DEF TypeOK, ChipTypeOK
  <2> QED
    BY <1>2, <2>2, RowInDie
<1> QED
  BY <1>3, <1>4, NandAssumption

-----------------------------------------------------------------------------
(* What a step leaves alone.                                               *)

(* Only the request and the loop offset decide what the current page is.   *)
LEMMA Kept ==
  /\ UNCHANGED req =>
       /\ (BeyondFirstDie' <=> BeyondFirstDie) /\ (InDevice' <=> InDevice)
       /\ UNCHANGED <<Asked, OpLen>>
  /\ UNCHANGED <<req, i>> =>
       /\ UNCHANGED <<Target, Row, CopySize>>
       /\ (Aligned' <=> Aligned) /\ (Overlays' <=> Overlays)
  /\ UNCHANGED <<req, i, mem>> => UNCHANGED <<Stored, Merged>>
  /\ UNCHANGED Garbled
<1>1. ASSUME UNCHANGED req
      PROVE  /\ (BeyondFirstDie' <=> BeyondFirstDie) /\ (InDevice' <=> InDevice)
             /\ UNCHANGED <<Asked, OpLen>>
  <2>1. UNCHANGED <<Asked, OpLen>>
    BY <1>1 DEF Asked, OpLen
  <2> QED
    BY <1>1, <2>1 DEF InDevice, BeyondFirstDie, DieOf
<1>2. ASSUME UNCHANGED <<req, i>>
      PROVE  /\ UNCHANGED <<Target, Row, CopySize>>
             /\ (Aligned' <=> Aligned) /\ (Overlays' <=> Overlays)
  <2>1. UNCHANGED <<Target, Row, CopySize>>
    BY <1>1, <1>2 DEF Target, Row, CopySize
  <2> QED
    BY <1>2, <2>1 DEF Aligned, Overlays
<1>3. ASSUME UNCHANGED <<req, i, mem>> PROVE UNCHANGED <<Stored, Merged>>
  <2>1. UNCHANGED <<Target, CopySize>>
    BY <1>2, <1>3
  <2> QED
    BY <1>3, <2>1 DEF Stored, Merged, FileCell
<1> QED
  BY <1>1, <1>2, <1>3 DEF Garbled

(* The array changes when a page is programmed or a block erased, the      *)
(* cache register when a page is read or loaded.                           *)
LEMMA DataCommands ==
  /\ ChipWren => UNCHANGED <<mem, cache, eccBits, otp, failBit>> /\ (~oip => wel')
  /\ ChipWrdi => UNCHANGED <<mem, cache, eccBits, otp, failBit>>
  /\ \A d : ChipSelectDie(d) => UNCHANGED <<mem, cache, eccBits, otp, failBit, wel>>
  /\ \A v : ChipSetBp(v) => UNCHANGED <<mem, cache, eccBits, otp, failBit, wel>>
  /\ \A e, o : ChipSetFeature(e, o) => UNCHANGED <<mem, cache, eccBits, failBit, wel>>
  /\ \A content : ChipProgramLoad(content) =>
       UNCHANGED <<mem, eccBits, otp, failBit, wel>> /\ (~oip => cache' = content)
  /\ \A row : ChipPageRead(row) => UNCHANGED <<mem, otp, failBit, wel>>
  /\ \A row : ChipExecute(row) => UNCHANGED <<cache, eccBits, otp, wel>>
  /\ \A row : ChipBlockErase(row) => UNCHANGED <<cache, eccBits, otp, wel>>
  /\ ChipDone => UNCHANGED <<mem, cache, eccBits, otp, failBit>>
  /\ UNCHANGED chipVars => UNCHANGED <<mem, cache, eccBits, otp, failBit, wel>>
  BY DEF ChipWren, ChipWrdi, ChipSetBp, ChipSetFeature, ChipProgramLoad, ChipPageRead,
         ChipExecute, ChipBlockErase, ChipDone, chipVars, ChipSelectDie, Accepted

(* A process that ends leaves the array as it is. *)
LEMMA QuitMem == Quit => UNCHANGED mem
  BY DEF Quit, chipVars

(* Nothing else changes the array. *)
LEMMA MemStep ==
  ASSUME TypeOK, [Next]_vars
  PROVE  UNCHANGED mem \/ erase_block \/ program_execute
<1>0. UNCHANGED chipVars => UNCHANGED mem
  BY DEF chipVars
<1>1. CASE \E r \in Requests : Start(r)
  BY <1>0, <1>1, DataCommands DEF Start
<1>2. CASE spi_nand_probe
  BY <1>0, <1>2, QuitMem DEF spi_nand_probe
<1>3. CASE ecc_select_die
  BY <1>0, <1>3, DataCommands DEF ecc_select_die, Send
<1>4. CASE spi_nand_enable_ondie_ecc
  BY <1>0, <1>4, DataCommands DEF spi_nand_enable_ondie_ecc, UpdateFeature, Send
<1>5. CASE spi_nand_init
  BY <1>0, <1>5, DataCommands DEF spi_nand_init, ReadProtection
<1>6. CASE do_identify
  BY <1>0, <1>6, DataCommands DEF do_identify
<1>7. CASE do_lock_unlock
  BY <1>0, <1>7, DataCommands DEF do_lock_unlock, Finish
<1>8. CASE do_erase
  BY <1>0, <1>8, QuitMem DEF do_erase
<1>9. CASE do_read
  BY <1>0, <1>9, QuitMem DEF do_read
<1>10. CASE do_write
  BY <1>0, <1>10, QuitMem DEF do_write
<1>11. CASE spi_nand_select_die
  BY <1>0, <1>11, DataCommands DEF spi_nand_select_die, Send
<1>12. CASE write_enable
  BY <1>0, <1>12, DataCommands DEF write_enable, Send
<1>13. CASE poll
  BY <1>0, <1>13, DataCommands DEF poll
<1>14. CASE page_read
  BY <1>0, <1>14, DataCommands DEF page_read, Send
<1>15. CASE check_ecc_status
  BY <1>0, <1>15, DataCommands DEF check_ecc_status
<1>16. CASE read_from_cache
  BY <1>0, <1>16, DataCommands DEF read_from_cache
<1>17. CASE otp_on
  BY <1>0, <1>17, DataCommands DEF otp_on, UpdateFeature, Send
<1>18. CASE unique_id
  BY <1>0, <1>18, DataCommands DEF unique_id
<1>19. CASE parameter_page
  BY <1>0, <1>19, DataCommands DEF parameter_page
<1>20. CASE otp_off
  BY <1>0, <1>20, DataCommands DEF otp_off, UpdateFeature, Send
<1>21. CASE lock_write
  BY <1>0, <1>21, DataCommands DEF lock_write, Send
<1>22. CASE lock_reread
  BY <1>0, <1>22, DataCommands DEF lock_reread, ReadProtection
<1>23. CASE erase_block
  BY <1>23 DEF erase_block
<1>24. CASE erase_end
  BY <1>0, <1>24, DataCommands DEF erase_end, Send
<1>25. CASE read_next
  BY <1>0, <1>25, QuitMem DEF read_next
<1>26. CASE read_copy
  BY <1>0, <1>26, DataCommands DEF read_copy
<1>27. CASE write_start
  BY <1>0, <1>27, QuitMem DEF write_start
<1>28. CASE write_overlay
  BY <1>0, <1>28, DataCommands DEF write_overlay
<1>29. CASE program_load
  BY <1>0, <1>29, DataCommands DEF program_load, Send
<1>30. CASE program_execute
  BY <1>30 DEF program_execute
<1>31. CASE program_end
  BY <1>0, <1>31, DataCommands DEF program_end, Send
<1>32. CASE write_next
  BY <1>0, <1>32, DataCommands DEF write_next
<1>33. CASE verify_next
  BY <1>0, <1>33, QuitMem DEF verify_next
<1>34. CASE verify_compare
  BY <1>0, <1>34, DataCommands DEF verify_compare
<1>35. CASE cleanup
  BY <1>0, <1>35, QuitMem DEF cleanup
<1>36. CASE sigterm
  BY <1>0, <1>36, DataCommands DEF sigterm
<1>37. CASE Crash
  BY <1>0, <1>37, QuitMem DEF Crash
<1>38. CASE ChipStep
  BY <1>0, <1>38, DataCommands DEF ChipStep
<1>39. CASE UNCHANGED vars
  BY <1>0, <1>39, DataCommands DEF vars
<1> QED
  BY <1>1, <1>2, <1>3, <1>4, <1>5, <1>6, <1>7, <1>8, <1>9, <1>10, <1>11, <1>12, <1>13, <1>14,
     <1>15, <1>16, <1>17, <1>18, <1>19, <1>20, <1>21, <1>22, <1>23, <1>24, <1>25, <1>26, <1>27,
     <1>28, <1>29, <1>30, <1>31, <1>32, <1>33, <1>34, <1>35, <1>36, <1>37, <1>38, <1>39
     DEF Next, Program

(* Outside identify nothing makes a run undisturbed that was not.          *)
LEMMA SoundStep ==
  ASSUME TypeOK, BusyChipLeftAlone, OperationInv, [Next]_vars
  PROVE  \/ Sound' => Sound
         \/ pc' \in {"idle", "probe"}
         \/ req'.op = "identify"
<1> USE DEF Undisturbed
<1>0. /\ UNCHANGED <<req, otp>> /\ (~fault' => ~fault) => (Sound' => Sound)
      /\ UNCHANGED chipVars => UNCHANGED otp
  BY Kept DEF Sound, chipVars
<1>1. CASE \E r \in Requests : Start(r)
  BY <1>1 DEF Start, Goto
<1>2. CASE spi_nand_probe
  <2>1. CASE pc' = "idle"
    BY <2>1
  <2>2. CASE ~Quit
    <3>1. UNCHANGED <<req, otp>> /\ (~fault' => ~fault)
      BY <1>0, <1>2, <2>2 DEF spi_nand_probe, opVars, histVars
    <3> QED
      BY <1>0, <3>1
  <2> QED
    BY <2>1, <2>2 DEF Quit
<1>3. CASE ecc_select_die
  <2>1. UNCHANGED <<req, otp>> /\ (~fault' => ~fault)
    BY <1>0, <1>3, DataCommands DEF ecc_select_die, Send, Fail, callVars, opVars, histVars,
       otherHist
  <2> QED
    BY <1>0, <2>1
<1>4. CASE spi_nand_enable_ondie_ecc
  <2>1. UNCHANGED req
    BY <1>4 DEF spi_nand_enable_ondie_ecc
  <2>2. ~fault' => ~fault /\ UNCHANGED otp
    <3>1. ~fault' => ~oip
      BY <1>4, FeatureQuiet DEF spi_nand_enable_ondie_ecc, BusyChipLeftAlone
    <3> QED
      BY <1>4, <3>1, FeatureEffect DEF spi_nand_enable_ondie_ecc
  <2> QED
    BY <2>1, <2>2, Kept DEF Sound
<1>5. CASE spi_nand_init
  <2>1. UNCHANGED <<req, otp>> /\ (~fault' => ~fault)
    BY <1>0, <1>5, DataCommands DEF spi_nand_init, ReadProtection, Fail, callVars, opVars,
       histVars, otherHist
  <2> QED
    BY <1>0, <2>1
<1>6. CASE do_identify
  <2>1. UNCHANGED <<req, otp>> /\ (~fault' => ~fault)
    BY <1>0, <1>6, DataCommands DEF do_identify, callVars, opVars, histVars, otherHist
  <2> QED
    BY <1>0, <2>1
<1>7. CASE do_lock_unlock
  <2>1. UNCHANGED <<req, otp>> /\ (~fault' => ~fault)
    BY <1>0, <1>7, DataCommands DEF do_lock_unlock, Finish, callVars, opVars, histVars, otherHist
  <2> QED
    BY <1>0, <2>1
<1>8. CASE do_erase
  <2>1. CASE pc' = "idle"
    BY <2>1
  <2>2. CASE ~Quit
    <3>1. UNCHANGED <<req, otp>> /\ (~fault' => ~fault)
      BY <1>0, <1>8, <2>2 DEF do_erase, Finish, opVars, histVars
    <3> QED
      BY <1>0, <3>1
  <2> QED
    BY <2>1, <2>2 DEF Quit
<1>9. CASE do_read
  <2>1. CASE pc' = "idle"
    BY <2>1
  <2>2. CASE ~Quit
    <3>1. UNCHANGED <<req, otp>> /\ (~fault' => ~fault)
      BY <1>0, <1>9, <2>2 DEF do_read, opVars, histVars
    <3> QED
      BY <1>0, <3>1
  <2> QED
    BY <2>1, <2>2 DEF Quit
<1>10. CASE do_write
  <2>1. CASE pc' = "idle"
    BY <2>1
  <2>2. CASE ~Quit
    <3>1. UNCHANGED <<req, otp>> /\ (~fault' => ~fault)
      BY <1>0, <1>10, <2>2 DEF do_write, Finish, opVars, histVars
    <3> QED
      BY <1>0, <3>1
  <2> QED
    BY <2>1, <2>2 DEF Quit
<1>11. CASE spi_nand_select_die
  <2>1. UNCHANGED <<req, otp>> /\ (~fault' => ~fault)
    BY <1>0, <1>11, DataCommands DEF spi_nand_select_die, Send, Fail, callVars, opVars, histVars,
       otherHist
  <2> QED
    BY <1>0, <2>1
<1>12. CASE write_enable
  <2>1. UNCHANGED <<req, otp>> /\ (~fault' => ~fault)
    BY <1>0, <1>12, DataCommands DEF write_enable, Send, Fail, callVars, opVars, histVars, otherHist
  <2> QED
    BY <1>0, <2>1
<1>13. CASE poll
  <2>1. UNCHANGED <<req, otp>> /\ (~fault' => ~fault)
    BY <1>0, <1>13, DataCommands DEF poll, Fail, callVars, opVars, histVars, otherHist
  <2> QED
    BY <1>0, <2>1
<1>14. CASE page_read
  <2>1. UNCHANGED <<req, otp>> /\ (~fault' => ~fault)
    BY <1>0, <1>14, DataCommands DEF page_read, Send, Fail, callVars, opVars, histVars, otherHist
  <2> QED
    BY <1>0, <2>1
<1>15. CASE check_ecc_status
  <2>1. UNCHANGED <<req, otp>> /\ (~fault' => ~fault)
    BY <1>0, <1>15, DataCommands DEF check_ecc_status, Fail, callVars, opVars, histVars, otherHist
  <2> QED
    BY <1>0, <2>1
<1>16. CASE read_from_cache
  <2>1. UNCHANGED <<req, otp>> /\ (~fault' => ~fault)
    BY <1>0, <1>16, DataCommands DEF read_from_cache, Fail, callVars, opVars, histVars, otherHist
  <2> QED
    BY <1>0, <2>1
<1>17. CASE otp_on
  BY <1>17 DEF otp_on, OperationInv, HeadsFor, IdentifyLabels, opVars
<1>18. CASE unique_id
  <2>1. UNCHANGED <<req, otp>> /\ (~fault' => ~fault)
    BY <1>0, <1>18, DataCommands DEF unique_id, ReadPage, callVars, opVars, histVars, otherHist
  <2> QED
    BY <1>0, <2>1
<1>19. CASE parameter_page
  <2>1. UNCHANGED <<req, otp>> /\ (~fault' => ~fault)
    BY <1>0, <1>19, DataCommands DEF parameter_page, callVars, opVars, histVars, otherHist
  <2> QED
    BY <1>0, <2>1
<1>20. CASE otp_off
  BY <1>20 DEF otp_off, OperationInv, HeadsFor, IdentifyLabels, opVars
<1>21. CASE lock_write
  <2>1. UNCHANGED <<req, otp>> /\ (~fault' => ~fault)
    BY <1>0, <1>21, DataCommands DEF lock_write, Send, Fail, callVars, opVars, histVars, otherHist
  <2> QED
    BY <1>0, <2>1
<1>22. CASE lock_reread
  <2>1. UNCHANGED <<req, otp>> /\ (~fault' => ~fault)
    BY <1>0, <1>22, DataCommands DEF lock_reread, ReadProtection, Fail, callVars, opVars,
       histVars, otherHist
  <2> QED
    BY <1>0, <2>1
<1>23. CASE erase_block
  <2>1. UNCHANGED <<req, otp>> /\ (~fault' => ~fault)
    BY <1>0, <1>23, DataCommands DEF erase_block, Send, Fail, callVars, opVars, histVars, otherHist
  <2> QED
    BY <1>0, <2>1
<1>24. CASE erase_end
  <2>1. UNCHANGED <<req, otp>> /\ (~fault' => ~fault)
    BY <1>0, <1>24, DataCommands DEF erase_end, Finish, Send, Fail, callVars, opVars, histVars,
       otherHist
  <2> QED
    BY <1>0, <2>1
<1>25. CASE read_next
  <2>1. CASE pc' = "idle"
    BY <2>1
  <2>2. CASE ~Quit
    <3>1. UNCHANGED <<req, otp>> /\ (~fault' => ~fault)
      BY <1>0, <1>25, <2>2 DEF read_next, opVars, histVars
    <3> QED
      BY <1>0, <3>1
  <2> QED
    BY <2>1, <2>2 DEF Quit
<1>26. CASE read_copy
  <2>1. UNCHANGED <<req, otp>> /\ (~fault' => ~fault)
    BY <1>0, <1>26, DataCommands DEF read_copy, Finish, callVars, opVars, histVars, otherHist
  <2> QED
    BY <1>0, <2>1
<1>27. CASE write_start
  <2>1. CASE pc' = "idle"
    BY <2>1
  <2>2. CASE ~Quit
    <3>1. UNCHANGED <<req, otp>> /\ (~fault' => ~fault)
      BY <1>0, <1>27, <2>2 DEF write_start, opVars, histVars
    <3> QED
      BY <1>0, <3>1
  <2> QED
    BY <2>1, <2>2 DEF Quit
<1>28. CASE write_overlay
  <2>1. UNCHANGED <<req, otp>> /\ (~fault' => ~fault)
    BY <1>0, <1>28, DataCommands DEF write_overlay, callVars, opVars, histVars, otherHist
  <2> QED
    BY <1>0, <2>1
<1>29. CASE program_load
  <2>1. UNCHANGED <<req, otp>> /\ (~fault' => ~fault)
    BY <1>0, <1>29, DataCommands DEF program_load, Send, Fail, callVars, opVars, histVars, otherHist
  <2> QED
    BY <1>0, <2>1
<1>30. CASE program_execute
  <2>1. UNCHANGED <<req, otp>> /\ (~fault' => ~fault)
    BY <1>0, <1>30, DataCommands DEF program_execute, Send, Fail, callVars, opVars, histVars,
       otherHist
  <2> QED
    BY <1>0, <2>1
<1>31. CASE program_end
  <2>1. UNCHANGED <<req, otp>> /\ (~fault' => ~fault)
    BY <1>0, <1>31, DataCommands DEF program_end, Send, Fail, callVars, opVars, histVars, otherHist
  <2> QED
    BY <1>0, <2>1
<1>32. CASE write_next
  <2>1. UNCHANGED <<req, otp>> /\ (~fault' => ~fault)
    BY <1>0, <1>32, DataCommands DEF write_next, callVars, opVars, histVars, otherHist
  <2> QED
    BY <1>0, <2>1
<1>33. CASE verify_next
  <2>1. CASE pc' = "idle"
    BY <2>1
  <2>2. CASE ~Quit
    <3>1. UNCHANGED <<req, otp>> /\ (~fault' => ~fault)
      BY <1>0, <1>33, <2>2 DEF verify_next, opVars, histVars
    <3> QED
      BY <1>0, <3>1
  <2> QED
    BY <2>1, <2>2 DEF Quit
<1>34. CASE verify_compare
  <2>1. UNCHANGED <<req, otp>> /\ (~fault' => ~fault)
    BY <1>0, <1>34, DataCommands DEF verify_compare, Finish, callVars, opVars, histVars, otherHist
  <2> QED
    BY <1>0, <2>1
<1>35. CASE cleanup
  BY <1>35 DEF cleanup, Quit
<1>36. CASE sigterm
  <2>1. UNCHANGED <<req, otp>> /\ (~fault' => ~fault)
    BY <1>0, <1>36, DataCommands DEF sigterm, callVars, opVars, histVars, otherHist
  <2> QED
    BY <1>0, <2>1
<1>37. CASE Crash
  BY <1>37 DEF Crash, Quit
<1>38. CASE ChipStep
  <2>1. UNCHANGED <<req, otp>> /\ (~fault' => ~fault)
    BY <1>0, <1>38, DataCommands DEF ChipStep, callVars, opVars, histVars, otherHist
  <2> QED
    BY <1>0, <2>1
<1>39. CASE UNCHANGED vars
  <2>1. UNCHANGED <<req, otp>> /\ (~fault' => ~fault)
    BY <1>0, <1>39, DataCommands DEF vars, callVars, opVars, histVars, otherHist
  <2> QED
    BY <1>0, <2>1
<1> QED
  BY <1>1, <1>2, <1>3, <1>4, <1>5, <1>6, <1>7, <1>8, <1>9, <1>10, <1>11, <1>12, <1>13, <1>14,
     <1>15, <1>16, <1>17, <1>18, <1>19, <1>20, <1>21, <1>22, <1>23, <1>24, <1>25, <1>26, <1>27,
     <1>28, <1>29, <1>30, <1>31, <1>32, <1>33, <1>34, <1>35, <1>36, <1>37, <1>38, <1>39
     DEF Next, Program

-----------------------------------------------------------------------------
(* Pages in the range.                                                     *)

(* A process that ends is at no page. *)
LEMMA QuitPage == Quit => PageInv'
  BY DEF Quit, PageInv, HeadsFor, PageLabels, ProgramLabels, VerifyLabels

(* Every loop is left when the range is used up.                           *)
LEMMA PageStep == TypeOK /\ OperationInv /\ EccInv /\ PageInv /\ [Next]_vars => PageInv'
<1> SUFFICES ASSUME TypeOK, OperationInv, EccInv, PageInv, [Next]_vars PROVE PageInv'
  OBVIOUS
<1> USE DEF PageInv, HeadsFor, PageLabels, ProgramLabels, VerifyLabels, Goto, callVars, opVars,
            histVars, otherHist
<1>0. /\ OpLen \in Nat /\ i \in Nat /\ PageSize \in Nat \ {0}
      /\ UNCHANGED req => UNCHANGED OpLen
      /\ UNCHANGED <<req, i>> => (Aligned' <=> Aligned)
  BY Kept, OpLenType, ConstantTypes DEF TypeOK, OperationTypeOK
<1>1. CASE \E r \in Requests : Start(r)
  BY <1>0, <1>1 DEF Start
<1>2. CASE spi_nand_probe
  BY <1>0, <1>2, QuitPage DEF spi_nand_probe
<1>3. CASE ecc_select_die
  BY <1>0, <1>3 DEF ecc_select_die
<1>4. CASE spi_nand_enable_ondie_ecc
  BY <1>0, <1>4 DEF spi_nand_enable_ondie_ecc
<1>5. CASE spi_nand_init
  BY <1>0, <1>5 DEF spi_nand_init
<1>6. CASE do_identify
  BY <1>0, <1>6 DEF do_identify
<1>7. CASE do_lock_unlock
  BY <1>0, <1>7 DEF do_lock_unlock, Finish
<1>8. CASE do_erase
  BY <1>0, <1>8, QuitPage DEF do_erase, Finish
<1>9. CASE do_read
  BY <1>0, <1>9, QuitPage DEF do_read, EccInv
<1>10. CASE do_write
  BY <1>0, <1>10, QuitPage DEF do_write, Finish, EccInv
<1>11. CASE spi_nand_select_die
  BY <1>0, <1>11 DEF spi_nand_select_die, AfterSelect
<1>12. CASE write_enable
  BY <1>0, <1>12 DEF write_enable, AfterWren
<1>13. CASE poll
  BY <1>0, <1>13 DEF poll, AfterPoll
<1>14. CASE page_read
  BY <1>0, <1>14 DEF page_read
<1>15. CASE check_ecc_status
  BY <1>0, <1>15 DEF check_ecc_status
<1>16. CASE read_from_cache
  BY <1>0, <1>16 DEF read_from_cache, TypeOK, OperationTypeOK, PageReturns
<1>17. CASE otp_on
  BY <1>0, <1>17 DEF otp_on, ReadPage
<1>18. CASE unique_id
  BY <1>0, <1>18 DEF unique_id, ReadPage
<1>19. CASE parameter_page
  BY <1>0, <1>19 DEF parameter_page
<1>20. CASE otp_off
  BY <1>0, <1>20 DEF otp_off
<1>21. CASE lock_write
  BY <1>0, <1>21 DEF lock_write
<1>22. CASE lock_reread
  BY <1>0, <1>22 DEF lock_reread
<1>23. CASE erase_block
  BY <1>0, <1>23 DEF erase_block
<1>24. CASE erase_end
  BY <1>0, <1>24 DEF erase_end, Finish
<1>25. CASE read_next
  BY <1>0, <1>25, QuitPage DEF read_next, ReadPage
<1>26. CASE read_copy
  BY <1>0, <1>26 DEF read_copy, Finish
<1>27. CASE write_start
  BY <1>0, <1>27, QuitPage DEF write_start, ReadPage
<1>28. CASE write_overlay
  BY <1>0, <1>28 DEF write_overlay
<1>29. CASE program_load
  BY <1>0, <1>29 DEF program_load
<1>30. CASE program_execute
  BY <1>0, <1>30 DEF program_execute
<1>31. CASE program_end
  BY <1>0, <1>31 DEF program_end
<1>32. CASE write_next
  BY <1>0, <1>32 DEF write_next, Written, CopySize
<1>33. CASE verify_next
  BY <1>0, <1>33, QuitPage DEF verify_next, ReadPage
<1>34. CASE verify_compare
  BY <1>0, <1>34 DEF verify_compare, Finish
<1>35. CASE cleanup
  BY <1>0, <1>35, QuitPage DEF cleanup
<1>36. CASE sigterm
  BY <1>0, <1>36 DEF sigterm
<1>37. CASE Crash
  BY <1>0, <1>37, QuitPage DEF Crash
<1>38. CASE ChipStep
  BY <1>0, <1>38 DEF ChipStep
<1>39. CASE UNCHANGED vars
  BY <1>0, <1>39 DEF vars
<1> QED
  BY <1>1, <1>2, <1>3, <1>4, <1>5, <1>6, <1>7, <1>8, <1>9, <1>10, <1>11, <1>12, <1>13, <1>14,
     <1>15, <1>16, <1>17, <1>18, <1>19, <1>20, <1>21, <1>22, <1>23, <1>24, <1>25, <1>26, <1>27,
     <1>28, <1>29, <1>30, <1>31, <1>32, <1>33, <1>34, <1>35, <1>36, <1>37, <1>38, <1>39
     DEF Next, Program

-----------------------------------------------------------------------------
(* From the array to the buffer.                                           *)

(* A process that ends reads no page. *)
LEMMA QuitLoad == Quit => LoadInv'
  BY DEF Quit, LoadInv, HeadsFor, PageLabels, PageUsers

(* PAGE READ of the current row puts the page's cells into the cache       *)
(* register, or reports that it could not.                                 *)
LEMMA PageReadLoads ==
  ASSUME TypeOK, DieInv, BeyondFirstDie, ~fault, ~otp, ~oip, pc \in RowLabels,
         i < OpLen, req.op # "identify", Aligned, Target \in Cell, ChipPageRead(Row)
  PROVE  cache'.data = Stored \/ (eccBits' = "uncorrectable" /\ cache'.data = Garbled)
<1>1. PageAt(Row) = Row
  BY RowHits
<1>2. Row * PageSize = Target
  BY CurrentPage
<1> DEFINE stored == [data |-> [k \in Column |-> mem[(PageAt(Row) * PageSize) + k]],
                      oob |-> oob[PageAt(Row)]]
           other  == [data |-> [k \in Column |-> Bad], oob |-> "ff"]
<1>3. stored.data = Stored
  BY <1>1, <1>2 DEF Stored
<1>4. other.data = Garbled
  BY DEF Garbled
<1>5. cache' = stored \/ (eccBits' = "uncorrectable" /\ cache' = other)
  BY DEF ChipPageRead
<1> QED
  BY <1>3, <1>4, <1>5

(* What is read is handed on unchanged, through spi_nand_read_page.        *)
LEMMA LoadStep ==
  TypeOK /\ BusyChipLeftAlone /\ OperationInv /\ DieInv /\ PageInv /\ LoadInv /\ [Next]_vars
    => LoadInv'
<1> SUFFICES ASSUME TypeOK, BusyChipLeftAlone, OperationInv, DieInv, PageInv, LoadInv, [Next]_vars
             PROVE LoadInv'
  OBVIOUS
<1> USE DEF LoadInv, PageUsers, HeadsFor, PageLabels, Goto, callVars, opVars, histVars, otherHist
<1>a. OperationInv' /\ ((Sound' => Sound) \/ pc' \in {"idle", "probe"} \/ req'.op = "identify")
  BY SoundStep, OperationStep
<1>b. HeadsFor(PageUsers)' => req'.op # "identify" /\ pc' \notin {"idle", "probe"}
  BY <1>a DEF OperationInv, ReadLabels, WriteLabels, VerifyLabels
<1>0. /\ HeadsFor(PageUsers)' => req'.op # "identify"
      /\ Sound' /\ HeadsFor(PageUsers)' => Sound /\ ~fault /\ ~otp /\ ~fault'
      /\ UNCHANGED <<req, i>> => UNCHANGED Target /\ (Overlays' <=> Overlays)
      /\ UNCHANGED <<req, i, mem>> => UNCHANGED Stored
      /\ UNCHANGED Garbled
  BY <1>a, <1>b, Kept DEF Sound, Undisturbed
<1>1. CASE \E r \in Requests : Start(r)
  BY <1>1 DEF Start
<1>2. CASE spi_nand_probe
  BY <1>2, QuitLoad DEF spi_nand_probe
<1>3. CASE ecc_select_die
  BY <1>3 DEF ecc_select_die
<1>4. CASE spi_nand_enable_ondie_ecc
  BY <1>4 DEF spi_nand_enable_ondie_ecc
<1>5. CASE spi_nand_init
  BY <1>5 DEF spi_nand_init
<1>6. CASE do_identify
  BY <1>6 DEF do_identify
<1>7. CASE do_lock_unlock
  BY <1>7 DEF do_lock_unlock, Finish
<1>8. CASE do_erase
  BY <1>8, QuitLoad DEF do_erase, Finish
<1>9. CASE do_read
  BY <1>9, QuitLoad DEF do_read
<1>10. CASE do_write
  BY <1>10, QuitLoad DEF do_write, Finish
<1>11. CASE spi_nand_select_die
  BY <1>11 DEF spi_nand_select_die, AfterSelect
<1>12. CASE write_enable
  BY <1>12 DEF write_enable, AfterWren
<1>13. CASE poll
  <2>1. UNCHANGED <<pageRet, req, i, mem, cache, eccBits, buf, uncorrectable>>
    BY <1>13 DEF poll, callVars, opVars, histVars, otherHist, chipVars
  <2>2. pc' = pc \/ (pc = "rp_poll" /\ pc' = "rp_ecc") \/ pc' \in {"er_wrdi", "wr_wrdi"}
    BY <1>13 DEF poll, AfterPoll
  <2> QED
    BY <1>0, <2>1, <2>2
<1>14. CASE page_read
  <2> SUFFICES ASSUME Sound', (Target \in Cell)', HeadsFor(PageUsers)'
               PROVE  (cache.data = Stored \/ (eccBits = "uncorrectable" /\ cache.data = Garbled))'
    BY <1>14 DEF page_read
  <2>1. UNCHANGED <<req, i, pageRet>> /\ pc = "rp_load" /\ pageRet \in PageUsers
    BY <1>14 DEF page_read
  <2>2. ~fault /\ ~otp /\ ~fault' /\ BeyondFirstDie
    BY <1>0 DEF Sound
  <2>3. ~oip
    BY <2>1, <2>2 DEF BusyChipLeftAlone
  <2>4. ChipPageRead(Row)
    BY <1>14, <2>2 DEF page_read, Send, Fail
  <2>5. i < OpLen /\ Aligned /\ Target \in Cell /\ req.op # "identify"
    BY <1>0, <2>1 DEF PageInv, ProgramLabels, VerifyLabels
  <2>6. UNCHANGED mem
    BY <2>4, DataCommands
  <2>7. cache'.data = Stored \/ (eccBits' = "uncorrectable" /\ cache'.data = Garbled)
    BY <2>1, <2>2, <2>3, <2>4, <2>5, PageReadLoads DEF RowLabels
  <2> QED
    BY <1>0, <2>1, <2>6, <2>7
<1>15. CASE check_ecc_status
  <2>1. /\ UNCHANGED <<pageRet, req, i, mem, cache, eccBits, buf>>
        /\ uncorrectable' = (uncorrectable \/ eccBits = "uncorrectable")
        /\ pc = "rp_ecc" /\ pc' = "rp_cache"
    BY <1>15 DEF check_ecc_status, opVars, chipVars
  <2> QED
    BY <1>0, <2>1
<1>16. CASE read_from_cache
  <2> SUFFICES ASSUME Sound', (Target \in Cell)', HeadsFor(PageUsers)'
               PROVE  (buf.data = Stored \/ (uncorrectable /\ buf.data = Garbled))'
    BY <1>16 DEF read_from_cache
  <2>1. UNCHANGED <<pageRet, req, i, mem, uncorrectable>> /\ pc = "rp_cache"
       /\ pageRet \in PageUsers
    BY <1>16 DEF read_from_cache, opVars, chipVars
  <2>2. buf'.data = cache.data
    BY <1>0, <1>16 DEF read_from_cache, Fail
  <2> QED
    BY <1>0, <2>1, <2>2
<1>17. CASE otp_on
  BY <1>17 DEF otp_on, ReadPage
<1>18. CASE unique_id
  BY <1>18 DEF unique_id, ReadPage
<1>19. CASE parameter_page
  BY <1>19 DEF parameter_page
<1>20. CASE otp_off
  BY <1>20 DEF otp_off
<1>21. CASE lock_write
  BY <1>21 DEF lock_write
<1>22. CASE lock_reread
  BY <1>22 DEF lock_reread
<1>23. CASE erase_block
  BY <1>23 DEF erase_block
<1>24. CASE erase_end
  BY <1>24 DEF erase_end, Finish
<1>25. CASE read_next
  BY <1>25, QuitLoad DEF read_next, ReadPage
<1>26. CASE read_copy
  BY <1>26 DEF read_copy, Finish
<1>27. CASE write_start
  <2>1. \/ pc' \in {"idle", "wr_next", "rp_select"}
        \/ UNCHANGED <<req, i>> /\ pc' = "wr_overlay" /\ ~Overlays
    BY <1>27, QuitLoad DEF write_start, ReadPage, Quit, opVars
  <2> QED
    BY <1>0, <2>1
<1>28. CASE write_overlay
  BY <1>28 DEF write_overlay
<1>29. CASE program_load
  BY <1>29 DEF program_load
<1>30. CASE program_execute
  BY <1>30 DEF program_execute
<1>31. CASE program_end
  BY <1>31 DEF program_end
<1>32. CASE write_next
  BY <1>32 DEF write_next
<1>33. CASE verify_next
  BY <1>33, QuitLoad DEF verify_next, ReadPage
<1>34. CASE verify_compare
  BY <1>34 DEF verify_compare, Finish
<1>35. CASE cleanup
  BY <1>35, QuitLoad DEF cleanup
<1>36. CASE sigterm
  <2>1. UNCHANGED <<pc, pageRet, req, i, mem, cache, eccBits, buf, uncorrectable>>
    BY <1>36 DEF sigterm, callVars, opVars, histVars, otherHist, chipVars
  <2> QED
    BY <1>0, <2>1
<1>37. CASE Crash
  BY <1>37, QuitLoad DEF Crash
<1>38. CASE ChipStep
  <2>1. UNCHANGED <<pc, pageRet, req, i, mem, cache, eccBits, buf, uncorrectable>>
    BY <1>38, DataCommands DEF ChipStep, callVars, opVars, histVars, otherHist, chipVars
  <2> QED
    BY <1>0, <2>1
<1>39. CASE UNCHANGED vars
  <2>1. UNCHANGED <<pc, pageRet, req, i, mem, cache, eccBits, buf, uncorrectable>>
    BY <1>39 DEF vars, callVars, opVars, histVars, otherHist, chipVars
  <2> QED
    BY <1>0, <2>1
<1> QED
  BY <1>1, <1>2, <1>3, <1>4, <1>5, <1>6, <1>7, <1>8, <1>9, <1>10, <1>11, <1>12, <1>13, <1>14,
     <1>15, <1>16, <1>17, <1>18, <1>19, <1>20, <1>21, <1>22, <1>23, <1>24, <1>25, <1>26, <1>27,
     <1>28, <1>29, <1>30, <1>31, <1>32, <1>33, <1>34, <1>35, <1>36, <1>37, <1>38, <1>39
     DEF Next, Program

-----------------------------------------------------------------------------
(* From the buffer to the cache register.                                  *)

(* A process that ends programs no page. *)
LEMMA QuitProgram == Quit => ProgramInv'
  BY DEF Quit, ProgramInv, ProgramLabels

(* Laying the file over the page that was read gives the page to program.  *)
LEMMA OverlayMerges ==
  ASSUME TypeOK, LoadInv, Sound, Target \in Cell, write_overlay, ~uncorrectable
  PROVE  buf'.data = Merged
<1> DEFINE new == [k \in Column |-> IF k < CopySize THEN FileCell(k) ELSE buf.data[k]]
<1>1. buf'.data = new
  BY DEF write_overlay, TypeOK, OperationTypeOK, Content
<1>2. CASE Overlays
  <2>1. buf.data = Stored
    BY <1>2 DEF LoadInv, write_overlay, HeadsFor, PageUsers
  <2> QED
    BY <1>1, <2>1 DEF Merged, Stored
<1>3. CASE ~Overlays
  <2>1. \A k \in Column : k < CopySize
    BY <1>3, ConstantTypes, OpLenType DEF Overlays, Column, CopySize, TypeOK, OperationTypeOK
  <2> QED
    BY <1>1, <2>1 DEF Merged
<1> QED
  BY <1>2, <1>3

(* The page that was merged is the one that is executed. *)
LEMMA ProgramStep ==
  TypeOK /\ BusyChipLeftAlone /\ OperationInv /\ LoadInv /\ ProgramInv /\ [Next]_vars => ProgramInv'
<1> SUFFICES ASSUME TypeOK, BusyChipLeftAlone, OperationInv, LoadInv, ProgramInv, [Next]_vars
             PROVE ProgramInv'
  OBVIOUS
<1> USE DEF ProgramInv, ProgramLabels, Goto, callVars, opVars, histVars, otherHist
<1>a. OperationInv' /\ ((Sound' => Sound) \/ pc' \in {"idle", "probe"} \/ req'.op = "identify")
  BY SoundStep, OperationStep
<1>b. pc' \in ProgramLabels => req'.op = "write"
  BY <1>a DEF OperationInv, WriteLabels, HeadsFor
<1>0. /\ Sound' /\ pc' \in ProgramLabels => Sound /\ ~fault /\ ~fault'
      /\ UNCHANGED <<req, i>> => UNCHANGED Target
      /\ UNCHANGED <<req, i, mem>> => UNCHANGED Merged
  BY <1>a, <1>b, Kept DEF Sound, Undisturbed
<1>1. CASE \E r \in Requests : Start(r)
  BY <1>1 DEF Start
<1>2. CASE spi_nand_probe
  BY <1>2, QuitProgram DEF spi_nand_probe
<1>3. CASE ecc_select_die
  BY <1>3 DEF ecc_select_die
<1>4. CASE spi_nand_enable_ondie_ecc
  BY <1>4 DEF spi_nand_enable_ondie_ecc
<1>5. CASE spi_nand_init
  BY <1>5 DEF spi_nand_init
<1>6. CASE do_identify
  BY <1>6 DEF do_identify
<1>7. CASE do_lock_unlock
  BY <1>7 DEF do_lock_unlock, Finish
<1>8. CASE do_erase
  BY <1>8, QuitProgram DEF do_erase, Finish
<1>9. CASE do_read
  BY <1>9, QuitProgram DEF do_read
<1>10. CASE do_write
  BY <1>10, QuitProgram DEF do_write, Finish
<1>11. CASE spi_nand_select_die
  <2>1. UNCHANGED <<req, i, mem, buf, uncorrectable>>
    BY <1>11, DataCommands DEF spi_nand_select_die, opVars, Send, chipVars
  <2>2. pc' \in ProgramLabels
         => pc = "wr_select" /\ ~(pc' = "wr_exec" \/ (pc' = "wr_wren" /\ WeAfter))
    BY <1>11 DEF spi_nand_select_die, AfterSelect
  <2> QED
    BY <1>0, <2>1, <2>2
<1>12. CASE write_enable
  <2>1. UNCHANGED <<req, i, mem, buf, cache, uncorrectable>>
    BY <1>12, DataCommands DEF write_enable, opVars, Send, chipVars
  <2>2. \/ pc = "er_wren" /\ pc' = "er_cmd"
        \/ pc = "wr_wren" /\ WeAfter /\ pc' = "wr_exec"
        \/ pc = "wr_wren" /\ pc' = "wr_load"
    BY <1>12 DEF write_enable, AfterWren
  <2> QED
    BY <1>0, <2>1, <2>2
<1>13. CASE poll
  BY <1>13 DEF poll, AfterPoll
<1>14. CASE page_read
  BY <1>14 DEF page_read
<1>15. CASE check_ecc_status
  BY <1>15 DEF check_ecc_status
<1>16. CASE read_from_cache
  BY <1>16 DEF read_from_cache, TypeOK, OperationTypeOK, PageReturns
<1>17. CASE otp_on
  BY <1>17 DEF otp_on, ReadPage
<1>18. CASE unique_id
  BY <1>18 DEF unique_id, ReadPage
<1>19. CASE parameter_page
  BY <1>19 DEF parameter_page
<1>20. CASE otp_off
  BY <1>20 DEF otp_off
<1>21. CASE lock_write
  BY <1>21 DEF lock_write
<1>22. CASE lock_reread
  BY <1>22 DEF lock_reread
<1>23. CASE erase_block
  BY <1>23 DEF erase_block
<1>24. CASE erase_end
  BY <1>24 DEF erase_end, Finish
<1>25. CASE read_next
  BY <1>25, QuitProgram DEF read_next, ReadPage
<1>26. CASE read_copy
  BY <1>26 DEF read_copy, Finish
<1>27. CASE write_start
  BY <1>27, QuitProgram DEF write_start, ReadPage
<1>28. CASE write_overlay
  <2>1. UNCHANGED <<req, i, mem, uncorrectable>> /\ pc' = "wr_select"
    BY <1>28 DEF write_overlay, opVars, chipVars, histVars, otherHist
  <2>2. Sound' /\ (Target \in Cell)' => buf'.data = Merged \/ uncorrectable
    BY <1>0, <1>28, <2>1, OverlayMerges
  <2> QED
    BY <1>0, <2>1, <2>2
<1>29. CASE program_load
  <2>1. UNCHANGED <<req, i, mem, buf, uncorrectable>> /\ pc = "wr_load" /\ pc' \in ProgramLabels
    BY <1>29, DataCommands DEF program_load, opVars, Send, chipVars
  <2>2. Sound' => cache' = buf
    <3>1. Sound' => ChipProgramLoad(buf) /\ ~oip
      BY <1>0, <1>29, <2>1 DEF program_load, Send, Fail, BusyChipLeftAlone
    <3> QED
      BY <3>1, DataCommands
  <2> QED
    BY <1>0, <2>1, <2>2
<1>30. CASE program_execute
  BY <1>30 DEF program_execute
<1>31. CASE program_end
  BY <1>31 DEF program_end
<1>32. CASE write_next
  BY <1>32 DEF write_next
<1>33. CASE verify_next
  BY <1>33, QuitProgram DEF verify_next, ReadPage
<1>34. CASE verify_compare
  BY <1>34 DEF verify_compare, Finish
<1>35. CASE cleanup
  BY <1>35, QuitProgram DEF cleanup
<1>36. CASE sigterm
  <2>1. UNCHANGED <<pc, req, i, mem, cache, buf, uncorrectable>>
    BY <1>36 DEF sigterm, callVars, opVars, histVars, otherHist, chipVars
  <2> QED
    BY <1>0, <2>1
<1>37. CASE Crash
  BY <1>37, QuitProgram DEF Crash
<1>38. CASE ChipStep
  <2>1. UNCHANGED <<pc, req, i, mem, cache, buf, uncorrectable>>
    BY <1>38, DataCommands DEF ChipStep, callVars, opVars, histVars, otherHist, chipVars
  <2> QED
    BY <1>0, <2>1
<1>39. CASE UNCHANGED vars
  <2>1. UNCHANGED <<pc, req, i, mem, cache, buf, uncorrectable>>
    BY <1>39 DEF vars, callVars, opVars, histVars, otherHist, chipVars
  <2> QED
    BY <1>0, <2>1
<1> QED
  BY <1>1, <1>2, <1>3, <1>4, <1>5, <1>6, <1>7, <1>8, <1>9, <1>10, <1>11, <1>12, <1>13, <1>14,
     <1>15, <1>16, <1>17, <1>18, <1>19, <1>20, <1>21, <1>22, <1>23, <1>24, <1>25, <1>26, <1>27,
     <1>28, <1>29, <1>30, <1>31, <1>32, <1>33, <1>34, <1>35, <1>36, <1>37, <1>38, <1>39
     DEF Next, Program

-----------------------------------------------------------------------------
(* What a read delivers.                                                   *)

(* A process that ends has delivered nothing. *)
LEMMA QuitRead == Quit => ReadInv'
  BY DEF Quit, ReadInv

(* A page that was read without an uncorrectable error is the array's.     *)
LEMMA CopyFaithful ==
  ASSUME TypeOK, PageInv, LoadInv, Sound, ~uncorrectable, pc = "rd_copy",
         NEW k \in 0 .. CopySize - 1, Target + k \in Cell
  PROVE  buf.data[k] = mem[Target + k]
<1>1. Target \in Cell /\ k \in Column
  <2>1. Target \in Nat /\ OpLen \in Nat /\ i \in Nat
    BY TargetType, OpLenType DEF TypeOK, OperationTypeOK
  <2>2. CopySize \in Int /\ CopySize <= PageSize
    BY <2>1, ConstantTypes DEF CopySize
  <2> QED
    BY <2>1, <2>2, ConstantTypes DEF Cell, Column
<1>2. buf.data = Stored
  BY <1>1 DEF LoadInv, HeadsFor, PageUsers
<1> QED
  BY <1>1, <1>2 DEF Stored

(* Only the copying of a page can go wrong.                                *)
LEMMA ReadStep ==
  TypeOK /\ BusyChipLeftAlone /\ OperationInv /\ PageInv /\ LoadInv /\ ReadInv /\ [Next]_vars
    => ReadInv'
<1> SUFFICES ASSUME TypeOK, BusyChipLeftAlone, OperationInv, PageInv, LoadInv, ReadInv, [Next]_vars
             PROVE ReadInv'
  OBVIOUS
<1> USE DEF ReadInv, StartLabels, Goto, callVars, opVars, histVars, otherHist
<1>0. /\ OperationInv'
      /\ (Sound' => Sound) \/ pc' \in {"idle", "probe"} \/ req'.op = "identify"
  BY SoundStep, OperationStep
<1>1. CASE \E r \in Requests : Start(r)
  BY <1>0, <1>1 DEF Start
<1>2. CASE spi_nand_probe
  BY <1>0, <1>2, QuitRead DEF spi_nand_probe
<1>3. CASE ecc_select_die
  BY <1>0, <1>3 DEF ecc_select_die
<1>4. CASE spi_nand_enable_ondie_ecc
  BY <1>0, <1>4 DEF spi_nand_enable_ondie_ecc
<1>5. CASE spi_nand_init
  BY <1>0, <1>5 DEF spi_nand_init
<1>6. CASE do_identify
  BY <1>0, <1>6 DEF do_identify
<1>7. CASE do_lock_unlock
  BY <1>0, <1>7 DEF do_lock_unlock, Finish
<1>8. CASE do_erase
  BY <1>0, <1>8, QuitRead DEF do_erase, Finish
<1>9. CASE do_read
  BY <1>0, <1>9, QuitRead DEF do_read
<1>10. CASE do_write
  BY <1>0, <1>10, QuitRead DEF do_write, Finish
<1>11. CASE spi_nand_select_die
  BY <1>0, <1>11 DEF spi_nand_select_die, AfterSelect
<1>12. CASE write_enable
  BY <1>0, <1>12 DEF write_enable, AfterWren
<1>13. CASE poll
  BY <1>0, <1>13 DEF poll, AfterPoll
<1>14. CASE page_read
  BY <1>0, <1>14 DEF page_read
<1>15. CASE check_ecc_status
  <2>1. pc' = "rp_cache" /\ UNCHANGED <<misread, req>> /\ (~uncorrectable' => ~uncorrectable)
    BY <1>15 DEF check_ecc_status
  <2> QED
    BY <1>0, <2>1
<1>16. CASE read_from_cache
  <2>1. pc' \notin StartLabels /\ UNCHANGED <<misread, req, uncorrectable>>
    BY <1>16 DEF read_from_cache, TypeOK, OperationTypeOK, PageReturns, OperationInv, PageLabels
  <2> QED
    BY <1>0, <2>1
<1>17. CASE otp_on
  BY <1>0, <1>17 DEF otp_on, ReadPage
<1>18. CASE unique_id
  BY <1>0, <1>18 DEF unique_id, ReadPage
<1>19. CASE parameter_page
  BY <1>0, <1>19 DEF parameter_page
<1>20. CASE otp_off
  BY <1>0, <1>20 DEF otp_off
<1>21. CASE lock_write
  BY <1>0, <1>21 DEF lock_write
<1>22. CASE lock_reread
  BY <1>0, <1>22 DEF lock_reread
<1>23. CASE erase_block
  BY <1>0, <1>23 DEF erase_block
<1>24. CASE erase_end
  BY <1>0, <1>24 DEF erase_end, Finish
<1>25. CASE read_next
  BY <1>0, <1>25, QuitRead DEF read_next, ReadPage
<1>26. CASE read_copy
  <2>1. pc = "rd_copy" /\ pc' \notin StartLabels /\ UNCHANGED <<req, uncorrectable>>
    BY <1>26 DEF read_copy, Finish
  <2>2. Sound' => Sound
    BY <1>0, <1>26, <2>1 DEF OperationInv, HeadsFor, ReadLabels
  <2>3. Sound /\ ~uncorrectable => ~misread'
    BY <1>26, <2>1, CopyFaithful DEF read_copy, OperationInv, HeadsFor, ReadLabels
  <2> QED
    BY <2>1, <2>2, <2>3
<1>27. CASE write_start
  BY <1>0, <1>27, QuitRead DEF write_start, ReadPage
<1>28. CASE write_overlay
  BY <1>0, <1>28 DEF write_overlay
<1>29. CASE program_load
  BY <1>0, <1>29 DEF program_load
<1>30. CASE program_execute
  BY <1>0, <1>30 DEF program_execute
<1>31. CASE program_end
  BY <1>0, <1>31 DEF program_end
<1>32. CASE write_next
  BY <1>0, <1>32 DEF write_next
<1>33. CASE verify_next
  BY <1>0, <1>33, QuitRead DEF verify_next, ReadPage
<1>34. CASE verify_compare
  BY <1>0, <1>34 DEF verify_compare, Finish
<1>35. CASE cleanup
  BY <1>0, <1>35, QuitRead DEF cleanup
<1>36. CASE sigterm
  BY <1>0, <1>36 DEF sigterm
<1>37. CASE Crash
  BY <1>0, <1>37, QuitRead DEF Crash
<1>38. CASE ChipStep
  BY <1>0, <1>38 DEF ChipStep
<1>39. CASE UNCHANGED vars
  BY <1>0, <1>39 DEF vars
<1> QED
  BY <1>1, <1>2, <1>3, <1>4, <1>5, <1>6, <1>7, <1>8, <1>9, <1>10, <1>11, <1>12, <1>13, <1>14,
     <1>15, <1>16, <1>17, <1>18, <1>19, <1>20, <1>21, <1>22, <1>23, <1>24, <1>25, <1>26, <1>27,
     <1>28, <1>29, <1>30, <1>31, <1>32, <1>33, <1>34, <1>35, <1>36, <1>37, <1>38, <1>39
     DEF Next, Program

-----------------------------------------------------------------------------
(* Erase.                                                                  *)

(* A process that ends is in no block. *)
LEMMA QuitErase == Quit => BlockInv' /\ EraseInv' /\ EraseOkInv'
  BY DEF Quit, BlockInv, EraseInv, EraseOkInv, EraseOkIsErased, Completed, EraseLabels

(* Every block is a whole one of the range. *)
LEMMA BlockStep == TypeOK /\ EccInv /\ BlockInv /\ [Next]_vars => BlockInv'
<1> SUFFICES ASSUME TypeOK, EccInv, BlockInv, [Next]_vars PROVE BlockInv'
  OBVIOUS
<1> USE DEF BlockInv, EraseLabels, Goto, callVars, opVars, histVars, otherHist
<1>0. /\ OpLen \in Nat /\ i \in Nat /\ RegionSize \in Nat \ {0}
      /\ UNCHANGED req => UNCHANGED OpLen
  BY Kept, OpLenType, ConstantTypes DEF TypeOK, OperationTypeOK
<1>1. CASE \E r \in Requests : Start(r)
  BY <1>0, <1>1 DEF Start
<1>2. CASE spi_nand_probe
  BY <1>0, <1>2, QuitErase DEF spi_nand_probe
<1>3. CASE ecc_select_die
  BY <1>0, <1>3 DEF ecc_select_die
<1>4. CASE spi_nand_enable_ondie_ecc
  BY <1>0, <1>4 DEF spi_nand_enable_ondie_ecc
<1>5. CASE spi_nand_init
  BY <1>0, <1>5 DEF spi_nand_init
<1>6. CASE do_identify
  BY <1>0, <1>6 DEF do_identify
<1>7. CASE do_lock_unlock
  BY <1>0, <1>7 DEF do_lock_unlock, Finish
<1>8. CASE do_erase
  <2>1. CASE Quit
    BY <2>1, QuitErase
  <2>2. CASE pc' = "er_select" /\ ~Quit
    <3>1. /\ OpLen > 0 /\ OpLen % RegionSize = 0 /\ req.addr % RegionSize = 0
          /\ UNCHANGED <<req, i>> /\ pc = "action"
      BY <1>8, <2>2 DEF do_erase, Finish
    <3>2. i = 0
      BY <3>1 DEF EccInv
    <3>3. 0 + RegionSize <= OpLen /\ 0 % RegionSize = 0
      BY <1>0, <3>1, ZeroMultiple, MultipleGap
    <3> QED
      BY <1>0, <3>1, <3>2, <3>3
  <2>3. CASE pc' = "exit"
    BY <2>3
  <2> QED
    BY <1>8, <2>1, <2>2, <2>3 DEF do_erase, Finish
<1>9. CASE do_read
  BY <1>0, <1>9, QuitErase DEF do_read
<1>10. CASE do_write
  BY <1>0, <1>10, QuitErase DEF do_write, Finish
<1>11. CASE spi_nand_select_die
  BY <1>0, <1>11 DEF spi_nand_select_die, AfterSelect
<1>12. CASE write_enable
  BY <1>0, <1>12 DEF write_enable, AfterWren
<1>13. CASE poll
  BY <1>0, <1>13 DEF poll, AfterPoll
<1>14. CASE page_read
  BY <1>0, <1>14 DEF page_read
<1>15. CASE check_ecc_status
  BY <1>0, <1>15 DEF check_ecc_status
<1>16. CASE read_from_cache
  BY <1>16 DEF read_from_cache, TypeOK, OperationTypeOK, PageReturns
<1>17. CASE otp_on
  BY <1>0, <1>17 DEF otp_on, ReadPage
<1>18. CASE unique_id
  BY <1>0, <1>18 DEF unique_id, ReadPage
<1>19. CASE parameter_page
  BY <1>0, <1>19 DEF parameter_page
<1>20. CASE otp_off
  BY <1>0, <1>20 DEF otp_off
<1>21. CASE lock_write
  BY <1>0, <1>21 DEF lock_write
<1>22. CASE lock_reread
  BY <1>0, <1>22 DEF lock_reread
<1>23. CASE erase_block
  BY <1>0, <1>23 DEF erase_block
<1>24. CASE erase_end
  <2>1. CASE pc' = "exit"
    BY <2>1
  <2>2. CASE pc' = "er_select"
    <3>1. i' = i + RegionSize /\ i + RegionSize < OpLen /\ UNCHANGED req /\ pc = "er_wrdi"
      BY <1>0, <1>24, <2>2 DEF erase_end, Finish
    <3>2. RegionSize % RegionSize = 0
      <4>1. RegionSize = 1 * RegionSize + 0 /\ 0 \in 0 .. RegionSize - 1
        BY <1>0
      <4> QED
        BY <1>0, <4>1, QuotientUnique
    <3>3. (i + RegionSize) % RegionSize = 0
      BY <1>0, <3>1, <3>2, MultipleSum
    <3>4. (i + RegionSize) + RegionSize <= OpLen
      <4>1. i + RegionSize \in Nat /\ OpLen % RegionSize = 0
        BY <1>0, <3>1
      <4> QED
        BY <1>0, <3>1, <3>3, <4>1, MultipleGap
    <3> QED
      BY <1>0, <3>1, <3>3, <3>4
  <2> QED
    BY <1>24, <2>1, <2>2 DEF erase_end, Finish
<1>25. CASE read_next
  BY <1>0, <1>25, QuitErase DEF read_next, ReadPage
<1>26. CASE read_copy
  BY <1>0, <1>26 DEF read_copy, Finish
<1>27. CASE write_start
  BY <1>0, <1>27, QuitErase DEF write_start, ReadPage
<1>28. CASE write_overlay
  BY <1>0, <1>28 DEF write_overlay
<1>29. CASE program_load
  BY <1>0, <1>29 DEF program_load
<1>30. CASE program_execute
  BY <1>0, <1>30 DEF program_execute
<1>31. CASE program_end
  BY <1>0, <1>31 DEF program_end
<1>32. CASE write_next
  BY <1>0, <1>32 DEF write_next
<1>33. CASE verify_next
  BY <1>0, <1>33, QuitErase DEF verify_next, ReadPage
<1>34. CASE verify_compare
  BY <1>0, <1>34 DEF verify_compare, Finish
<1>35. CASE cleanup
  BY <1>0, <1>35, QuitErase DEF cleanup
<1>36. CASE sigterm
  BY <1>0, <1>36 DEF sigterm
<1>37. CASE Crash
  BY <1>0, <1>37, QuitErase DEF Crash
<1>38. CASE ChipStep
  BY <1>0, <1>38 DEF ChipStep
<1>39. CASE UNCHANGED vars
  BY <1>0, <1>39 DEF vars
<1> QED
  BY <1>1, <1>2, <1>3, <1>4, <1>5, <1>6, <1>7, <1>8, <1>9, <1>10, <1>11, <1>12, <1>13, <1>14,
     <1>15, <1>16, <1>17, <1>18, <1>19, <1>20, <1>21, <1>22, <1>23, <1>24, <1>25, <1>26, <1>27,
     <1>28, <1>29, <1>30, <1>31, <1>32, <1>33, <1>34, <1>35, <1>36, <1>37, <1>38, <1>39
     DEF Next, Program

(* The block in hand starts a page, and is inside the range. *)
LEMMA CurrentBlock ==
  ASSUME TypeOK, OperationInv, BlockInv, InDevice, pc \in EraseLabels
  PROVE  /\ i < OpLen /\ req.op = "erase" /\ Aligned
         /\ Target = req.addr + i /\ Target \in Cell
         /\ \A c \in Cell : c \div RegionSize = Target \div RegionSize
                             <=> Target <= c /\ c < Target + RegionSize
         /\ \A c \in Cell : Target <= c /\ c < Target + RegionSize => c \in Asked
<1>1. /\ req.op = "erase" /\ req.addr \in Nat /\ OpLen \in Nat /\ i \in Nat
      /\ RegionSize \in Nat \ {0} /\ PageSize \in Nat \ {0}
  BY ConstantTypes, OpLenType
     DEF OperationInv, HeadsFor, TypeOK, OperationTypeOK, RequestType, Word
<1>2. i + RegionSize <= OpLen /\ i < OpLen
  BY <1>1 DEF BlockInv
<1>3. Target = req.addr + i /\ Target \in Cell /\ Target \in Nat
  BY <1>1, <1>2, TargetAsked
<1>4. Target % RegionSize = 0
  BY <1>1, <1>3, MultipleSum DEF BlockInv
<1>5. Aligned
  BY <1>1, <1>3, <1>4, MultipleOfMultiple, ChipAssumption DEF Aligned
<1> DEFINE t == Target \div RegionSize
<1>6. t \in Nat /\ Target = t * RegionSize
  <2>1. t \in Nat /\ Target = t * RegionSize + (Target % RegionSize)
    BY <1>1, <1>3, DivMod
  <2> HIDE DEF t
  <2> QED
    BY <1>1, <1>4, <2>1
<1>7. ASSUME NEW c \in Cell
      PROVE  c \div RegionSize = t <=> Target <= c /\ c < Target + RegionSize
  <2>1. c \in Nat
    BY DEF Cell
  <2> HIDE DEF t
  <2> QED
    BY <1>1, <1>6, <2>1, QuotientInterval
<1>8. ASSUME NEW c \in Cell, Target <= c, c < Target + RegionSize PROVE c \in Asked
  <2>1. req.addr <= c /\ c < req.addr + OpLen
    BY <1>1, <1>2, <1>3, <1>8 DEF Cell
  <2> QED
    BY <1>1, <1>2, <2>1, RequestRange
<1> QED
  BY <1>1, <1>2, <1>3, <1>5, <1>7, <1>8

(* BLOCK ERASE of the current row takes effect in the block it names, and  *)
(* nowhere else.                                                           *)
LEMMA BlockErased ==
  ASSUME TypeOK, OperationInv, BlockInv, DieInv, BeyondFirstDie, InDevice,
         DieSelect => ~fault, pc = "er_cmd", ChipBlockErase(Row)
  PROVE  /\ \A c \in Cell : mem'[c] # mem[c] => Target <= c /\ c < Target + RegionSize
         /\ ~oip /\ wel /\ ~failBit' =>
              \A c \in Cell : Target <= c /\ c < Target + RegionSize => mem'[c] = Ff
<1>1. /\ i < OpLen /\ req.op = "erase" /\ Aligned /\ Target \in Cell
      /\ \A c \in Cell : c \div RegionSize = Target \div RegionSize
                          <=> Target <= c /\ c < Target + RegionSize
  BY CurrentBlock DEF EraseLabels
<1>2. BlockAt(Row) = Target \div RegionSize
  <2>1. PageAt(Row) = Row
    BY <1>1, RowHits DEF RowLabels
  <2> QED
    BY <1>1, <2>1, CurrentPage DEF BlockAt
<1> DEFINE b == BlockAt(Row)
           new  == [c \in Cell |-> IF c \div RegionSize = b THEN Ff ELSE mem[c]]
           worn == [c \in Cell |-> IF c \div RegionSize = b THEN Bad ELSE mem[c]]
<1>3. mem' \in {mem, new, worn}
  BY DEF ChipBlockErase, chipVars
<1>4. ~oip /\ wel /\ ~failBit' => mem' = new
  BY DEF ChipBlockErase
<1> QED
  BY <1>1, <1>2, <1>3, <1>4

(* Block after block the range is erased, in the order of its addresses.   *)
LEMMA EraseStep ==
  TypeOK /\ BusyChipLeftAlone /\ OperationInv /\ EccInv /\ DieInv /\ BlockInv /\ EraseInv
    /\ [Next]_vars
    => EraseInv'
<1> SUFFICES ASSUME TypeOK, BusyChipLeftAlone, OperationInv, EccInv, DieInv, BlockInv, EraseInv,
                 [Next]_vars
             PROVE EraseInv'
  OBVIOUS
<1> USE DEF EraseInv, EraseLabels, Goto, callVars, opVars, histVars, otherHist
<1>a. OperationInv' /\ ((Sound' => Sound) \/ pc' \in {"idle", "probe"} \/ req'.op = "identify")
  BY SoundStep, OperationStep
<1>b. pc' \in EraseLabels => req'.op = "erase"
  BY <1>a DEF OperationInv, HeadsFor
<1>0. /\ Sound' /\ pc' \in EraseLabels => Sound /\ ~fault /\ ~fault'
      /\ UNCHANGED req => (InDevice' <=> InDevice) /\ UNCHANGED OpLen
      /\ UNCHANGED <<req, i>> => UNCHANGED Target
      /\ req.addr \in Nat /\ i \in Nat /\ RegionSize \in Nat \ {0} /\ req'.addr \in Nat
  <2>1. req.addr \in Nat /\ i \in Nat
    BY DEF TypeOK, OperationTypeOK, RequestType, Word
  <2>2. req'.addr \in Nat
    BY TypeStep DEF TypeOK, OperationTypeOK, RequestType, Word
  <2> QED
    BY <1>a, <1>b, <2>1, <2>2, Kept, ConstantTypes DEF Sound, Undisturbed
<1>1. CASE \E r \in Requests : Start(r)
  BY <1>1 DEF Start
<1>2. CASE spi_nand_probe
  BY <1>2, QuitErase DEF spi_nand_probe
<1>3. CASE ecc_select_die
  BY <1>3 DEF ecc_select_die
<1>4. CASE spi_nand_enable_ondie_ecc
  BY <1>4 DEF spi_nand_enable_ondie_ecc
<1>5. CASE spi_nand_init
  BY <1>5 DEF spi_nand_init
<1>6. CASE do_identify
  BY <1>6 DEF do_identify
<1>7. CASE do_lock_unlock
  BY <1>7 DEF do_lock_unlock, Finish
<1>8. CASE do_erase
  <2>1. \/ Quit \/ pc' = "exit"
        \/ pc' = "er_select" /\ UNCHANGED <<i, req>> /\ pc = "action"
    BY <1>8 DEF do_erase, Finish
  <2>2. pc = "action" => i = 0
    BY DEF EccInv
  <2>3. pc' = "er_select" /\ pc = "action" /\ UNCHANGED <<i, req>>
        => ~ \E c \in Cell : req'.addr <= c /\ c < req'.addr + i'
    BY <1>0, <2>2 DEF Cell
  <2> QED
    BY <2>1, <2>3, QuitErase
<1>9. CASE do_read
  BY <1>9, QuitErase DEF do_read
<1>10. CASE do_write
  BY <1>10, QuitErase DEF do_write, Finish
<1>11. CASE spi_nand_select_die
  <2>1. UNCHANGED <<req, i, mem>> /\ (pc' \in EraseLabels => pc \in EraseLabels)
        /\ pc' \notin {"er_cmd", "er_poll", "er_wrdi"}
    BY <1>11, DataCommands DEF spi_nand_select_die, AfterSelect, opVars, Send, chipVars
  <2> QED
    BY <1>0, <2>1
<1>12. CASE write_enable
  <2>1. UNCHANGED <<req, i, mem>> /\ (pc' \in EraseLabels => pc = "er_wren")
        /\ pc' \notin {"er_poll", "er_wrdi"}
    BY <1>12, DataCommands DEF write_enable, AfterWren, opVars, Send, chipVars
  <2>2. Sound' /\ pc' \in EraseLabels => wel'
    <3>1. Sound' /\ pc' \in EraseLabels => ChipWren /\ ~oip
      BY <1>0, <1>12, <2>1 DEF write_enable, Send, Fail, BusyChipLeftAlone
    <3> QED
      BY <3>1, DataCommands
  <2> QED
    BY <1>0, <2>1, <2>2
<1>13. CASE poll
  <2>1. UNCHANGED <<req, i, mem, failBit>> /\ (pc' = pc \/ (pc = "er_poll" /\ pc' = "er_wrdi")
                                            \/ pc' \in {"rp_ecc", "wr_wrdi"})
    BY <1>13 DEF poll, AfterPoll, opVars, chipVars
  <2>2. ~fault' /\ pc' = "er_wrdi" => status' = failBit /\ pc = "er_poll"
    BY <1>13 DEF poll, AfterPoll, Fail
  <2>3. pc # "er_cmd"
    BY <1>13 DEF poll, AfterPoll
  <2> QED
    BY <1>0, <2>1, <2>2, <2>3
<1>14. CASE page_read
  BY <1>14 DEF page_read
<1>15. CASE check_ecc_status
  BY <1>15 DEF check_ecc_status
<1>16. CASE read_from_cache
  BY <1>16 DEF read_from_cache, TypeOK, OperationTypeOK, PageReturns
<1>17. CASE otp_on
  BY <1>17 DEF otp_on, ReadPage
<1>18. CASE unique_id
  BY <1>18 DEF unique_id, ReadPage
<1>19. CASE parameter_page
  BY <1>19 DEF parameter_page
<1>20. CASE otp_off
  BY <1>20 DEF otp_off
<1>21. CASE lock_write
  BY <1>21 DEF lock_write
<1>22. CASE lock_reread
  BY <1>22 DEF lock_reread
<1>23. CASE erase_block
  <2> SUFFICES ASSUME Sound', InDevice' PROVE EraseInv'
    BY DEF EraseInv
  <2>1. pc = "er_cmd" /\ pc' = "er_poll" /\ UNCHANGED <<req, i>>
    BY <1>23 DEF erase_block, opVars
  <2>2. Sound /\ InDevice /\ ~fault /\ ~fault' /\ BeyondFirstDie
    BY <1>0, <2>1 DEF Sound
  <2>3. ~oip /\ wel
    BY <2>1, <2>2 DEF BusyChipLeftAlone
  <2>4. ChipBlockErase(Row)
    BY <1>23, <2>2 DEF erase_block, Send, Fail
  <2>5. /\ \A c \in Cell : mem'[c] # mem[c] => Target <= c /\ c < Target + RegionSize
        /\ ~failBit' => \A c \in Cell : Target <= c /\ c < Target + RegionSize => mem'[c] = Ff
    BY <2>1, <2>2, <2>3, <2>4, BlockErased
  <2>6. Target = req.addr + i
    BY <2>1, <2>2, CurrentBlock
  <2>7. \A c \in Cell : req.addr <= c /\ c < req.addr + i => mem'[c] = Ff
    <3>1. ASSUME NEW c \in Cell, req.addr <= c, c < req.addr + i PROVE mem'[c] = mem[c]
      <4>1. ~(Target <= c)
        BY <1>0, <2>6, <3>1 DEF Cell
      <4> QED
        BY <2>5, <4>1
    <3> QED
      BY <2>1, <2>2, <3>1
  <2> QED
    BY <1>0, <2>1, <2>5, <2>7
<1>24. CASE erase_end
  <2> SUFFICES ASSUME Sound', InDevice', pc' = "er_select" PROVE EraseInv'
    BY <1>24 DEF erase_end, Finish
  <2>1. pc = "er_wrdi" /\ i' = i + RegionSize /\ UNCHANGED <<req, mem>> /\ ~status
    BY <1>24, DataCommands DEF erase_end, Finish, Send, chipVars
  <2>2. Sound /\ InDevice
    BY <1>0, <2>1
  <2>3. Target = req.addr + i
    BY <2>1, <2>2, CurrentBlock
  <2>4. ASSUME NEW c \in Cell, req.addr <= c, c < req.addr + (i + RegionSize) PROVE mem[c] = Ff
    <3>1. CASE c < req.addr + i
      BY <2>1, <2>2, <2>4, <3>1
    <3>2. CASE ~(c < req.addr + i)
      <4>1. Target <= c /\ c < Target + RegionSize
        BY <1>0, <2>3, <2>4, <3>2 DEF Cell
      <4> QED
        BY <2>1, <2>2, <4>1
    <3> QED
      BY <3>1, <3>2
  <2> QED
    BY <2>1, <2>4
<1>25. CASE read_next
  BY <1>25, QuitErase DEF read_next, ReadPage
<1>26. CASE read_copy
  BY <1>26 DEF read_copy, Finish
<1>27. CASE write_start
  BY <1>27, QuitErase DEF write_start, ReadPage
<1>28. CASE write_overlay
  BY <1>28 DEF write_overlay
<1>29. CASE program_load
  BY <1>29 DEF program_load
<1>30. CASE program_execute
  BY <1>30 DEF program_execute
<1>31. CASE program_end
  BY <1>31 DEF program_end
<1>32. CASE write_next
  BY <1>32 DEF write_next
<1>33. CASE verify_next
  BY <1>33, QuitErase DEF verify_next, ReadPage
<1>34. CASE verify_compare
  BY <1>34 DEF verify_compare, Finish
<1>35. CASE cleanup
  BY <1>35, QuitErase DEF cleanup
<1>36. CASE sigterm
  <2>1. UNCHANGED <<pc, req, i, mem, failBit, status>> /\ (pc = "er_cmd" /\ ~fault => UNCHANGED wel)
    BY <1>36 DEF sigterm, callVars, opVars, histVars, otherHist, chipVars
  <2> QED
    BY <1>0, <2>1
<1>37. CASE Crash
  BY <1>37, QuitErase DEF Crash
<1>38. CASE ChipStep
  <2>1. UNCHANGED <<pc, req, i, mem, failBit, status>> /\ (pc = "er_cmd" /\ ~fault => UNCHANGED wel)
    BY <1>38, DataCommands DEF ChipStep, callVars, opVars, histVars, otherHist, chipVars,
       ChipDone, BusyChipLeftAlone
  <2> QED
    BY <1>0, <2>1
<1>39. CASE UNCHANGED vars
  <2>1. UNCHANGED <<pc, req, i, mem, failBit, status>> /\ (pc = "er_cmd" /\ ~fault => UNCHANGED wel)
    BY <1>39 DEF vars, callVars, opVars, histVars, otherHist, chipVars
  <2> QED
    BY <1>0, <2>1
<1> QED
  BY <1>1, <1>2, <1>3, <1>4, <1>5, <1>6, <1>7, <1>8, <1>9, <1>10, <1>11, <1>12, <1>13, <1>14,
     <1>15, <1>16, <1>17, <1>18, <1>19, <1>20, <1>21, <1>22, <1>23, <1>24, <1>25, <1>26, <1>27,
     <1>28, <1>29, <1>30, <1>31, <1>32, <1>33, <1>34, <1>35, <1>36, <1>37, <1>38, <1>39
     DEF Next, Program

(* What the exit status says of an erase. *)
LEMMA EraseOkStep ==
  TypeOK /\ BusyChipLeftAlone /\ OperationInv /\ BlockInv /\ EraseInv /\ EraseOkInv /\ [Next]_vars
    => EraseOkInv'
<1> SUFFICES ASSUME TypeOK, BusyChipLeftAlone, OperationInv, BlockInv, EraseInv, EraseOkInv,
                 [Next]_vars
             PROVE EraseOkInv'
  OBVIOUS
<1> USE DEF EraseOkInv, EraseOkIsErased, Completed, Goto, callVars, opVars, histVars, otherHist
<1>0. (Sound' => Sound) \/ pc' \in {"idle", "probe"} \/ req'.op = "identify"
  BY SoundStep
<1>1. CASE \E r \in Requests : Start(r)
  BY <1>1 DEF Start
<1>2. CASE spi_nand_probe
  BY <1>2, QuitErase DEF spi_nand_probe, EraseOkInv
<1>3. CASE ecc_select_die
  BY <1>3 DEF ecc_select_die
<1>4. CASE spi_nand_enable_ondie_ecc
  BY <1>4 DEF spi_nand_enable_ondie_ecc
<1>5. CASE spi_nand_init
  BY <1>5 DEF spi_nand_init
<1>6. CASE do_identify
  BY <1>6 DEF do_identify
<1>7. CASE do_lock_unlock
  BY <1>7 DEF do_lock_unlock, Finish
<1>8. CASE do_erase
  <2>1. Quit \/ pc' # "exit" \/ ret' # NoError
    BY <1>8 DEF do_erase, Finish, NoError, Errno, AlignedCheckFail
  <2> QED
    BY <2>1, QuitErase DEF EraseOkInv
<1>9. CASE do_read
  BY <1>9, QuitErase DEF do_read, EraseOkInv
<1>10. CASE do_write
  <2>1. pc' = "exit" => req'.op # "erase" \/ Quit
    BY <1>10 DEF do_write, Finish, OperationInv, HeadsFor, IdentifyLabels, ReadLabels,
       WriteLabels, VerifyLabels
  <2> QED
    BY <2>1, QuitErase DEF EraseOkInv
<1>11. CASE spi_nand_select_die
  <2>1. pc' # "exit"
    BY <1>11 DEF spi_nand_select_die, AfterSelect
  <2> QED
    BY <2>1
<1>12. CASE write_enable
  <2>1. pc' # "exit"
    BY <1>12 DEF write_enable, AfterWren
  <2> QED
    BY <2>1
<1>13. CASE poll
  BY <1>13 DEF poll, AfterPoll
<1>14. CASE page_read
  BY <1>14 DEF page_read
<1>15. CASE check_ecc_status
  BY <1>15 DEF check_ecc_status
<1>16. CASE read_from_cache
  BY <1>16 DEF read_from_cache, TypeOK, OperationTypeOK, PageReturns
<1>17. CASE otp_on
  BY <1>17 DEF otp_on, ReadPage
<1>18. CASE unique_id
  BY <1>18 DEF unique_id, ReadPage
<1>19. CASE parameter_page
  BY <1>19 DEF parameter_page
<1>20. CASE otp_off
  <2>1. pc' = "exit" => req'.op # "erase" \/ Quit
    BY <1>20 DEF otp_off, OperationInv, HeadsFor, IdentifyLabels, ReadLabels, WriteLabels,
       VerifyLabels
  <2> QED
    BY <2>1, QuitErase DEF EraseOkInv
<1>21. CASE lock_write
  BY <1>21 DEF lock_write
<1>22. CASE lock_reread
  <2>1. pc' = "exit" => req'.op # "erase" \/ Quit
    BY <1>22 DEF lock_reread, OperationInv, HeadsFor, IdentifyLabels, ReadLabels, WriteLabels,
       VerifyLabels
  <2> QED
    BY <2>1, QuitErase DEF EraseOkInv
<1>23. CASE erase_block
  BY <1>23 DEF erase_block
<1>24. CASE erase_end
  <2> SUFFICES ASSUME Sound', InDevice', pc' = "exit", ret' = NoError, ~killed'
               PROVE  \A c \in Asked' : mem'[c] = Ff
    BY DEF Sound
  <2>1. pc = "er_wrdi" /\ UNCHANGED <<req, i, mem, killed>>
    BY <1>24, <1>0, DataCommands DEF erase_end, Finish, Send, chipVars
  <2>2. ~status /\ i + RegionSize >= OpLen
    BY <1>24, <2>1 DEF erase_end, Finish, NoError, EraseFail
  <2>3. req.op = "erase" /\ Sound /\ InDevice /\ UNCHANGED <<Asked, OpLen>>
    BY <1>0, <2>1, Kept DEF OperationInv, HeadsFor, EraseLabels
  <2>4. /\ i + RegionSize = OpLen /\ Target = req.addr + i /\ req.addr \in Nat /\ i \in Nat
        /\ OpLen \in Nat /\ OpLen > 0 /\ RegionSize \in Nat
    BY <2>1, <2>2, <2>3, CurrentBlock, OpLenType, ConstantTypes
       DEF BlockInv, EraseLabels, TypeOK, OperationTypeOK, RequestType, Word
  <2>5. ASSUME NEW c \in Asked PROVE mem[c] = Ff
    <3>1. c \in Cell /\ req.addr <= c /\ c < req.addr + OpLen
      BY <2>3, <2>4, <2>5, RequestRange
    <3>2. CASE c < req.addr + i
      BY <2>1, <2>3, <3>1, <3>2 DEF EraseInv, EraseLabels
    <3>3. CASE ~(c < req.addr + i)
      <4>1. Target <= c /\ c < Target + RegionSize
        BY <2>4, <3>1, <3>3 DEF Cell
      <4> QED
        BY <2>1, <2>2, <2>3, <3>1, <4>1 DEF EraseInv
    <3> QED
      BY <3>2, <3>3
  <2> QED
    BY <2>1, <2>3, <2>5
<1>25. CASE read_next
  BY <1>25, QuitErase DEF read_next, ReadPage, EraseOkInv
<1>26. CASE read_copy
  <2>1. pc' = "exit" => req'.op # "erase" \/ Quit
    BY <1>26 DEF read_copy, Finish, OperationInv, HeadsFor, IdentifyLabels, ReadLabels,
       WriteLabels, VerifyLabels
  <2> QED
    BY <2>1, QuitErase DEF EraseOkInv
<1>27. CASE write_start
  BY <1>27, QuitErase DEF write_start, ReadPage, EraseOkInv
<1>28. CASE write_overlay
  BY <1>28 DEF write_overlay
<1>29. CASE program_load
  BY <1>29 DEF program_load
<1>30. CASE program_execute
  BY <1>30 DEF program_execute
<1>31. CASE program_end
  BY <1>31 DEF program_end
<1>32. CASE write_next
  <2>1. pc' = "exit" => req'.op # "erase" \/ Quit
    BY <1>32 DEF write_next, OperationInv, HeadsFor, IdentifyLabels, ReadLabels, WriteLabels,
       VerifyLabels
  <2> QED
    BY <2>1, QuitErase DEF EraseOkInv
<1>33. CASE verify_next
  BY <1>33, QuitErase DEF verify_next, ReadPage, EraseOkInv
<1>34. CASE verify_compare
  <2>1. pc' = "exit" => req'.op # "erase" \/ Quit
    BY <1>34 DEF verify_compare, Finish, OperationInv, HeadsFor, IdentifyLabels, ReadLabels,
       WriteLabels, VerifyLabels
  <2> QED
    BY <2>1, QuitErase DEF EraseOkInv
<1>35. CASE cleanup
  BY <1>35, QuitErase DEF cleanup, EraseOkInv
<1>36. CASE sigterm
  BY <1>36 DEF sigterm
<1>37. CASE Crash
  BY <1>37, QuitErase DEF Crash, EraseOkInv
<1>38. CASE ChipStep
  <2>1. UNCHANGED <<pc, req, ret, killed, mem, otp, fault>>
    BY <1>38, DataCommands DEF ChipStep, opVars, histVars
  <2> QED
    BY <2>1, Kept DEF Undisturbed
<1>39. CASE UNCHANGED vars
  <2>1. UNCHANGED <<pc, req, ret, killed, mem, otp, fault>>
    BY <1>39 DEF vars, opVars, histVars, chipVars
  <2> QED
    BY <2>1, Kept DEF Undisturbed
<1> QED
  BY <1>1, <1>2, <1>3, <1>4, <1>5, <1>6, <1>7, <1>8, <1>9, <1>10, <1>11, <1>12, <1>13, <1>14,
     <1>15, <1>16, <1>17, <1>18, <1>19, <1>20, <1>21, <1>22, <1>23, <1>24, <1>25, <1>26, <1>27,
     <1>28, <1>29, <1>30, <1>31, <1>32, <1>33, <1>34, <1>35, <1>36, <1>37, <1>38, <1>39
     DEF Next, Program

-----------------------------------------------------------------------------
(* Verify.                                                                 *)

(* A process that ends has verified nothing. *)
LEMMA QuitVerify == Quit => VerifyInv'
  BY DEF Quit, VerifyInv, HeadsFor, PageLabels, VerifyLabels

(* A page that compares equal to the file is in the array: one that could  *)
(* not be read is not equal to any page of a file.                         *)
LEMMA CompareMeansStored ==
  ASSUME TypeOK, PageInv, LoadInv, Sound, InDevice, pc = "vf_cmp", req.op = "write", ~Differs
  PROVE  /\ Target = req.addr + i /\ i < OpLen
         /\ \A c \in Cell : Target <= c /\ c < Target + CopySize => mem[c] = Image(c)
<1>1. i < OpLen /\ Target = req.addr + i /\ Target \in Cell
  BY TargetAsked DEF PageInv, HeadsFor, VerifyLabels
<1>2. /\ i \in Nat /\ OpLen \in Nat /\ PageSize \in Nat \ {0}
      /\ CopySize \in Nat \ {0} /\ CopySize <= PageSize
  <2>1. i \in Nat /\ OpLen \in Nat /\ PageSize \in Nat \ {0}
    BY OpLenType, ConstantTypes DEF TypeOK, OperationTypeOK
  <2> QED
    BY <1>1, <2>1 DEF CopySize
<1>3. \A k \in 0 .. CopySize - 1 : buf.data[k] = Image(Target + k)
  BY <1>1 DEF Differs, FileCell
<1>4. buf.data = Stored
  <2>1. 0 \in 0 .. CopySize - 1 /\ 0 \in Column
    BY <1>2 DEF Column
  <2>2. Image(Target + 0) # Bad
    BY DEF Image, Img, Ff, Bad
  <2>3. buf.data # Garbled
    BY <1>3, <2>1, <2>2 DEF Garbled
  <2> QED
    BY <1>1, <2>3 DEF LoadInv, HeadsFor, PageUsers
<1>5. ASSUME NEW c \in Cell, Target <= c, c < Target + CopySize PROVE mem[c] = Image(c)
  <2> DEFINE k == c - Target
  <2>1. k \in 0 .. CopySize - 1 /\ k \in Column /\ Target + k = c
    BY <1>1, <1>2, <1>5 DEF Cell, Column
  <2> HIDE DEF k
  <2> QED
    BY <1>3, <1>4, <2>1 DEF Stored
<1> QED
  BY <1>1, <1>5

(* The array is the file's up to the page in hand, and no step of the      *)
(* verification changes it.                                                *)
LEMMA VerifyStep ==
  TypeOK /\ BusyChipLeftAlone /\ OperationInv /\ PageInv /\ LoadInv /\ VerifyInv /\ [Next]_vars
    => VerifyInv'
<1> SUFFICES ASSUME TypeOK, BusyChipLeftAlone, OperationInv, PageInv, LoadInv, VerifyInv,
                 [Next]_vars
             PROVE VerifyInv'
  OBVIOUS
<1> USE DEF VerifyInv, HeadsFor, PageLabels, VerifyLabels, Goto, callVars, opVars, histVars,
            otherHist
<1>a. OperationInv' /\ ((Sound' => Sound) \/ pc' \in {"idle", "probe"} \/ req'.op = "identify")
  BY SoundStep, OperationStep
<1>b. HeadsFor(VerifyLabels)' => req'.op = "write"
  BY <1>a DEF OperationInv, WriteLabels
<1>c. HeadsFor(VerifyLabels)' => UNCHANGED mem
  BY MemStep DEF erase_block, program_execute
<1>0. /\ HeadsFor(VerifyLabels)' => UNCHANGED mem /\ (Sound' => Sound)
      /\ pc' = "exit" /\ req'.op = "write" => (Sound' => Sound)
      /\ UNCHANGED req => (InDevice' <=> InDevice) /\ UNCHANGED OpLen
      /\ UNCHANGED <<req, i>> => UNCHANGED CopySize
      /\ UNCHANGED <<req, otp, fault>> => (Sound' <=> Sound)
      /\ req.addr \in Nat
  <2>1. UNCHANGED <<req, i>> => UNCHANGED CopySize
    BY Kept DEF CopySize
  <2> QED
    BY <1>a, <1>b, <1>c, <2>1, Kept
       DEF Sound, Undisturbed, TypeOK, OperationTypeOK, RequestType, Word
<1>1. CASE \E r \in Requests : Start(r)
  BY <1>0, <1>1 DEF Start
<1>2. CASE spi_nand_probe
  BY <1>0, <1>2, QuitVerify DEF spi_nand_probe
<1>3. CASE ecc_select_die
  BY <1>0, <1>3 DEF ecc_select_die
<1>4. CASE spi_nand_enable_ondie_ecc
  BY <1>0, <1>4 DEF spi_nand_enable_ondie_ecc
<1>5. CASE spi_nand_init
  BY <1>0, <1>5 DEF spi_nand_init
<1>6. CASE do_identify
  BY <1>0, <1>6 DEF do_identify
<1>7. CASE do_lock_unlock
  BY <1>0, <1>7 DEF do_lock_unlock, Finish
<1>8. CASE do_erase
  BY <1>0, <1>8, QuitVerify DEF do_erase, Finish
<1>9. CASE do_read
  BY <1>0, <1>9, QuitVerify DEF do_read
<1>10. CASE do_write
  BY <1>0, <1>10, QuitVerify DEF do_write, Finish
<1>11. CASE spi_nand_select_die
  BY <1>0, <1>11 DEF spi_nand_select_die, AfterSelect
<1>12. CASE write_enable
  BY <1>0, <1>12 DEF write_enable, AfterWren
<1>13. CASE poll
  BY <1>0, <1>13 DEF poll, AfterPoll
<1>14. CASE page_read
  BY <1>0, <1>14 DEF page_read
<1>15. CASE check_ecc_status
  <2>1. UNCHANGED <<pageRet, req, i, verified>> /\ pc = "rp_ecc" /\ pc' = "rp_cache"
    BY <1>15 DEF check_ecc_status
  <2> QED
    BY <1>0, <2>1
<1>16. CASE read_from_cache
  <2>1. /\ UNCHANGED <<pageRet, req, i, verified>> /\ pc = "rp_cache" /\ pc' = pageRet
        /\ pc' # "exit"
    BY <1>16 DEF read_from_cache, TypeOK, OperationTypeOK, PageReturns
  <2> QED
    BY <1>0, <2>1
<1>17. CASE otp_on
  BY <1>0, <1>17 DEF otp_on, ReadPage
<1>18. CASE unique_id
  BY <1>0, <1>18 DEF unique_id, ReadPage
<1>19. CASE parameter_page
  BY <1>0, <1>19 DEF parameter_page
<1>20. CASE otp_off
  BY <1>0, <1>20 DEF otp_off
<1>21. CASE lock_write
  BY <1>0, <1>21 DEF lock_write
<1>22. CASE lock_reread
  BY <1>0, <1>22 DEF lock_reread
<1>23. CASE erase_block
  BY <1>0, <1>23 DEF erase_block
<1>24. CASE erase_end
  BY <1>0, <1>24 DEF erase_end, Finish
<1>25. CASE read_next
  BY <1>0, <1>25, QuitVerify DEF read_next, ReadPage
<1>26. CASE read_copy
  BY <1>0, <1>26 DEF read_copy, Finish
<1>27. CASE write_start
  BY <1>0, <1>27, QuitVerify DEF write_start, ReadPage
<1>28. CASE write_overlay
  BY <1>0, <1>28 DEF write_overlay
<1>29. CASE program_load
  BY <1>0, <1>29 DEF program_load
<1>30. CASE program_execute
  BY <1>0, <1>30 DEF program_execute
<1>31. CASE program_end
  BY <1>0, <1>31 DEF program_end
<1>32. CASE write_next
  <2>1. /\ UNCHANGED <<pageRet, req, verified>> /\ pc = "wr_next"
        /\ pc' \in {"wr_page", "exit"} \/ (pc' = "vf_page" /\ i' = 0)
    BY <1>32 DEF write_next
  <2>2. ~ \E c \in Cell : req.addr <= c /\ c < req.addr + 0
    BY <1>0 DEF Cell
  <2> QED
    BY <2>1, <2>2
<1>33. CASE verify_next
  BY <1>0, <1>33, QuitVerify DEF verify_next, ReadPage
<1>34. CASE verify_compare
  <2>1. /\ pc = "vf_cmp" /\ pc' \in {"exit", "vf_page"}
       /\ UNCHANGED <<req, mem, otp, fault, killed>>
        /\ ~verified
    BY <1>34 DEF verify_compare, Finish, chipVars
  <2>2. req.op = "write"
    BY <2>1 DEF OperationInv, WriteLabels
  <2>3. /\ UNCHANGED OpLen /\ (Sound' => Sound) /\ (InDevice' => InDevice)
        /\ OpLen \in Nat /\ i \in Nat /\ req.addr \in Nat /\ PageSize \in Nat
    BY <1>0, <2>1, <2>2, Kept, OpLenType, ConstantTypes
       DEF TypeOK, OperationTypeOK, RequestType, Word
  <2>4. CASE pc' = "exit" /\ ~verified'
    BY <2>1, <2>4
  <2>5. CASE ~Differs /\ (pc' = "exit" => verified') /\ (pc' = "vf_page" => i' = i + PageSize
                          /\ i + PageSize < OpLen /\ ~verified')
                     /\ (verified' /\ ~killed => i + PageSize >= OpLen)
    <3>1. ASSUME Sound, InDevice, NEW c \in Cell, req.addr <= c, c < req.addr + (i + CopySize)
          PROVE  mem[c] = Image(c)
      <4>1. CASE c < req.addr + i
        BY <2>1, <3>1, <4>1
      <4>2. CASE ~(c < req.addr + i)
        <5>1. /\ Target = req.addr + i
              /\ \A x \in Cell : Target <= x /\ x < Target + CopySize => mem[x] = Image(x)
          BY <2>1, <2>2, <2>5, <3>1, CompareMeansStored
        <5>2. CopySize \in Int
          BY <2>3 DEF CopySize
        <5>3. Target <= c /\ c < Target + CopySize
          BY <2>3, <3>1, <4>2, <5>1, <5>2 DEF Cell
        <5> QED
          BY <3>1, <5>1, <5>3
      <4> QED
        BY <4>1, <4>2
    <3>2. pc' = "vf_page" => i + CopySize = i'
      BY <2>3, <2>5 DEF CopySize
    <3>3. verified' /\ ~killed => i + CopySize = OpLen
      <4>1. i < OpLen
        BY <2>1 DEF PageInv, VerifyLabels
      <4> QED
        BY <2>3, <2>5, <4>1 DEF CopySize
    <3>4. CASE pc' = "vf_page"
      BY <2>1, <2>2, <2>3, <2>5, <3>1, <3>2, <3>4
    <3>5. CASE pc' = "exit"
      <4>1. UNCHANGED i /\ UNCHANGED CopySize
        BY <1>0, <1>34, <3>5 DEF verify_compare, Finish
      <4> QED
        BY <2>1, <2>2, <2>3, <3>1, <3>3, <3>5, <4>1
    <3> QED
      BY <2>1, <3>4, <3>5
  <2> QED
    BY <1>34, <2>1, <2>3, <2>4, <2>5 DEF verify_compare, Finish
<1>35. CASE cleanup
  BY <1>0, <1>35, QuitVerify DEF cleanup
<1>36. CASE sigterm
  <2>1. UNCHANGED <<pc, pageRet, req, i, verified>> /\ pc # "exit"
    BY <1>36 DEF sigterm
  <2> QED
    BY <1>0, <2>1
<1>37. CASE Crash
  BY <1>0, <1>37, QuitVerify DEF Crash
<1>38. CASE ChipStep
  <2>1. UNCHANGED <<pc, pageRet, req, i, mem, verified, otp, fault>> /\ (killed => killed')
    BY <1>38, DataCommands DEF ChipStep, callVars, opVars, histVars, otherHist, chipVars
  <2> QED
    BY <1>0, <2>1
<1>39. CASE UNCHANGED vars
  <2>1. UNCHANGED <<pc, pageRet, req, i, mem, verified, otp, fault>> /\ (killed => killed')
    BY <1>39 DEF vars, callVars, opVars, histVars, otherHist, chipVars
  <2> QED
    BY <1>0, <2>1
<1> QED
  BY <1>1, <1>2, <1>3, <1>4, <1>5, <1>6, <1>7, <1>8, <1>9, <1>10, <1>11, <1>12, <1>13, <1>14,
     <1>15, <1>16, <1>17, <1>18, <1>19, <1>20, <1>21, <1>22, <1>23, <1>24, <1>25, <1>26, <1>27,
     <1>28, <1>29, <1>30, <1>31, <1>32, <1>33, <1>34, <1>35, <1>36, <1>37, <1>38, <1>39
     DEF Next, Program

-----------------------------------------------------------------------------
(* The theorems.                                                           *)

(* What every state of a run satisfies. *)
LEMMA DataInvariants ==
  Spec => [](/\ TypeOK /\ BusyChipLeftAlone /\ OperationInv /\ EccInv /\ DieInv
             /\ PageInv /\ LoadInv /\ ProgramInv /\ ReadInv
             /\ BlockInv /\ EraseInv /\ EraseOkInv /\ VerifyInv)
<1> DEFINE Control == OperationInv /\ EccInv /\ DieInv
           Data == /\ PageInv /\ LoadInv /\ ProgramInv /\ ReadInv
                   /\ BlockInv /\ EraseInv /\ EraseOkInv /\ VerifyInv
<1>1. Init => Control /\ Data
  <2> SUFFICES ASSUME Init PROVE Control /\ Data
    OBVIOUS
  <2>1. OperationInv
    BY InitOperation
  <2>2. EccInv /\ DieInv
    BY DEF Init, ChipInit, EccInv, DieInv, RowLabels
  <2>3. PageInv /\ LoadInv /\ ProgramInv
    BY DEF Init, PageInv, LoadInv, ProgramInv, HeadsFor, PageLabels, PageUsers, ProgramLabels,
           VerifyLabels
  <2>4. ReadInv /\ BlockInv /\ EraseInv /\ EraseOkInv
    BY DEF Init, ReadInv, BlockInv, EraseInv, EraseOkInv, EraseOkIsErased, Completed,
           EraseLabels, StartLabels
  <2>5. VerifyInv
    BY DEF Init, VerifyInv, HeadsFor, PageLabels, VerifyLabels
  <2> QED
    BY <2>1, <2>2, <2>3, <2>4, <2>5
<1>2. TypeOK /\ BusyChipLeftAlone /\ Control /\ [Next]_vars => Control'
  BY OperationStep, EccStep, DieStep
<1>3. TypeOK /\ BusyChipLeftAlone /\ Control /\ Data /\ [Next]_vars => Data'
  BY PageStep, LoadStep, ProgramStep, ReadStep, BlockStep, EraseStep, EraseOkStep, VerifyStep
<1> QED
  BY <1>1, <1>2, <1>3, NandTypeCorrect, NandBusyChipSafe, PTL DEF Spec

(* An erase that reports success has erased every cell of its range,       *)
(* whatever blocks are worn or protected.                                  *)
THEOREM EraseCorrect == Spec => [](BeyondFirstDie => EraseOkIsErased)
<1>1. EraseOkInv => (BeyondFirstDie => EraseOkIsErased)
  BY DEF EraseOkInv
<1> QED
  BY <1>1, DataInvariants, PTL

(* A read that reports success, and met no uncorrectable page, delivered   *)
(* what the array holds.                                                   *)
THEOREM ReadCorrect == Spec => [](BeyondFirstDie => ReadFaithful)
<1>1. ReadInv => (BeyondFirstDie => ReadFaithful)
  BY DEF ReadInv, ReadFaithful, Sound
<1> QED
  BY <1>1, DataInvariants, PTL

(* A write that was verified is in the array, whatever the results of its  *)
(* pages and whatever the ECC could not correct on the way, and after ^C   *)
(* as far as the verification got.                                         *)
THEOREM VerifyCorrect == Spec => [](BeyondFirstDie => VerifiedIsWritten)
<1>1. TypeOK /\ VerifyInv => (BeyondFirstDie => VerifiedIsWritten)
  <2> SUFFICES ASSUME TypeOK, VerifyInv, BeyondFirstDie, verified, Undisturbed, InDevice,
                      NEW c \in Asked, ~killed \/ c < req.addr + (i + CopySize)
               PROVE  mem[c] = Image(c)
    BY DEF VerifiedIsWritten
  <2>1. OpLen > 0
    BY OpLenType DEF Asked
  <2>2. c \in Cell /\ req.addr <= c /\ c < req.addr + OpLen
    BY <2>1, RequestRange
  <2> QED
    BY <2>2 DEF VerifyInv, Sound
<1> QED
  BY <1>1, DataInvariants, PTL

(* PROGRAM EXECUTE changes cells of the current page only, and of these    *)
(* only the ones the file covers, unless something went wrong before.      *)
LEMMA ProgramConfined ==
  ASSUME TypeOK, OperationInv, DieInv, PageInv, ProgramInv, BeyondFirstDie, InDevice,
         DieSelect => ~fault, program_execute, NEW c \in Cell, mem'[c] # mem[c]
  PROVE  /\ req.op = "write" /\ \E a \in Asked : a \div PageSize = c \div PageSize
         /\ c \in Asked \/ fault \/ uncorrectable \/ c \div RegionSize \in Worn
<1>1. pc = "wr_exec"
  BY DEF program_execute
<1>2. req.op = "write" /\ i < OpLen /\ Aligned
  BY <1>1 DEF OperationInv, HeadsFor, WriteLabels, ProgramLabels, PageInv
<1>3. Target \in Asked /\ Target = req.addr + i /\ Target \in Cell
  BY <1>2, TargetAsked
<1>4. PageAt(Row) = Row /\ Row \in Page
  BY <1>1, <1>2, <1>3, RowHits, CurrentPage DEF RowLabels
<1> DEFINE new  == [x \in Cell |-> IF InPage(x, PageAt(Row))
                                   THEN Programmed(mem[x], cache.data[x % PageSize])
                                   ELSE mem[x]]
           worn == [x \in Cell |-> IF InPage(x, PageAt(Row)) THEN Bad ELSE mem[x]]
<1>5. \/ mem' = new /\ ~otp
      \/ mem' = worn /\ BlockAt(Row) \in Worn
  <2>1. UNCHANGED mem \/ ChipExecute(Row)
    BY DEF program_execute, Send, chipVars
  <2>2. ChipExecute(Row) /\ mem' # mem
    BY <2>1
  <2> QED
    BY <2>2 DEF ChipExecute, chipVars
<1>6. InPage(c, Row)
  BY <1>4, <1>5
<1>7. \E a \in Asked : a \div PageSize = c \div PageSize
  BY <1>3, <1>6 DEF InPage, Row
<1>8. CASE mem' = worn /\ BlockAt(Row) \in Worn
  <2>1. c \div RegionSize = BlockAt(Row)
    BY <1>4, <1>6, BlockOfPage DEF BlockAt, InPage
  <2> QED
    BY <1>2, <1>7, <1>8, <2>1
<1>9. CASE mem' = new /\ ~otp
  <2>1. SUFFICES ASSUME ~fault, ~uncorrectable PROVE c \in Asked
    BY <1>2, <1>7
  <2>2. cache.data = Merged
    BY <1>1, <1>3, <1>9, <2>1 DEF ProgramInv, Sound, Undisturbed
  <2> DEFINE k == c - Target
  <2>3. Target <= c /\ k \in Column /\ c % PageSize = k /\ Target + k = c
    <3>1. Target <= c /\ c - Target \in Column /\ c % PageSize = c - Target
      BY <1>2, <1>3, <1>6, CurrentPage
    <3> QED
      BY <1>3, <3>1 DEF Cell
  <2> HIDE DEF k
  <2>4. mem'[c] = Programmed(mem[c], Merged[k])
    BY <1>4, <1>6, <1>9, <2>2, <2>3
  <2>5. k < CopySize
    <3>1. SUFFICES ASSUME ~(k < CopySize) PROVE FALSE
      OBVIOUS
    <3>2. Merged[k] = mem[c]
      BY <2>3, <3>1 DEF Merged
    <3> QED
      BY <2>4, <3>2 DEF Programmed
  <2>6. req.addr <= c /\ c < req.addr + OpLen /\ OpLen > 0
    <3>1. /\ i \in Nat /\ OpLen \in Nat /\ req.addr \in Nat /\ PageSize \in Nat /\ k \in Nat
          /\ c \in Nat
      BY <2>3, OpLenType, ConstantTypes
         DEF TypeOK, OperationTypeOK, RequestType, Word, Column, Cell
    <3>2. k < OpLen - i
      BY <2>5, <3>1 DEF CopySize
    <3> QED
      BY <1>2, <1>3, <2>3, <3>1, <3>2
  <2> QED
    BY <2>6, RequestRange
<1> QED
  BY <1>5, <1>8, <1>9

(* The two commands that change a cell of the part, the page program and the *)
(* block erase, stay in the range the invariants give their target.       *)
LEMMA ConfinedByInvariants ==
  /\ TypeOK /\ OperationInv /\ DieInv /\ PageInv /\ ProgramInv /\ BlockInv /\ [Next]_vars
  /\ DieSelect => BeyondFirstDie /\ ~fault
  => ConfinedStep
<1> SUFFICES ASSUME TypeOK, OperationInv, DieInv, PageInv, ProgramInv, BlockInv, [Next]_vars,
                    DieSelect => BeyondFirstDie /\ ~fault, InDevice,
                    NEW c \in Cell, mem'[c] # mem[c]
             PROVE  \/ req.op = "erase" /\ c \in Asked
                    \/ req.op = "write" /\ c \in Asked
                    \/ /\ req.op = "write" /\ \E a \in Asked : a \div PageSize = c \div PageSize
                       /\ fault \/ uncorrectable \/ c \div RegionSize \in Worn
  BY DEF ConfinedStep
<1>1. BeyondFirstDie /\ (DieSelect => ~fault)
  BY NandAssumption DEF BeyondFirstDie
<1>2. CASE program_execute
  BY <1>1, <1>2, ProgramConfined
<1>3. CASE erase_block
  <2>1. pc = "er_cmd"
    BY <1>3 DEF erase_block
  <2>2. ChipBlockErase(Row)
    BY <1>3 DEF erase_block, Send, chipVars
  <2>3. Target <= c /\ c < Target + RegionSize
    BY <1>1, <2>1, <2>2, BlockErased
  <2> QED
    BY <2>1, <2>3, CurrentBlock DEF EraseLabels
<1> QED
  BY <1>2, <1>3, MemStep

(* No step changes a cell that is not the request's to change: on a part   *)
(* with several dies, while the driver and the part agree on the die.      *)
THEOREM ConfinedCorrect ==
  Spec => [][(DieSelect => BeyondFirstDie /\ ~fault) => ConfinedStep]_vars
<1>1. /\ TypeOK /\ OperationInv /\ DieInv /\ PageInv /\ ProgramInv /\ BlockInv
      /\ [Next]_vars
      => [(DieSelect => BeyondFirstDie /\ ~fault) => ConfinedStep]_vars
  BY ConfinedByInvariants
<1> QED
  BY <1>1, DataInvariants, PTL DEF Spec

(* On a part with one die no step at all does, whatever goes wrong.        *)
THEOREM SingleDieConfined ==
  ASSUME ~DieSelect
  PROVE  Spec => Confined
<1>1. /\ TypeOK /\ OperationInv /\ DieInv /\ PageInv /\ ProgramInv /\ BlockInv
      /\ [Next]_vars
      => [ConfinedStep]_vars
  BY ConfinedByInvariants
<1> QED
  BY <1>1, DataInvariants, PTL DEF Spec, Confined
=============================================================================
