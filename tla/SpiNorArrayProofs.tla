------------------------- MODULE SpiNorArrayProofs -------------------------
(***************************************************************************)
(* Theorems about what the SPI NOR driver does to the array: which cells a *)
(* step changes, what a command that reports success has done, and that    *)
(* every command is a FlashCommand.                                        *)
(***************************************************************************)
EXTENDS SpiNorCommand, SpiNorOutcomeProofs

-----------------------------------------------------------------------------
(* The loops.                                                              *)

(* Numbers of the request, which a step that keeps it keeps.               *)
LEMMA RequestNumbers ==
  ASSUME TypeOK
  PROVE  req.addr \in Nat /\ OpLen \in Nat /\ i \in Nat /\ DeviceSize \in Nat \ {0}
<1>1. req.addr \in Nat /\ OpLen \in Nat /\ i \in Nat
  BY OpLenType, ConstantTypes DEF TypeOK, OperationTypeOK, RequestType, Word
<1>2. 0 < DeviceSize
  <2>1. NumRegions \in Nat \ {0} /\ RegionSize \in Nat \ {0}
    BY ConstantTypes
  <2>2. 1 * RegionSize <= NumRegions * RegionSize
    BY <2>1, ProductMonotonic
  <2> QED
    BY <2>1, <2>2 DEF DeviceSize
<1> QED
  BY <1>1, <1>2, ConstantTypes

(* The length follows from the command line alone.                         *)
LEMMA SameLength == UNCHANGED req => OpLen' = OpLen
  BY DEF OpLen, fill_addr_len

(* A process that ends is undisturbed again, and in no loop.               *)
LEMMA QuitLoop == Quit => LoopInv'
  BY DEF Quit, LoopInv, Undisturbed, HeadsFor, At, ModeLabels, WaitsFor, SwitchesFor, SectorLabels,
         BulkLabels, WriteLabels

(* Each loop adds one chunk at a time, and only below its end.             *)
LEMMA LoopStep == TypeOK /\ OperationInv /\ LoopInv /\ [Next]_vars => LoopInv'
<1> SUFFICES ASSUME TypeOK, OperationInv, LoopInv, [Next]_vars PROVE LoopInv'
  OBVIOUS
<1> USE DEF LoopInv, Undisturbed, StartLabels, SectorLabels, BulkLabels, WriteLabels,
            HeadsFor, At, ModeLabels, WaitsFor, SwitchesFor, EnterReturns, LeaveReturns,
            Goto, Finish, CallWait, chipVars, callVars, opVars, histVars
<1>0. /\ UNCHANGED req => OpLen' = OpLen
      /\ OpLen \in Nat /\ i \in Nat
      /\ 0 % RegionSize = 0 /\ 0 % PageSize = 0
  BY SameLength, RequestNumbers, ZeroMultiple, ConstantTypes
<1>1. CASE \E r \in Requests : Start(r)
  BY <1>0, <1>1 DEF Start
<1>2. CASE spi_nor_probe
  BY <1>0, <1>2, QuitLoop DEF spi_nor_probe
<1>3. CASE spi_nor_init
  BY <1>0, <1>3 DEF spi_nor_init
<1>4. CASE do_identify
  BY <1>0, <1>4 DEF do_identify
<1>5. CASE do_unlock
  BY <1>0, <1>5 DEF do_unlock
<1>6. CASE do_lock
  BY <1>0, <1>6 DEF do_lock
<1>7. CASE do_erase
  BY <1>0, <1>7, QuitLoop DEF do_erase
<1>8. CASE do_read
  BY <1>0, <1>8, QuitLoop DEF do_read
<1>9. CASE do_write
  BY <1>0, <1>9, QuitLoop DEF do_write
<1>10. CASE wait_ready
  BY <1>0, <1>10 DEF wait_ready, Polled, Return, TypeOK, ControlTypeOK, WaitReturns, OperationInv
<1>11. CASE mode_4byte
  BY <1>0, <1>11 DEF mode_4byte, TypeOK, ControlTypeOK, ModeReturns, OperationInv
<1>12. CASE write_enable
  BY <1>0, <1>12 DEF write_enable, AfterWren
<1>13. CASE erase_ready
  BY <1>0, <1>13 DEF erase_ready, CallMode
<1>14. CASE erase_sector
  BY <1>0, <1>14 DEF erase_sector
<1>15. CASE erase_done
  BY <1>0, <1>15 DEF erase_done, CallMode
<1>16. CASE erase_next
  <2>1. RegionSize \in Nat \ {0}
    BY ConstantTypes
  <2>2. i % RegionSize = 0 => (i + RegionSize) % RegionSize = 0
    BY <1>0, <2>1, NextMultiple
  <2> QED
    BY <1>0, <1>16, <2>1, <2>2 DEF erase_next
<1>17. CASE bulk_ready
  BY <1>0, <1>17 DEF bulk_ready
<1>18. CASE bulk_erase
  BY <1>0, <1>18 DEF bulk_erase
<1>19. CASE bulk_done
  BY <1>0, <1>19 DEF bulk_done
<1>20. CASE read_ready
  BY <1>0, <1>20 DEF read_ready, CallMode
<1>21. CASE read_chunk
  BY <1>0, <1>21 DEF read_chunk, CallMode
<1>22. CASE read_end
  BY <1>0, <1>22 DEF read_end
<1>23. CASE write_ready
  BY <1>0, <1>23 DEF write_ready, CallMode
<1>24. CASE write_settle
  BY <1>0, <1>24 DEF write_settle
<1>25. CASE write_page
  BY <1>0, <1>25 DEF write_page
<1>26. CASE write_next
  <2>1. PageSize \in Nat \ {0}
    BY ConstantTypes
  <2>2. i % PageSize = 0 => (i + PageSize) % PageSize = 0
    BY <1>0, <2>1, NextMultiple
  <2> QED
    BY <1>0, <1>26, <2>1, <2>2 DEF write_next, CallMode, StopWriting
<1>27. CASE write_done
  BY <1>0, <1>27 DEF write_done
<1>28. CASE lock_read
  BY <1>0, <1>28 DEF lock_read
<1>29. CASE lock_write
  BY <1>0, <1>29 DEF lock_write
<1>30. CASE lock_reread
  BY <1>0, <1>30 DEF lock_reread
<1>31. CASE cleanup
  BY <1>0, <1>31, QuitLoop DEF cleanup
<1>32. CASE sigterm
  BY <1>0, <1>32 DEF sigterm
<1>33. CASE Crash
  BY <1>0, <1>33, QuitLoop DEF Crash
<1>34. CASE ChipStep
  BY <1>0, <1>34 DEF ChipStep
<1>35. CASE mode_ear
  BY <1>0, <1>35 DEF mode_ear, TypeOK, ControlTypeOK, ModeReturns, OperationInv
<1>36. CASE UNCHANGED vars
  BY <1>0, <1>36 DEF vars
<1> QED
  BY <1>1, <1>2, <1>3, <1>4, <1>5, <1>6, <1>7, <1>8, <1>9, <1>10, <1>11, <1>12, <1>13,
     <1>14, <1>15, <1>16, <1>17, <1>18, <1>19, <1>20, <1>21, <1>22, <1>23, <1>24, <1>25,
     <1>26, <1>27, <1>28, <1>29, <1>30, <1>31, <1>32, <1>33, <1>34, <1>35, <1>36
     DEF Next, Program

(* A process that ends has no command to send.                             *)
LEMMA QuitLatch == Quit => LatchInv'
  BY DEF Quit, LatchInv, At

(* WREN reaches an idle chip, which stays idle until the command comes;    *)
(* only WRSR puts BP bits on their way.                                    *)
LEMMA LatchStep ==
  TypeOK /\ BusyChipLeftAlone /\ FlagsInv /\ LatchInv /\ [Next]_vars => LatchInv'
<1> SUFFICES ASSUME TypeOK, BusyChipLeftAlone, FlagsInv, LatchInv, [Next]_vars PROVE LatchInv'
  OBVIOUS
<1> USE DEF LatchInv, At, Goto, Finish, CallWait, Fail, chipVars, callVars, opVars, histVars
<1>0. misread => fault
  BY DEF TypeOK, FlagTypeOK
<1>1. CASE \E r \in Requests : Start(r)
  BY <1>1 DEF Start
<1>2. CASE spi_nor_probe
  BY <1>2, QuitLatch DEF spi_nor_probe, FlagsInv
<1>3. CASE spi_nor_init
  BY <1>3 DEF spi_nor_init
<1>4. CASE do_identify
  BY <1>4 DEF do_identify
<1>5. CASE do_unlock
  BY <1>5 DEF do_unlock
<1>6. CASE do_lock
  BY <1>6 DEF do_lock
<1>7. CASE do_erase
  BY <1>7, QuitLatch DEF do_erase
<1>8. CASE do_read
  BY <1>8, QuitLatch DEF do_read
<1>9. CASE do_write
  BY <1>9, QuitLatch DEF do_write
<1>10. CASE wait_ready
  BY <1>10 DEF wait_ready, Polled, Return, TypeOK, ControlTypeOK, WaitReturns
<1>11. CASE mode_4byte
  BY <1>11 DEF mode_4byte, ChipSetMode, TypeOK, ControlTypeOK, ModeReturns, EnterReturns,
      LeaveReturns
<1>12. CASE write_enable
  <2>1. pc \in {"se_wren", "be_wren", "wr_wren", "lk_wren", "mode_wren"} /\ (fault \/ ~wip)
    BY <1>0, <1>12 DEF write_enable, AfterWren, BusyChipLeftAlone
  <2>2. UNCHANGED <<req, bp, bpNext>>
    BY <1>12 DEF write_enable, Send, ChipWren
  <2>3. ~fault' => ~fault /\ wel'
    BY <1>12, <2>1 DEF write_enable, Send, ChipWren
  <2> QED
    BY <2>1, <2>2, <2>3
<1>13. CASE erase_ready
  BY <1>13 DEF erase_ready, CallMode
<1>14. CASE erase_sector
  BY <1>14, ChipCommandBits DEF erase_sector, Send
<1>15. CASE erase_done
  BY <1>15 DEF erase_done, CallMode
<1>16. CASE erase_next
  BY <1>16 DEF erase_next
<1>17. CASE bulk_ready
  BY <1>17 DEF bulk_ready
<1>18. CASE bulk_erase
  BY <1>18, ChipCommandBits DEF bulk_erase, Send
<1>19. CASE bulk_done
  BY <1>19 DEF bulk_done, Send, ChipWrdi
<1>20. CASE read_ready
  BY <1>20 DEF read_ready, CallMode
<1>21. CASE read_chunk
  BY <1>21 DEF read_chunk, CallMode
<1>22. CASE read_end
  BY <1>22 DEF read_end
<1>23. CASE write_ready
  BY <1>23 DEF write_ready, CallMode
<1>24. CASE write_settle
  BY <1>24 DEF write_settle
<1>25. CASE write_page
  BY <1>25, ChipCommandBits DEF write_page
<1>26. CASE write_next
  BY <1>26 DEF write_next, CallMode
<1>27. CASE write_done
  BY <1>27 DEF write_done, Send, ChipWrdi
<1>28. CASE lock_read
  BY <1>28 DEF lock_read
<1>29. CASE lock_write
  BY <1>29 DEF lock_write, FlagsInv, LockLabels
<1>30. CASE lock_reread
  BY <1>30 DEF lock_reread
<1>31. CASE cleanup
  BY <1>31, QuitLatch DEF cleanup
<1>32. CASE sigterm
  BY <1>32 DEF sigterm
<1>33. CASE Crash
  BY <1>33, QuitLatch DEF Crash
<1>34. CASE ChipStep
  BY <1>0, <1>34 DEF ChipStep, ChipDone, BusyChipLeftAlone
<1>35. CASE mode_ear
  BY <1>35 DEF mode_ear, Send, ChipWriteExtended, ChipWrdi, TypeOK, ControlTypeOK, ModeReturns,
                    EnterReturns, LeaveReturns
<1>36. CASE UNCHANGED vars
  BY <1>36 DEF vars
<1> QED
  BY <1>1, <1>2, <1>3, <1>4, <1>5, <1>6, <1>7, <1>8, <1>9, <1>10, <1>11, <1>12, <1>13,
     <1>14, <1>15, <1>16, <1>17, <1>18, <1>19, <1>20, <1>21, <1>22, <1>23, <1>24, <1>25,
     <1>26, <1>27, <1>28, <1>29, <1>30, <1>31, <1>32, <1>33, <1>34, <1>35, <1>36
     DEF Next, Program

-----------------------------------------------------------------------------
(* The cells of a command.                                                 *)

(* The cells that share a quotient with a multiple follow from it on.      *)
LEMMA ChunkCells ==
  ASSUME NEW a \in Nat, NEW d \in Nat \ {0}, a % d = 0, a < DeviceSize, NEW c \in Cell
  PROVE  c \div d = (a % DeviceSize) \div d <=> a <= c /\ c < a + d
<1>1. c \in Nat /\ DeviceSize \in Nat
  BY ConstantTypes DEF Cell
<1>2. a % DeviceSize = a
  BY <1>1
<1> DEFINE q == a \div d
<1>3. q \in Nat /\ a = q * d
  BY DivMod
<1> HIDE DEF q
<1>4. c \div d = q <=> q * d <= c /\ c < q * d + d
  BY <1>1, <1>3, QuotientInterval
<1> QED
  BY <1>2, <1>3, <1>4 DEF q

(* A sector of the loop is the chunk at the loop offset.                   *)
LEMMA SectorAtOffset ==
  ASSUME TypeOK, i % RegionSize = 0, i < DeviceSize, NEW c \in Cell
  PROVE  c \in SectorOf(i) <=> i <= c /\ c < i + RegionSize
  BY RequestNumbers, ConstantTypes, ChunkCells DEF SectorOf

(* So is a page of the loop, of a request inside the device.               *)
LEMMA PageAtOffset ==
  ASSUME TypeOK, req.addr % PageSize = 0, i % PageSize = 0, i < OpLen, InDevice
  PROVE  /\ Target(i) = req.addr + i /\ Target(i) % DeviceSize = Target(i)
         /\ \A c \in Cell :
              c \in PageOf(Target(i)) <=> req.addr + i <= c /\ c < req.addr + i + PageSize
<1>1. req.addr \in Nat /\ OpLen \in Nat /\ i \in Nat /\ DeviceSize \in Nat \ {0}
  BY RequestNumbers
<1> DEFINE a == req.addr + i
<1>2. a \in Nat /\ a < DeviceSize
  BY <1>1 DEF InDevice
<1>3. DeviceSize < WordSize /\ WordSize \in Nat
  BY RegionsAssumption DEF DeviceSize
<1>4. Target(i) = a
  BY <1>1, <1>2, <1>3 DEF Target
<1>5. a % PageSize = 0
  BY <1>1, ConstantTypes, MultipleSum
<1>6. a % DeviceSize = a
  BY <1>1, <1>2
<1>7. ASSUME NEW c \in Cell
      PROVE  c \in PageOf(a) <=> a <= c /\ c < a + PageSize
  BY <1>2, <1>5, ConstantTypes, ChunkCells DEF PageOf
<1> QED
  BY <1>4, <1>6, <1>7

(* Nothing but a sector erase, a bulk erase and a page program of this     *)
(* process changes the array.                                              *)
LEMMA ArrayCommands ==
  ASSUME [Next]_vars, mem' # mem
  PROVE  erase_sector \/ bulk_erase \/ write_page
<1> SUFFICES ASSUME ~erase_sector, ~bulk_erase, ~write_page PROVE UNCHANGED mem
  OBVIOUS
<1> USE DEF chipVars
<1>1. CASE \E r \in Requests : Start(r)
  BY <1>1 DEF Start
<1>2. CASE spi_nor_probe
  BY <1>2 DEF spi_nor_probe, Quit
<1>3. CASE spi_nor_init
  BY <1>3 DEF spi_nor_init
<1>4. CASE do_identify
  BY <1>4 DEF do_identify
<1>5. CASE do_unlock
  BY <1>5 DEF do_unlock
<1>6. CASE do_lock
  BY <1>6 DEF do_lock
<1>7. CASE do_erase
  BY <1>7 DEF do_erase, Quit
<1>8. CASE do_read
  BY <1>8 DEF do_read, Quit
<1>9. CASE do_write
  BY <1>9 DEF do_write, Quit
<1>10. CASE wait_ready
  BY <1>10 DEF wait_ready, Polled
<1>11. CASE mode_4byte
  BY <1>11 DEF mode_4byte, ChipSetMode
<1>12. CASE write_enable
  BY <1>12 DEF write_enable, Send, ChipWren
<1>13. CASE erase_ready
  BY <1>13 DEF erase_ready
<1>14. CASE erase_sector
  BY <1>14
<1>15. CASE erase_done
  BY <1>15 DEF erase_done
<1>16. CASE erase_next
  BY <1>16 DEF erase_next
<1>17. CASE bulk_ready
  BY <1>17 DEF bulk_ready
<1>18. CASE bulk_erase
  BY <1>18
<1>19. CASE bulk_done
  BY <1>19 DEF bulk_done, Send, ChipWrdi
<1>20. CASE read_ready
  BY <1>20 DEF read_ready
<1>21. CASE read_chunk
  BY <1>21 DEF read_chunk
<1>22. CASE read_end
  BY <1>22 DEF read_end
<1>23. CASE write_ready
  BY <1>23 DEF write_ready
<1>24. CASE write_settle
  BY <1>24 DEF write_settle
<1>25. CASE write_page
  BY <1>25
<1>26. CASE write_next
  BY <1>26 DEF write_next
<1>27. CASE write_done
  BY <1>27 DEF write_done, Send, ChipWrdi
<1>28. CASE lock_read
  BY <1>28 DEF lock_read
<1>29. CASE lock_write
  BY <1>29 DEF lock_write, Send, ChipWriteStatus
<1>30. CASE lock_reread
  BY <1>30 DEF lock_reread
<1>31. CASE cleanup
  BY <1>31 DEF cleanup, Quit
<1>32. CASE sigterm
  BY <1>32 DEF sigterm
<1>33. CASE Crash
  BY <1>33 DEF Crash, Quit
<1>34. CASE ChipStep
  BY <1>34 DEF ChipStep, ChipDone
<1>35. CASE mode_ear
  BY <1>35 DEF mode_ear, Send, ChipWriteExtended, ChipWrdi
<1>36. CASE UNCHANGED vars
  BY <1>36 DEF vars
<1> QED
  BY <1>1, <1>2, <1>3, <1>4, <1>5, <1>6, <1>7, <1>8, <1>9, <1>10, <1>11, <1>12, <1>13,
     <1>14, <1>15, <1>16, <1>17, <1>18, <1>19, <1>20, <1>21, <1>22, <1>23, <1>24, <1>25,
     <1>26, <1>27, <1>28, <1>29, <1>30, <1>31, <1>32, <1>33, <1>34, <1>35, <1>36
     DEF Next, Program

-----------------------------------------------------------------------------
(* Confinement.                                                            *)

(* Without BP bits every change is accepted.                               *)
LEMMA NothingProtected == bp = 0 => \A c \in Cell : ~Protected(c)
<1> SUFFICES ASSUME bp = 0, NEW c \in Cell PROVE ~(c \div RegionSize >= NumRegions)
  BY ConstantTypes DEF Protected, ProtectedRegions
<1> DEFINE s == c \div RegionSize
<1>1. c \in Nat /\ c < NumRegions * RegionSize /\ RegionSize \in Nat \ {0} /\ NumRegions \in Nat
  BY ConstantTypes DEF Cell, DeviceSize
<1>2. s \in Nat /\ s * RegionSize <= c
  BY <1>1, DivisionFacts
<1> HIDE DEF s
<1>3. s * RegionSize \in Nat /\ NumRegions * RegionSize \in Nat
  BY <1>1, <1>2
<1>4. s < NumRegions
  BY <1>1, <1>2, <1>3, ProductOrder
<1> QED
  BY <1>1, <1>2, <1>4 DEF s

(* A page program with the right address length programs the image's bytes *)
(* to the page at the loop offset, or nothing.                             *)
LEMMA PageProgram ==
  ASSUME TypeOK, PageAligned, InDevice, i % PageSize = 0, i < OpLen,
         ChipPageProgram(Target(i), OpLen - i), NEW c \in Cell
  PROVE  /\ c \in PageOf(Target(i)) => c \in Range
         /\ \/ mem'[c] = mem[c]
            \/ c \in PageOf(Target(i)) /\ mem'[c] = Programmed(mem[c], "img")
         /\ Enabled /\ bp = 0 /\ c \in PageOf(Target(i)) => mem'[c] = Programmed(mem[c], "img")
<1>1. /\ req.addr \in Nat /\ OpLen \in Nat /\ i \in Nat /\ c \in Nat
      /\ PageSize \in Nat \ {0} /\ DeviceSize \in Nat
  BY RequestNumbers, ConstantTypes DEF Cell
<1> DEFINE first == Target(i) % DeviceSize
           data(e) == IF e \in first .. first + (OpLen - i) - 1 THEN "img" ELSE "bad"
           new == [e \in Cell |-> Programmed(mem[e], data(e))]
           page == PageOf(Target(i))
<1>2. ChipChange(page, new)
  BY DEF ChipPageProgram
<1>3. first = req.addr + i /\ (c \in page <=> req.addr + i <= c /\ c < req.addr + i + PageSize)
  BY PageAtOffset DEF PageAligned
<1>4. i + PageSize <= OpLen
  BY <1>1, MultipleGap DEF PageAligned
<1>5. c \in page => c \in Range
  BY <1>1, <1>3, <1>4 DEF Range
<1>6. c \in page => data(c) = "img"
  BY <1>1, <1>3, <1>4
<1>7. c \in page => new[c] = Programmed(mem[c], "img")
  BY <1>6
<1> HIDE DEF new, page
<1>10. page \subseteq Cell
  BY DEF page, PageOf
<1> QED
  BY <1>2, <1>5, <1>7, <1>10, NothingProtected DEF ChipChange, chipVars, page

(* Accepted writes do not wrap.                                            *)
LEMMA AcceptedWriteInDevice ==
  ASSUME TypeOK, ~WriteRefused, req.addr + OpLen < WordSize
  PROVE  InDevice
<1>1. req.addr \in Nat /\ OpLen \in Nat /\ WordSize \in Nat
  BY RequestNumbers, ConstantTypes
<1>2. EndOf(req.addr, OpLen) = req.addr + OpLen
  BY <1>1 DEF EndOf
<1> QED
  BY <1>1, <1>2, ConstantTypes DEF WriteRefused, InDevice

(* The page that a write programs next has a cell of its range.            *)
LEMMA PageMeetsRange ==
  ASSUME TypeOK, InDevice, i < OpLen, NEW c \in PageOf(Target(i))
  PROVE  \E d \in Range : c \in PageOf(d)
<1> DEFINE a == req.addr + i
<1>1. /\ req.addr \in Nat /\ OpLen \in Nat /\ i \in Nat /\ DeviceSize \in Nat
      /\ DeviceSize < WordSize /\ WordSize \in Nat
  BY RequestNumbers, RegionsAssumption DEF DeviceSize
<1>2. a \in Nat /\ a < DeviceSize /\ req.addr <= a /\ a < req.addr + OpLen
  BY <1>1 DEF InDevice
<1>3. Target(i) = a
  <2>1. a < WordSize
    BY <1>1, <1>2
  <2> QED
    BY <1>1, <1>2, <2>1 DEF Target
<1>4. a \in Range
  BY <1>1, <1>2 DEF Range, Cell
<1> QED
  BY <1>3, <1>4

(* The range of an erase by sectors that starts the device, and ends it or *)
(* goes beyond, has every cell of every sector the loop comes to.          *)
LEMMA SectorInRange ==
  ASSUME TypeOK, req.addr = 0, OpLen % RegionSize = 0, i % RegionSize = 0, i < OpLen,
         NEW c \in SectorOf(i)
  PROVE  c \in Range
<1>1. /\ OpLen \in Nat /\ i \in Nat /\ DeviceSize \in Nat /\ RegionSize \in Nat \ {0}
      /\ c \in Cell /\ c \in Nat /\ c < DeviceSize
  BY RequestNumbers, ConstantTypes DEF SectorOf, Cell
<1>2. i + RegionSize <= OpLen
  BY <1>1, MultipleGap
<1>3. CASE i < DeviceSize
  BY <1>1, <1>2, <1>3, SectorAtOffset DEF Range
<1>4. CASE ~(i < DeviceSize)
  BY <1>1, <1>4 DEF Range
<1> QED
  BY <1>3, <1>4

(* The invariants that say where a changing command is sent from.          *)
LEMMA ConfinedByInvariants ==
  ASSUME TypeOK, AddressModeAgrees, FlagsInv, LoopInv, [Next]_vars
  PROVE  ConfinedStep
<1> SUFFICES ASSUME mem' # mem, ~fault', req.addr + OpLen < WordSize
             PROVE  \/ /\ req.op = "write"
                       /\ \A c \in Cell : mem'[c] # mem[c] =>
                            /\ \E d \in Range : c \in PageOf(d)
                            /\ PageAligned => c \in Range /\ (mem[c] = "ff" => mem'[c] = "img")
                    \/ /\ req.op = "erase"
                       /\ req.addr = 0 => \A c \in Cell : mem'[c] # mem[c] => c \in Range
  BY DEF ConfinedStep
<1>1. CASE erase_sector
  <2>1. pc = "se_cmd" /\ ~fault
    BY <1>1 DEF erase_sector, Send, Fail
  <2>2. fourByte = Addr4b
    BY <2>1 DEF AddressModeAgrees
  <2>3. /\ req.op = "erase" /\ OpLen % RegionSize = 0 /\ i % RegionSize = 0 /\ i < OpLen
    BY <2>1 DEF LoopInv, HeadsFor, At, SectorLabels
  <2>4. ChipChange(SectorOf(i), Erased)
    BY <1>1, <2>2 DEF erase_sector, Send, Fail, ChipSectorErase
  <2>5. \A c \in Cell : mem'[c] # mem[c] => c \in SectorOf(i)
    BY <2>4 DEF ChipChange, chipVars
  <2> QED
    BY <2>3, <2>5, SectorInRange
<1>2. CASE bulk_erase
  <2>1. req.op = "erase" /\ req.addr = 0 /\ OpLen = DeviceSize
    BY <1>2 DEF bulk_erase, LoopInv, HeadsFor, At, BulkLabels
  <2>2. Range = Cell
    BY <2>1, RequestNumbers DEF Range, Cell
  <2> QED
    BY <2>1, <2>2
<1>3. CASE write_page
  <2>1. pc = "wr_cmd" /\ ~fault
    BY <1>3 DEF write_page, Fail
  <2>2. fourByte = Addr4b
    BY <2>1 DEF AddressModeAgrees
  <2>3. req.op = "write" /\ i % PageSize = 0 /\ i < OpLen /\ ~WriteRefused
    BY <2>1 DEF LoopInv, FlagsInv, HeadsFor, At, WriteLabels
  <2>4. ChipPageProgram(Target(i), OpLen - i)
    BY <1>3, <2>2 DEF write_page, Fail
  <2>5. InDevice
    BY <2>3, AcceptedWriteInDevice
  <2>6. ASSUME NEW c \in Cell, mem'[c] # mem[c]
        PROVE  \E d \in Range : c \in PageOf(d)
    <3>1. c \in PageOf(Target(i))
      BY <2>4, <2>6 DEF ChipPageProgram, ChipChange, chipVars
    <3> QED
      BY <2>3, <2>5, <3>1, PageMeetsRange
  <2>7. ASSUME PageAligned, NEW c \in Cell, mem'[c] # mem[c]
        PROVE  c \in Range /\ (mem[c] = "ff" => mem'[c] = "img")
    BY <2>3, <2>4, <2>5, <2>7, PageProgram DEF Programmed
  <2> QED
    BY <2>3, <2>6, <2>7
<1> QED
  BY <1>1, <1>2, <1>3, ArrayCommands

(* Everything that is known of a state of the driver.                      *)
LEMMA ArrayInvariants ==
  Spec => [](/\ TypeOK /\ IdleChipInv /\ ModeInv /\ FlagsInv /\ OperationInv /\ SettledInv
             /\ LeavingInv /\ LoopInv /\ LatchInv /\ BusyChipLeftAlone /\ AddressModeAgrees)
<1> DEFINE Inv == /\ IdleChipInv /\ ModeInv /\ FlagsInv /\ OperationInv /\ SettledInv
                  /\ LeavingInv /\ LoopInv /\ LatchInv
<1>1. Init => Inv
  <2>1. Init => IdleChipInv /\ ModeInv /\ FlagsInv /\ OperationInv
    BY DEF Init, ProcessInit, IdleChipInv, ModeInv, FlagsInv, OperationInv, NoRequest, HeadsFor,
           At, ModeLabels, WaitsFor, SwitchesFor, IdleChipLabels, DecidingLabels, WriteLabels,
           LockLabels
  <2>2. Init => SettledInv /\ LeavingInv /\ LoopInv /\ LatchInv
    BY DEF Init, ProcessInit, SettledInv, LeavingInv, LoopInv, LatchInv, ExitLeavesChipIdle,
           Undisturbed, NoRequest, HeadsFor, At, ModeLabels, WaitsFor, SwitchesFor, ReadLabels,
           WriteLabels, SectorLabels, BulkLabels
  <2> QED
    BY <2>1, <2>2
<1>2. TypeOK /\ BusyChipLeftAlone /\ Inv /\ [Next]_vars => Inv'
  BY IdleChipStep, ModeStep, FlagsStep, OperationStep, SettledStep, LeavingStep, LoopStep,
     LatchStep
<1> HIDE DEF Inv
<1>3. Spec => []Inv
  BY <1>1, <1>2, TypeCorrect, BusyChipSafe, PTL DEF Spec
<1> QED
  BY <1>3, TypeCorrect, BusyChipSafe, AddressModeCorrect, PTL DEF Inv

(* No step changes the array but of a write, in the pages its range meets, *)
(* or of an erase; if the range of a write is whole pages, no cell outside *)
(* of it changes, and erased cells are programmed to the image's bytes.    *)
THEOREM NorConfined == Spec => Confined
<1>1. TypeOK /\ AddressModeAgrees /\ FlagsInv /\ LoopInv /\ [Next]_vars => ConfinedStep
  BY ConfinedByInvariants
<1>2. TypeOK /\ AddressModeAgrees /\ FlagsInv /\ LoopInv /\ [Next]_vars => [ConfinedStep]_vars
  BY <1>1
<1> QED
  BY <1>2, ArrayInvariants, PTL DEF Spec, Confined

-----------------------------------------------------------------------------
(* The refinement: each kind of step is a step of FlashCommand.            *)

(* What a running process is to FlashCommand.                              *)
LEMMA PhaseOfRun ==
  ASSUME pc \notin {"idle", "exit"}
  PROVE  /\ fault \/ ~Covered => Phase = "loose"
         /\ ~fault /\ Covered /\ (killed \/ late) => Phase = "halting"
         /\ ~fault /\ Covered /\ ~killed /\ ~late => Phase = "running"
  BY DEF Phase

LEMMA PhaseOfExit ==
  ASSUME pc = "exit"
  PROVE  /\ ret = "ok" /\ Covered /\ Undisturbed => Phase = "ok"
         /\ ~(ret = "ok" /\ Covered /\ Undisturbed) => Phase = "over"
         /\ Left = {}
  BY DEF Phase, Left

(* A process that ends, on its own or not.                                 *)
LEMMA QuitIsEnd ==
  ASSUME pc # "idle", Quit
  PROVE  Command!End
<1>1. Phase # "idle"
  BY DEF Phase
<1>2. pc' = "idle" /\ UNCHANGED mem
  BY DEF Quit, chipVars
<1>3. Phase' = "idle" /\ Left' = {}
  BY <1>2 DEF Phase, Left
<1> QED
  BY <1>1, <1>2, <1>3 DEF Command!End

(* A process that reaches its exit.                                        *)
LEMMA ExitStep ==
  ASSUME pc \notin {"idle", "exit"}, pc' = "exit",
         UNCHANGED <<mem, req, bpNext, killed, late>>, fault => fault',
         Covered /\ Undisturbed /\ ret' = "ok" => Left = {}
  PROVE  Command!Succeed \/ Command!GiveUp
<1>1. Covered' <=> Covered
  BY SameLength DEF Covered, InDevice, PageAligned
<1>2. Left' = {} /\ Phase' \in {"ok", "over"}
  BY DEF Phase, Left
<1>3. Phase \in {"running", "halting", "loose"}
  BY PhaseOfRun
<1>4. CASE Phase' = "ok"
  <2>1. ret' = "ok" /\ Covered /\ Undisturbed
    BY <1>1, <1>4 DEF Phase, Undisturbed
  <2>2. Phase = "running" /\ Left = {}
    BY <2>1 DEF Phase, Undisturbed
  <2> QED
    BY <1>2, <1>4, <2>2 DEF Command!Succeed
<1>5. CASE Phase' = "over"
  BY <1>2, <1>3, <1>5 DEF Command!GiveUp
<1> QED
  BY <1>2, <1>4, <1>5

(* A process of which FlashCommand expects nothing more.                   *)
LEMMA LooseStep ==
  ASSUME TypeOK', pc \notin {"idle", "exit"}, pc' \notin {"idle", "exit"}, UNCHANGED req,
         fault' \/ ~Covered'
  PROVE  Command!Loosen
<1>1. Phase' = "loose" /\ Left' = {}
  BY DEF Phase, Left
<1>2. Phase \in {"running", "halting", "loose"}
  BY PhaseOfRun
<1>3. mem' \in [Cell -> Command!Value]
  BY DEF TypeOK, ChipTypeOK, Value, Command!Value
<1> QED
  BY <1>1, <1>2, <1>3 DEF Command!Loosen

(* A step on the way from one chunk to the next, with or without ^C or a   *)
(* wait that gives up.                                                     *)
LEMMA QuietStep ==
  ASSUME TypeOK', pc \notin {"idle", "exit"}, pc' \notin {"idle", "exit"},
         UNCHANGED <<mem, req>>, UNCHANGED bpNext \/ req.op \notin {"erase", "write"},
         killed => killed', late => late', fault => fault',
         ~fault' /\ Covered /\ req.op \in {"erase", "write"}
           => (AllSent' <=> AllSent) /\ (AllSent \/ From' = From)
  PROVE  [Command!Next]_(Command!vars)
<1>1. Covered' <=> Covered
  BY SameLength DEF Covered, InDevice, PageAligned
<1>2. CASE fault' \/ ~Covered'
  BY <1>2, LooseStep DEF Command!Next
<1>3. CASE ~fault' /\ Covered'
  <2>1. Phase \in {"running", "halting"} /\ Phase' \in {"running", "halting"}
    BY <1>1, <1>3 DEF Phase
  <2>2. Phase = "halting" => Phase' = "halting"
    BY <1>1, <1>3 DEF Phase
  <2>3. Range' = Range
    BY SameLength DEF Range
  <2>4. Left' = Left
    BY <1>1, <1>3, <2>1, <2>3 DEF Left
  <2>5. CASE Phase' = Phase
    BY <2>4, <2>5 DEF Command!vars
  <2>6. CASE Phase' # Phase
    BY <2>1, <2>2, <2>4, <2>6 DEF Command!Upset, Command!Next
  <2> QED
    BY <2>5, <2>6
<1> QED
  BY <1>1, <1>2, <1>3

(* A step that changes cells of the request, all of the next chunk.        *)
LEMMA ChangeStep ==
  ASSUME TypeOK', pc \notin {"idle", "exit"}, pc' \notin {"idle", "exit"},
         UNCHANGED <<req, bpNext, killed, late>>, ~fault, ~fault', Covered,
         NEW cells, cells \subseteq Left, cells # {}, Left' = Left \ cells,
         \A c \in Cell : mem'[c] = IF c \in cells THEN Command!Changed(mem[c]) ELSE mem[c]
  PROVE  Command!Work
<1>1. Covered'
  BY SameLength DEF Covered, InDevice, PageAligned
<1>2. Phase \in {"running", "halting"} /\ Phase' = Phase
  BY <1>1 DEF Phase
<1>3. mem' \in [Cell -> Command!Value]
  BY DEF TypeOK, ChipTypeOK, Value, Command!Value
<1>4. Left' \in SUBSET Left /\ Left' # Left /\ Left \ Left' = cells
  OBVIOUS
<1>5. \A c \in Cell :
        mem'[c] \in
          IF c \in Left \ Left'
          THEN {Command!Changed(mem[c])} \cup (IF Phase = "halting" THEN {mem[c]} ELSE {})
          ELSE {mem[c]}
  BY <1>4
<1> QED
  BY <1>2, <1>3, <1>4, <1>5 DEF Command!Work

(* What FlashCommand calls a changed cell.                                 *)
LEMMA ChangedCells ==
  ASSUME TypeOK, pc # "idle", NEW c \in Cell
  PROVE  /\ req.op = "erase" => Command!Changed(mem[c]) = "ff"
         /\ req.op = "write" => Command!Changed(mem[c]) = Programmed(mem[c], "img")
  BY DEF Command!Changed, Programmed, TypeOK, ChipTypeOK, Value

(* A sector erase changes the sector at the loop offset and no other.      *)
LEMMA EraseSectorWorks ==
  ASSUME TypeOK, TypeOK', BusyChipLeftAlone, AddressModeAgrees, LoopInv, LatchInv,
         erase_sector, Covered, ~fault'
  PROVE  Command!Work
<1>1. /\ pc = "se_cmd" /\ ~fault /\ pc' = "wait" /\ waitRet' = "se_done"
      /\ UNCHANGED <<req, i, killed, late>>
  BY DEF erase_sector, Send, Fail, CallWait, opVars
<1>2. fourByte = Addr4b /\ ~wip /\ wel
  BY <1>1 DEF AddressModeAgrees, BusyChipLeftAlone, LatchInv, At, TypeOK, FlagTypeOK
<1>3. /\ req.op = "erase" /\ OpLen % RegionSize = 0 /\ i % RegionSize = 0 /\ i < OpLen
      /\ bp = bpNext
  BY <1>1 DEF LoopInv, LatchInv, HeadsFor, At, SectorLabels
<1>4. req.addr = 0 /\ OpLen <= DeviceSize /\ bp = 0
  BY <1>3, RequestNumbers DEF Covered, InDevice
<1>5. ChipChange(SectorOf(i), Erased)
  BY <1>1, <1>2 DEF erase_sector, Send, Fail, ChipSectorErase
<1>6. /\ UNCHANGED bpNext
      /\ mem' = [c \in Cell |-> IF c \in SectorOf(i) THEN Erased[c] ELSE mem[c]]
  BY <1>2, <1>4, <1>5, NothingProtected DEF ChipChange, Enabled, SectorOf
<1>7. /\ i \in Nat /\ i \in Cell /\ i < DeviceSize /\ OpLen \in Nat /\ RegionSize \in Nat \ {0}
      /\ DeviceSize \in Nat
  BY <1>3, <1>4, RequestNumbers, ConstantTypes DEF Cell
<1>8. \A c \in Cell : c \in SectorOf(i) <=> i <= c /\ c < i + RegionSize
  BY <1>3, <1>7, SectorAtOffset
<1>9. Left = {c \in Range : c >= i}
  BY <1>1, <1>3, <1>4, <1>7
     DEF Left, Phase, From, AllSent, ChunkSent, At, ModeLabels, WaitsFor, SwitchesFor
<1>10. Left' = {c \in Range : c >= i + RegionSize}
  <2>1. Covered' /\ Range' = Range
    BY <1>1, <1>6, SameLength DEF Covered, InDevice, PageAligned, Range
  <2>2. Phase' \in {"running", "halting"}
    BY <1>1, <2>1 DEF Phase
  <2>3. ~AllSent' /\ From' = i + RegionSize
    BY <1>1, <1>3, <1>4, <1>7
       DEF From, Chunk, AllSent, ChunkSent, At, ModeLabels, WaitsFor, SwitchesFor
  <2> QED
    BY <1>1, <1>3, <2>1, <2>2, <2>3 DEF Left
<1>11. SectorOf(i) \subseteq Range
  BY <1>3, <1>4, SectorInRange
<1>12. SectorOf(i) \subseteq Left /\ i \in SectorOf(i) /\ Left' = Left \ SectorOf(i)
  <2>1. \A c \in Range : c \in Cell /\ c \in Nat
    BY ConstantTypes DEF Range, Cell
  <2>2. SectorOf(i) \subseteq Left
    BY <1>8, <1>9, <1>11, <2>1
  <2>3. \A c \in Left : c \in SectorOf(i) <=> ~(c >= i + RegionSize)
    BY <1>7, <1>8, <1>9, <2>1
  <2>4. i \in SectorOf(i)
    BY <1>7, <1>8
  <2>5. \A c \in Left : c \in Range /\ c >= i /\ c \in Nat
    BY <1>9, <2>1
  <2>6. \A c \in Left' : c \in Left /\ c >= i + RegionSize
    BY <1>7, <1>9, <1>10, <2>1
  <2>7. \A c \in Left : c >= i + RegionSize => c \in Left'
    BY <1>10, <2>5
  <2> QED
    BY <2>2, <2>3, <2>4, <2>6, <2>7
<1>13. \A c \in Cell : mem'[c] = IF c \in SectorOf(i) THEN Command!Changed(mem[c]) ELSE mem[c]
  BY <1>1, <1>3, <1>6, ChangedCells DEF Erased
<1> QED
  BY <1>1, <1>6, <1>12, <1>13, ChangeStep

(* A bulk erase changes the whole part.                                    *)
LEMMA BulkEraseWorks ==
  ASSUME TypeOK, TypeOK', BusyChipLeftAlone, LoopInv, LatchInv, bulk_erase, Covered, ~fault'
  PROVE  Command!Work
<1>1. /\ pc = "be_cmd" /\ ~fault /\ pc' = "wait" /\ waitRet' = "be_wrdi"
      /\ UNCHANGED <<req, i, killed, late>>
  BY DEF bulk_erase, Send, Fail, CallWait, opVars
<1>2. ~wip /\ wel
  BY <1>1 DEF BusyChipLeftAlone, LatchInv, At, TypeOK, FlagTypeOK
<1>3. req.op = "erase" /\ req.addr = 0 /\ OpLen = DeviceSize /\ i = 0 /\ bp = bpNext
  BY <1>1 DEF LoopInv, LatchInv, HeadsFor, At, BulkLabels
<1>4. bp = 0
  BY <1>3 DEF Covered
<1>5. ChipChange(Cell, Erased)
  BY <1>1, <1>4 DEF bulk_erase, Send, Fail, ChipBulkErase
<1>6. UNCHANGED bpNext /\ mem' = [c \in Cell |-> IF c \in Cell THEN Erased[c] ELSE mem[c]]
  BY <1>2, <1>4, <1>5, NothingProtected DEF ChipChange, Enabled
<1>7. DeviceSize \in Nat /\ 0 \in Cell
  BY RequestNumbers DEF Cell
<1>8. Range = Cell
  BY <1>3, <1>7 DEF Range, Cell
<1>9. Left = Cell
  <2>1. Left = {c \in Range : c >= 0}
    BY <1>1, <1>3, <1>7 DEF Left, Phase, From, AllSent, ChunkSent, At, ModeLabels, WaitsFor, SwitchesFor
  <2> QED
    BY <1>7, <1>8, <2>1 DEF Cell
<1>10. Left' = {}
  BY <1>1 DEF Left, AllSent, WaitsFor
<1>11. \A c \in Cell : mem'[c] = IF c \in Cell THEN Command!Changed(mem[c]) ELSE mem[c]
  BY <1>1, <1>3, <1>6, ChangedCells DEF Erased
<1> QED
  BY <1>1, <1>6, <1>7, <1>9, <1>10, <1>11, ChangeStep

(* A page program changes the page at the loop offset and no other.        *)
LEMMA WritePageWorks ==
  ASSUME TypeOK, TypeOK', BusyChipLeftAlone, AddressModeAgrees, LoopInv, LatchInv,
         write_page, Covered, ~fault'
  PROVE  Command!Work
<1>1. /\ pc = "wr_cmd" /\ ~fault /\ pc' = "wait" /\ waitRet' = "wr_page"
      /\ UNCHANGED <<req, i, killed, late>>
  BY DEF write_page, Fail, CallWait, opVars
<1>2. fourByte = Addr4b /\ Enabled
  BY <1>1 DEF AddressModeAgrees, BusyChipLeftAlone, LatchInv, At, Enabled, TypeOK, FlagTypeOK
<1>3. req.op = "write" /\ i % PageSize = 0 /\ i < OpLen /\ bp = bpNext
  BY <1>1 DEF LoopInv, LatchInv, HeadsFor, At, WriteLabels
<1>4. InDevice /\ PageAligned /\ bp = 0
  BY <1>3 DEF Covered
<1>5. ChipPageProgram(Target(i), OpLen - i)
  BY <1>1, <1>2 DEF write_page, Fail
<1> DEFINE page == PageOf(Target(i))
           a == req.addr + i
<1>6. UNCHANGED bpNext
  BY <1>5 DEF ChipPageProgram, ChipChange, chipVars
<1>7. /\ a \in Nat /\ a < DeviceSize /\ req.addr \in Nat /\ i \in Nat /\ OpLen \in Nat
      /\ PageSize \in Nat \ {0} /\ DeviceSize \in Nat
  BY <1>3, <1>4, RequestNumbers, ConstantTypes DEF InDevice
<1>8. \A c \in Cell : c \in page <=> a <= c /\ c < a + PageSize
  BY <1>3, <1>4, PageAtOffset DEF PageAligned
<1>9. \A c \in Cell : /\ c \in page => c \in Range /\ mem'[c] = Programmed(mem[c], "img")
                      /\ c \notin page => mem'[c] = mem[c]
  BY <1>2, <1>3, <1>4, <1>5, PageProgram
<1>10. page \subseteq Cell
  BY DEF PageOf
<1> HIDE DEF page
<1>11. Left = {c \in Range : c >= a}
  BY <1>1, <1>3, <1>7 DEF Left, Phase, From, AllSent, ChunkSent, At, ModeLabels, WaitsFor, SwitchesFor
<1>12. Left' = {c \in Range : c >= a + PageSize}
  <2>1. Covered' /\ Range' = Range
    BY <1>1, <1>6, SameLength DEF Covered, InDevice, PageAligned, Range
  <2>2. Phase' \in {"running", "halting"}
    BY <1>1, <2>1 DEF Phase
  <2>3. ~AllSent' /\ From' = a + PageSize
    BY <1>1, <1>3, <1>7 DEF From, Chunk, AllSent, ChunkSent, At, ModeLabels, WaitsFor, SwitchesFor
  <2> QED
    BY <1>1, <1>3, <2>1, <2>2, <2>3 DEF Left
<1>13. page \subseteq Left /\ a \in page /\ Left' = Left \ page
  <2>1. \A c \in Range : c \in Cell /\ c \in Nat
    BY ConstantTypes DEF Range, Cell
  <2>2. \A c \in Left : c \in Range /\ c >= a /\ c \in Nat /\ c \in Cell
    BY <1>11, <2>1
  <2>3. page \subseteq Left
    BY <1>8, <1>9, <1>10, <1>11, <2>1
  <2>4. a \in Cell
    BY <1>7 DEF Cell
  <2>5. a \in page
    BY <1>7, <1>8, <2>4
  <2>6. \A c \in Left' : c \in Left /\ c >= a + PageSize
    BY <1>7, <1>11, <1>12, <2>1
  <2>7. \A c \in Left : c >= a + PageSize => c \in Left'
    BY <1>12, <2>2
  <2>8. \A c \in Left : c \in page <=> ~(c >= a + PageSize)
    BY <1>7, <1>8, <2>2
  <2> QED
    BY <2>3, <2>5, <2>6, <2>7, <2>8
<1>14. \A c \in Cell : mem'[c] = IF c \in page THEN Command!Changed(mem[c]) ELSE mem[c]
  BY <1>1, <1>3, <1>9, ChangedCells
<1> QED
  BY <1>1, <1>6, <1>13, <1>14, ChangeStep

(* A write that stops before its end has been told to.                     *)
LEMMA WriteNextStep ==
  ASSUME TypeOK, TypeOK', SettledInv, LoopInv, write_next
  PROVE  [Command!Next]_(Command!vars)
<1>1. /\ pc = "wr_page" /\ pc' \notin {"idle", "exit"} /\ req.op = "write"
      /\ UNCHANGED <<mem, req, bpNext, killed, late, fault>>
  BY DEF write_next, CallMode, Goto, LoopInv, HeadsFor, At, WriteLabels, chipVars, histVars
<1>2. req.addr \in Nat /\ OpLen \in Nat /\ i \in Nat /\ PageSize \in Nat \ {0}
  BY RequestNumbers, ConstantTypes
<1>3. ~AllSent /\ From = req.addr + i + PageSize
  BY <1>1, <1>2 DEF AllSent, From, ChunkSent, Chunk, At, ModeLabels, WaitsFor, SwitchesFor
<1>4. CASE ~StopWriting
  <2>1. pc' = "wr_wren" /\ i' = i + PageSize
    BY <1>4 DEF write_next, Goto
  <2>2. ~AllSent' /\ From' = req.addr + i + PageSize
    BY <1>1, <1>2, <2>1 DEF AllSent, From, ChunkSent, At, ModeLabels, WaitsFor, SwitchesFor
  <2> QED
    BY <1>1, <1>3, <2>2, QuietStep
<1>5. CASE StopWriting /\ (fault \/ ~Covered)
  <2>1. fault' \/ ~Covered'
    BY <1>1, <1>5, SameLength DEF Covered, InDevice, PageAligned
  <2> QED
    BY <1>1, <2>1, LooseStep DEF Command!Next
<1>6. CASE StopWriting /\ ~fault /\ Covered
  <2>1. AllSent'
    BY <1>6 DEF write_next, CallMode, AllSent, At, ModeLabels, WaitsFor, SwitchesFor
  <2>2. Covered'
    BY <1>1, <1>6, SameLength DEF Covered, InDevice, PageAligned
  <2>3. Phase \in {"running", "halting"} /\ Phase' = Phase
    BY <1>1, <1>6, <2>2 DEF Phase
  <2>4. Left' = {} /\ Left = {c \in Range : c >= req.addr + i + PageSize}
    BY <1>1, <1>3, <1>6, <2>1, <2>3 DEF Left
  <2>5. CASE Left = {}
    BY <1>1, <2>3, <2>4, <2>5 DEF Command!vars
  <2>6. CASE Left # {}
    <3>1. i + PageSize < OpLen
      <4>1. PICK c \in Range : c >= req.addr + i + PageSize
        BY <2>4, <2>6
      <4>2. c \in Nat /\ c < req.addr + OpLen
        BY <4>1, ConstantTypes DEF Range, Cell
      <4> QED
        BY <1>2, <4>1, <4>2
    <3>2. Phase = "halting"
      BY <1>1, <1>2, <1>6, <3>1 DEF StopWriting, SettledInv, Undisturbed, Phase
    <3>3. mem' \in [Cell -> Command!Value]
      BY DEF TypeOK, ChipTypeOK, Value, Command!Value
    <3>4. Left' \in SUBSET Left /\ Left' # Left
      BY <2>4, <2>6
    <3> QED
      BY <1>1, <2>3, <3>2, <3>3, <3>4 DEF Command!Work, Command!Next
  <2> QED
    BY <2>5, <2>6
<1> QED
  BY <1>4, <1>5, <1>6

(* What FlashCommand sees of a state.                                      *)
LEMMA SameView ==
  UNCHANGED <<mem, pc, waitRet, modeRet, req, i, ret, bpNext, killed, late, fault>>
    => UNCHANGED Command!vars
<1> SUFFICES ASSUME UNCHANGED <<mem, pc, waitRet, modeRet, req, i, ret, bpNext, killed, late,
                                fault>>
             PROVE  UNCHANGED Command!vars
  OBVIOUS
<1>1. Phase' = Phase /\ Range' = Range
  BY SameLength DEF Phase, Range, Covered, InDevice, PageAligned, Undisturbed
<1>2. (AllSent' <=> AllSent) /\ From' = From
  BY DEF AllSent, From, ChunkSent, Chunk, At, ModeLabels, WaitsFor, SwitchesFor
<1>3. Left' = Left
  BY <1>1, <1>2 DEF Left
<1> QED
  BY <1>1, <1>3 DEF Command!vars

(* A command line begins a command.                                        *)
LEMMA StartIsBegin ==
  ASSUME TypeOK, LoopInv, NEW r \in Requests, Start(r)
  PROVE  Command!Next
<1>1. pc = "idle" /\ pc' = "probe" /\ req' = r /\ UNCHANGED <<mem, killed, late, fault>>
  BY DEF Start, Goto, chipVars, histVars
<1>2. r.op \in {"identify", "unlock", "lock", "erase", "read", "write"}
  BY NorAssumption DEF RequestType, Ops
<1>3. Undisturbed
  BY <1>1 DEF LoopInv
<1>4. Phase = "idle" /\ Phase' \in {"running", "loose"}
  BY <1>1, <1>3 DEF Phase, Undisturbed
<1>5. Left' \in IF r.op \in {"erase", "write"} THEN SUBSET Cell ELSE {{}}
  BY <1>1 DEF Left, Range
<1>6. Phase' = "loose" => Left' = {}
  BY DEF Left
<1>7. Command!Begin(r.op)
  BY <1>1, <1>4, <1>5, <1>6 DEF Command!Begin
<1> QED
  BY <1>2, <1>7 DEF Command!Next

(* Every step of the driver, the part, the user and a crash is a step of   *)
(* FlashCommand, or one that it does not see.                              *)
LEMMA Simulation ==
  ASSUME TypeOK, TypeOK', BusyChipLeftAlone, AddressModeAgrees, FlagsInv, OperationInv,
         SettledInv, LoopInv, LatchInv, [Next]_vars
  PROVE  [Command!Next]_(Command!vars)
<1> USE DEF At, ModeLabels, WaitsFor, SwitchesFor, Goto, CallWait, chipVars, callVars, opVars, histVars
<1>1. CASE \E r \in Requests : Start(r)
  BY <1>1, StartIsBegin
<1>2. CASE spi_nor_probe
  <2>1. CASE Quit
    BY <1>2, <2>1, QuitIsEnd DEF spi_nor_probe, Command!Next
  <2>2. CASE ~Quit
    BY <1>2, <2>2, QuietStep DEF spi_nor_probe, From, Chunk, AllSent, ChunkSent
  <2> QED
    BY <2>1, <2>2
<1>3. CASE spi_nor_init
  BY <1>3, QuietStep DEF spi_nor_init, ReadBp, Fail, From, Chunk, AllSent, ChunkSent
<1>4. CASE do_identify
  <2>1. Left = {}
    BY <1>4 DEF do_identify, Left
  <2> QED
    BY <1>4, <2>1, ExitStep DEF do_identify, Finish, Command!Next
<1>5. CASE do_unlock
  <2>1. Left = {}
    BY <1>5 DEF do_unlock, Left
  <2>2. CASE HasBp
    BY <1>5, <2>2, QuietStep DEF do_unlock
  <2>3. CASE ~HasBp
    BY <1>5, <2>1, <2>3, ExitStep DEF do_unlock, Command!Next
  <2> QED
    BY <2>2, <2>3
<1>6. CASE do_lock
  <2>1. Left = {}
    BY <1>6 DEF do_lock, Left
  <2>2. CASE HasBp
    BY <1>6, <2>2, QuietStep DEF do_lock
  <2>3. CASE ~HasBp
    BY <1>6, <2>1, <2>3, ExitStep DEF do_lock, Command!Next
  <2> QED
    BY <2>2, <2>3
<1>7. CASE do_erase
  <2>1. CASE Quit
    BY <1>7, <2>1, QuitIsEnd DEF do_erase, Command!Next
  <2>2. CASE ~Quit /\ pc' = "exit"
    BY <1>7, <2>2, ExitStep DEF do_erase, Finish, Command!Next
  <2>3. CASE ~Quit /\ pc' = "wait"
    BY <1>7, <2>3, QuietStep DEF do_erase, Finish, From, Chunk, AllSent, ChunkSent
  <2> QED
    BY <1>7, <2>1, <2>2, <2>3 DEF do_erase, Finish
<1>8. CASE do_read
  <2>1. CASE Quit
    BY <1>8, <2>1, QuitIsEnd DEF do_read, Command!Next
  <2>3. CASE ~Quit /\ pc' = "wait"
    BY <1>8, <2>3, QuietStep DEF do_read, Finish, From, Chunk, AllSent, ChunkSent
  <2> QED
    BY <1>8, <2>1, <2>3 DEF do_read, Finish
<1>9. CASE do_write
  <2>1. CASE Quit
    BY <1>9, <2>1, QuitIsEnd DEF do_write, Command!Next
  <2>2. CASE ~Quit /\ pc' = "exit"
    BY <1>9, <2>2, ExitStep DEF do_write, Finish, Command!Next
  <2>3. CASE ~Quit /\ pc' = "wait"
    BY <1>9, <2>3, QuietStep DEF do_write, Finish, From, Chunk, AllSent, ChunkSent
  <2> QED
    BY <1>9, <2>1, <2>2, <2>3 DEF do_write, Finish
<1>10. CASE wait_ready
  <2>1. pc = "wait" /\ pc' \notin {"idle", "exit"} /\ UNCHANGED <<mem, req, bpNext, i, killed>>
    BY <1>10 DEF wait_ready, Polled, Return, TypeOK, ControlTypeOK, WaitReturns, OperationInv
  <2>2. (fault => fault') /\ (late => late') /\ UNCHANGED <<waitRet, modeRet>>
    BY <1>10 DEF wait_ready, Polled, Return, Fail
  <2>3. pc' = "wait" \/ pc' = waitRet
    BY <1>10 DEF wait_ready, Polled, Return
  <2>4. waitRet \in WaitReturns
    BY DEF TypeOK, ControlTypeOK
  <2>5. (AllSent' <=> AllSent) /\ From' = From
    BY <2>1, <2>2, <2>3, <2>4 DEF WaitReturns, From, Chunk, AllSent, ChunkSent
  <2> QED
    BY <2>1, <2>2, <2>5, QuietStep
<1>11. CASE mode_4byte
  <2>1. /\ pc = "mode" /\ pc' \in {modeRet, "mode_wren"} /\ modeRet \in ModeReturns \ {"idle"}
        /\ UNCHANGED <<req, i, modeRet, killed, late>>
    BY <1>11 DEF mode_4byte, TypeOK, ControlTypeOK, OperationInv
  <2>2. UNCHANGED <<mem, bpNext>> /\ (fault => fault')
    BY <1>11 DEF mode_4byte, ChipSetMode, Fail
  <2>3. (AllSent' <=> AllSent) /\ From' = From
    BY <2>1 DEF ModeReturns, EnterReturns, LeaveReturns, From, Chunk, AllSent, ChunkSent
  <2> QED
    BY <2>1, <2>2, <2>3, QuietStep DEF ModeReturns, EnterReturns, LeaveReturns
<1>12. CASE write_enable
  <2>1. /\ \/ /\ pc \in {"se_wren", "be_wren", "wr_wren", "lk_wren"}
              /\ pc' \in {"se_cmd", "be_cmd", "wr_cmd", "lk_wrsr"}
           \/ pc = "mode_wren" /\ pc' = "mode_ear"
        /\ UNCHANGED <<req, i, modeRet, killed, late>>
    BY <1>12 DEF write_enable, AfterWren
  <2>2. UNCHANGED <<mem, bpNext>> /\ (fault => fault')
    BY <1>12 DEF write_enable, Send, ChipWren, Fail
  <2>3. (AllSent' <=> AllSent) /\ From' = From
    BY <2>1 DEF From, Chunk, AllSent, ChunkSent
  <2> QED
    BY <2>1, <2>2, <2>3, QuietStep
<1>13. CASE erase_ready
  <2>1. CASE rv = "ok"
    BY <1>13, <2>1, QuietStep DEF erase_ready, CallMode, From, Chunk, AllSent, ChunkSent
  <2>2. CASE rv # "ok"
    BY <1>13, <2>2, ExitStep DEF erase_ready, Finish, Command!Next
  <2> QED
    BY <2>1, <2>2
<1>14. CASE erase_sector
  <2>1. CASE Covered /\ ~fault'
    BY <1>14, <2>1, EraseSectorWorks DEF Command!Next
  <2>2. CASE ~(Covered /\ ~fault')
    <3>1. pc \notin {"idle", "exit"} /\ pc' \notin {"idle", "exit"} /\ UNCHANGED <<req, bpNext>>
      BY <1>14, ChipCommandBits DEF erase_sector, Send
    <3>2. fault' \/ ~Covered'
      BY <2>2, <3>1, SameLength DEF Covered, InDevice, PageAligned
    <3> QED
      BY <3>1, <3>2, LooseStep DEF Command!Next
  <2> QED
    BY <2>1, <2>2
<1>15. CASE erase_done
  BY <1>15, QuietStep DEF erase_done, CallMode, From, Chunk, AllSent, ChunkSent
<1>16. CASE erase_next
  <2>1. /\ pc = "se_next" /\ req.op = "erase" /\ req.addr \in Nat /\ OpLen \in Nat /\ i \in Nat
        /\ RegionSize \in Nat \ {0}
    BY <1>16, RequestNumbers, ConstantTypes DEF erase_next, LoopInv, HeadsFor, SectorLabels
  <2>2. ~AllSent /\ From = req.addr + i + RegionSize
    BY <2>1 DEF From, Chunk, AllSent, ChunkSent
  <2>3. CASE killed \/ i + RegionSize >= OpLen
    <3>1. i + RegionSize >= OpLen => Left = {}
      <4> SUFFICES ASSUME i + RegionSize >= OpLen, NEW c \in Range, c >= From PROVE FALSE
        BY DEF Left
      <4>1. c \in Nat /\ c < req.addr + OpLen
        BY ConstantTypes DEF Range, Cell
      <4> QED
        BY <2>1, <2>2, <4>1
    <3> QED
      BY <1>16, <2>3, <3>1, ExitStep DEF erase_next, Finish, Undisturbed, Command!Next
  <2>4. CASE ~(killed \/ i + RegionSize >= OpLen)
    <3>1. pc' = "wait" /\ waitRet' = "se_ready" /\ i' = i + RegionSize /\ UNCHANGED req
      BY <1>16, <2>4 DEF erase_next
    <3>2. ~AllSent' /\ From' = req.addr + i + RegionSize
      BY <2>1, <3>1 DEF From, Chunk, AllSent, ChunkSent
    <3> QED
      BY <1>16, <2>2, <2>4, <3>1, <3>2, QuietStep DEF erase_next
  <2> QED
    BY <2>3, <2>4
<1>17. CASE bulk_ready
  <2>1. CASE rv = "ok"
    BY <1>17, <2>1, QuietStep DEF bulk_ready, From, Chunk, AllSent, ChunkSent
  <2>2. CASE rv # "ok"
    BY <1>17, <2>2, ExitStep DEF bulk_ready, Finish, Command!Next
  <2> QED
    BY <2>1, <2>2
<1>18. CASE bulk_erase
  <2>1. CASE Covered /\ ~fault'
    BY <1>18, <2>1, BulkEraseWorks DEF Command!Next
  <2>2. CASE ~(Covered /\ ~fault')
    <3>1. pc \notin {"idle", "exit"} /\ pc' \notin {"idle", "exit"} /\ UNCHANGED <<req, bpNext>>
      BY <1>18, ChipCommandBits DEF bulk_erase, Send
    <3>2. fault' \/ ~Covered'
      BY <2>2, <3>1, SameLength DEF Covered, InDevice, PageAligned
    <3> QED
      BY <3>1, <3>2, LooseStep DEF Command!Next
  <2> QED
    BY <2>1, <2>2
<1>19. CASE bulk_done
  <2>1. Left = {}
    BY <1>19 DEF bulk_done, Left, AllSent
  <2>2. UNCHANGED <<mem, bpNext>> /\ (fault => fault')
    BY <1>19 DEF bulk_done, Send, ChipWrdi, Fail
  <2> QED
    BY <1>19, <2>1, <2>2, ExitStep DEF bulk_done, Finish, Command!Next
<1>20. CASE read_ready
  <2>1. CASE rv = "ok"
    BY <1>20, <2>1, QuietStep DEF read_ready, CallMode, From, Chunk, AllSent, ChunkSent
  <2>2. CASE rv # "ok"
    BY <1>20, <2>2, ExitStep DEF read_ready, Finish, Command!Next
  <2> QED
    BY <2>1, <2>2
<1>21. CASE read_chunk
  <2>1. /\ pc = "rd_chunk" /\ pc' \notin {"idle", "exit"} /\ AllSent /\ AllSent'
        /\ UNCHANGED <<mem, req, bpNext, killed, late>> /\ (fault => fault')
    BY <1>21 DEF read_chunk, CallMode, Fail, AllSent
  <2> QED
    BY <2>1, QuietStep
<1>22. CASE read_end
  <2>1. Left = {}
    BY <1>22 DEF read_end, Left, AllSent
  <2> QED
    BY <1>22, <2>1, ExitStep DEF read_end, Finish, Command!Next
<1>23. CASE write_ready
  <2>1. CASE rv = "ok"
    BY <1>23, <2>1, QuietStep DEF write_ready, CallMode, From, Chunk, AllSent, ChunkSent
  <2>2. CASE rv # "ok"
    BY <1>23, <2>2, ExitStep DEF write_ready, Finish, Command!Next
  <2> QED
    BY <2>1, <2>2
<1>24. CASE write_settle
  BY <1>24, QuietStep DEF write_settle, From, Chunk, AllSent, ChunkSent
<1>25. CASE write_page
  <2>1. CASE Covered /\ ~fault'
    BY <1>25, <2>1, WritePageWorks DEF Command!Next
  <2>2. CASE ~(Covered /\ ~fault')
    <3>1. pc \notin {"idle", "exit"} /\ pc' \notin {"idle", "exit"} /\ UNCHANGED <<req, bpNext>>
      BY <1>25, ChipCommandBits DEF write_page
    <3>2. fault' \/ ~Covered'
      BY <2>2, <3>1, SameLength DEF Covered, InDevice, PageAligned
    <3> QED
      BY <3>1, <3>2, LooseStep DEF Command!Next
  <2> QED
    BY <2>1, <2>2
<1>26. CASE write_next
  BY <1>26, WriteNextStep
<1>27. CASE write_done
  <2>1. UNCHANGED <<mem, bpNext, req, killed, late>> /\ (fault => fault') /\ pc = "wr_wrdi"
    BY <1>27 DEF write_done, Send, ChipWrdi, Fail
  <2>2. AllSent /\ Left = {}
    BY <2>1 DEF AllSent, Left
  <2>3. CASE req.verify
    <3>1. pc' = "wait" /\ AllSent'
      BY <1>27, <2>3 DEF write_done, AllSent
    <3> QED
      BY <2>1, <2>2, <3>1, QuietStep
  <2>4. CASE ~req.verify
    BY <1>27, <2>1, <2>2, <2>4, ExitStep DEF write_done, Finish, Command!Next
  <2> QED
    BY <2>3, <2>4
<1>28. CASE lock_read
  <2>1. /\ pc = "lk_read" /\ pc' = "lk_wren" /\ UNCHANGED <<mem, req, i, bpNext, killed, late>>
        /\ (fault => fault')
    BY <1>28 DEF lock_read, ReadBp, Fail
  <2> QED
    BY <2>1, QuietStep DEF From, Chunk, AllSent, ChunkSent
<1>29. CASE lock_write
  <2>1. req.op \notin {"erase", "write"}
    BY <1>29 DEF lock_write, FlagsInv, LockLabels
  <2>2. UNCHANGED mem /\ (fault => fault')
    BY <1>29 DEF lock_write, Send, ChipWriteStatus, Fail
  <2> QED
    BY <1>29, <2>1, <2>2, QuietStep DEF lock_write
<1>30. CASE lock_reread
  <2>1. Left = {}
    BY <1>30 DEF lock_reread, Left, FlagsInv, LockLabels
  <2>2. /\ pc = "lk_reread" /\ pc' = "exit" /\ UNCHANGED <<mem, req, bpNext, killed, late>>
        /\ (fault => fault')
    BY <1>30 DEF lock_reread, Finish, ReadBp, Fail
  <2> QED
    BY <2>1, <2>2, ExitStep DEF Command!Next
<1>31. CASE cleanup
  BY <1>31, QuitIsEnd DEF cleanup, Command!Next
<1>32. CASE sigterm
  BY <1>32, QuietStep DEF sigterm, From, Chunk, AllSent, ChunkSent
<1>33. CASE Crash
  BY <1>33, QuitIsEnd DEF Crash, Command!Next
<1>34. CASE ChipStep
  BY <1>34, SameView DEF ChipStep, ChipDone
<1>35. CASE mode_ear
  <2>1. /\ pc = "mode_ear" /\ pc' = modeRet /\ modeRet \in ModeReturns \ {"idle"}
        /\ UNCHANGED <<req, i, modeRet, killed, late>>
    BY <1>35 DEF mode_ear, TypeOK, ControlTypeOK, OperationInv
  <2>2. UNCHANGED <<mem, bpNext>> /\ (fault => fault')
    BY <1>35 DEF mode_ear, Send, ChipWriteExtended, ChipWrdi, Fail
  <2>3. (AllSent' <=> AllSent) /\ From' = From
    BY <2>1 DEF ModeReturns, EnterReturns, LeaveReturns, From, Chunk, AllSent, ChunkSent
  <2> QED
    BY <2>1, <2>2, <2>3, QuietStep DEF ModeReturns, EnterReturns, LeaveReturns
<1>36. CASE UNCHANGED vars
  BY <1>36, SameView DEF vars
<1> QED
  BY <1>1, <1>2, <1>3, <1>4, <1>5, <1>6, <1>7, <1>8, <1>9, <1>10, <1>11, <1>12, <1>13,
     <1>14, <1>15, <1>16, <1>17, <1>18, <1>19, <1>20, <1>21, <1>22, <1>23, <1>24, <1>25,
     <1>26, <1>27, <1>28, <1>29, <1>30, <1>31, <1>32, <1>33, <1>34, <1>35, <1>36
     DEF Next, Program

(* Each command of the driver, from the probe to the exit, changes every   *)
(* cell it was asked to once, and no other, and ends with "Status: OK" and *)
(* undisturbed only when it has changed them all.                          *)
THEOREM CommandImplemented == Spec => ImplementsFlashCommand
<1>1. Init => Command!Init
  BY DEF Init, ProcessInit, Command!Init, Phase, Left
<1>2. /\ TypeOK /\ TypeOK' /\ BusyChipLeftAlone /\ AddressModeAgrees /\ FlagsInv
      /\ OperationInv /\ SettledInv /\ LoopInv /\ LatchInv /\ [Next]_vars
      => [Command!Next]_(Command!vars)
  BY Simulation
<1> QED
  BY <1>1, <1>2, ArrayInvariants, PTL DEF Spec, ImplementsFlashCommand, Command!Spec

-----------------------------------------------------------------------------
(* What a command that reports success has done.                           *)

(* A process keeps its command line.                                       *)
LEMMA SameRequest == [Next]_vars /\ pc # "idle" /\ pc' # "idle" => UNCHANGED req
<1> SUFFICES ASSUME [Next]_vars, pc # "idle", pc' # "idle" PROVE UNCHANGED req
  OBVIOUS
<1> USE DEF Quit, opVars
<1>1. CASE \E r \in Requests : Start(r)
  BY <1>1 DEF Start
<1>2. CASE spi_nor_probe
  BY <1>2 DEF spi_nor_probe
<1>3. CASE spi_nor_init
  BY <1>3 DEF spi_nor_init
<1>4. CASE do_identify
  BY <1>4 DEF do_identify
<1>5. CASE do_unlock
  BY <1>5 DEF do_unlock
<1>6. CASE do_lock
  BY <1>6 DEF do_lock
<1>7. CASE do_erase
  BY <1>7 DEF do_erase
<1>8. CASE do_read
  BY <1>8 DEF do_read
<1>9. CASE do_write
  BY <1>9 DEF do_write
<1>10. CASE wait_ready
  BY <1>10 DEF wait_ready, Polled
<1>11. CASE mode_4byte
  BY <1>11 DEF mode_4byte
<1>12. CASE write_enable
  BY <1>12 DEF write_enable
<1>13. CASE erase_ready
  BY <1>13 DEF erase_ready
<1>14. CASE erase_sector
  BY <1>14 DEF erase_sector
<1>15. CASE erase_done
  BY <1>15 DEF erase_done
<1>16. CASE erase_next
  BY <1>16 DEF erase_next
<1>17. CASE bulk_ready
  BY <1>17 DEF bulk_ready
<1>18. CASE bulk_erase
  BY <1>18 DEF bulk_erase
<1>19. CASE bulk_done
  BY <1>19 DEF bulk_done
<1>20. CASE read_ready
  BY <1>20 DEF read_ready
<1>21. CASE read_chunk
  BY <1>21 DEF read_chunk
<1>22. CASE read_end
  BY <1>22 DEF read_end
<1>23. CASE write_ready
  BY <1>23 DEF write_ready
<1>24. CASE write_settle
  BY <1>24 DEF write_settle
<1>25. CASE write_page
  BY <1>25 DEF write_page
<1>26. CASE write_next
  BY <1>26 DEF write_next
<1>27. CASE write_done
  BY <1>27 DEF write_done
<1>28. CASE lock_read
  BY <1>28 DEF lock_read
<1>29. CASE lock_write
  BY <1>29 DEF lock_write
<1>30. CASE lock_reread
  BY <1>30 DEF lock_reread
<1>31. CASE cleanup
  BY <1>31 DEF cleanup
<1>32. CASE sigterm
  BY <1>32 DEF sigterm
<1>33. CASE Crash
  BY <1>33 DEF Crash
<1>34. CASE ChipStep
  BY <1>34 DEF ChipStep
<1>35. CASE mode_ear
  BY <1>35 DEF mode_ear, Send, ChipWriteExtended, ChipWrdi
<1>36. CASE UNCHANGED vars
  BY <1>36 DEF vars
<1> QED
  BY <1>1, <1>2, <1>3, <1>4, <1>5, <1>6, <1>7, <1>8, <1>9, <1>10, <1>11, <1>12, <1>13,
     <1>14, <1>15, <1>16, <1>17, <1>18, <1>19, <1>20, <1>21, <1>22, <1>23, <1>24, <1>25,
     <1>26, <1>27, <1>28, <1>29, <1>30, <1>31, <1>32, <1>33, <1>34, <1>35, <1>36
     DEF Next, Program

(* Only Start and the part leave the idle label as it is or begin.         *)
LEMMA FromIdle == [Next]_vars /\ pc = "idle" /\ pc' # "idle" => \E r \in Requests : Start(r)
<1> SUFFICES ASSUME [Next]_vars, pc = "idle", pc' # "idle", ~\E r \in Requests : Start(r)
             PROVE  FALSE
  OBVIOUS
<1>1. CASE \E r \in Requests : Start(r)
  BY <1>1 DEF Start
<1>2. CASE spi_nor_probe
  BY <1>2 DEF spi_nor_probe
<1>3. CASE spi_nor_init
  BY <1>3 DEF spi_nor_init
<1>4. CASE do_identify
  BY <1>4 DEF do_identify
<1>5. CASE do_unlock
  BY <1>5 DEF do_unlock
<1>6. CASE do_lock
  BY <1>6 DEF do_lock
<1>7. CASE do_erase
  BY <1>7 DEF do_erase
<1>8. CASE do_read
  BY <1>8 DEF do_read
<1>9. CASE do_write
  BY <1>9 DEF do_write
<1>10. CASE wait_ready
  BY <1>10 DEF wait_ready, Polled
<1>11. CASE mode_4byte
  BY <1>11 DEF mode_4byte
<1>12. CASE write_enable
  BY <1>12 DEF write_enable, AfterWren
<1>13. CASE erase_ready
  BY <1>13 DEF erase_ready
<1>14. CASE erase_sector
  BY <1>14 DEF erase_sector
<1>15. CASE erase_done
  BY <1>15 DEF erase_done
<1>16. CASE erase_next
  BY <1>16 DEF erase_next
<1>17. CASE bulk_ready
  BY <1>17 DEF bulk_ready
<1>18. CASE bulk_erase
  BY <1>18 DEF bulk_erase
<1>19. CASE bulk_done
  BY <1>19 DEF bulk_done
<1>20. CASE read_ready
  BY <1>20 DEF read_ready
<1>21. CASE read_chunk
  BY <1>21 DEF read_chunk
<1>22. CASE read_end
  BY <1>22 DEF read_end
<1>23. CASE write_ready
  BY <1>23 DEF write_ready
<1>24. CASE write_settle
  BY <1>24 DEF write_settle
<1>25. CASE write_page
  BY <1>25 DEF write_page
<1>26. CASE write_next
  BY <1>26 DEF write_next
<1>27. CASE write_done
  BY <1>27 DEF write_done
<1>28. CASE lock_read
  BY <1>28 DEF lock_read
<1>29. CASE lock_write
  BY <1>29 DEF lock_write
<1>30. CASE lock_reread
  BY <1>30 DEF lock_reread
<1>31. CASE cleanup
  BY <1>31 DEF cleanup
<1>32. CASE sigterm
  BY <1>32 DEF sigterm
<1>33. CASE Crash
  BY <1>33 DEF Crash
<1>34. CASE ChipStep
  BY <1>34 DEF ChipStep
<1>35. CASE mode_ear
  BY <1>35 DEF mode_ear, Send, ChipWriteExtended, ChipWrdi
<1>36. CASE UNCHANGED vars
  BY <1>36 DEF vars
<1> QED
  BY <1>1, <1>2, <1>3, <1>4, <1>5, <1>6, <1>7, <1>8, <1>9, <1>10, <1>11, <1>12, <1>13,
     <1>14, <1>15, <1>16, <1>17, <1>18, <1>19, <1>20, <1>21, <1>22, <1>23, <1>24, <1>25,
     <1>26, <1>27, <1>28, <1>29, <1>30, <1>31, <1>32, <1>33, <1>34, <1>35, <1>36
     DEF Next, Program

(* FlashCommand changes the cells it takes out of left.                    *)
LEMMA DoneStep ==
  ASSUME TypeOK, LoopInv, DoneInv, [Next]_vars, [Command!Next]_(Command!vars)
  PROVE  DoneInv'
<1> SUFFICES ASSUME Phase' \in {"running", "ok"}
             PROVE  \A c \in Range' \ Left' :
                      /\ req'.op = "erase" => mem'[c] = "ff"
                      /\ req'.op = "write" => mem'[c] \in {"img", "bad"}
  BY DEF DoneInv
<1>1. pc' # "idle"
  BY DEF Phase
<1>2. CASE pc = "idle"
  <2>1. pc' = "probe" /\ UNCHANGED i /\ i = 0
    BY <1>1, <1>2, FromIdle DEF Start, Goto, LoopInv, At
  <2>2. SUFFICES ASSUME req'.op \in {"erase", "write"} PROVE Range' \subseteq Left'
    OBVIOUS
  <2>3. ~AllSent' /\ ~ChunkSent' /\ Phase' = "running"
    BY <2>1 DEF AllSent, ChunkSent, At, ModeLabels, WaitsFor, SwitchesFor, Phase
  <2>4. req'.addr \in Nat
    <3>1. TypeOK'
      BY TypeStep
    <3> QED
      BY <3>1 DEF TypeOK, OperationTypeOK, RequestType, Word
  <2>5. From' = req'.addr
    <3>1. From' = req'.addr + i' + 0
      BY <2>3 DEF From
    <3> QED
      BY <2>1, <2>4, <3>1
  <2>6. Left' = {c \in Range' : c >= From'}
    BY <2>2, <2>3 DEF Left
  <2>7. \A c \in Range' : c >= req'.addr
    BY DEF Range
  <2> QED
    BY <2>5, <2>6, <2>7
<1>3. CASE pc # "idle"
  <2>1. UNCHANGED req /\ Range' = Range
    BY <1>1, <1>3, SameRequest, SameLength DEF Range
  <2>2. Phase # "idle"
    BY <1>3 DEF Phase
  <2>3. CASE UNCHANGED Command!vars
    BY <2>1, <2>3 DEF DoneInv, Command!vars
  <2>4. CASE Command!Work
    <3>1. Phase = "running" /\ Phase' = Phase
      BY <2>4 DEF Command!Work, Phase
    <3>2. ASSUME NEW c \in Range \ Left'
          PROVE  /\ req.op = "erase" => mem'[c] = "ff"
                 /\ req.op = "write" => mem'[c] \in {"img", "bad"}
      <4>1. c \in Cell
        BY DEF Range
      <4>2. CASE c \in Left
        <5>1. mem'[c] = Command!Changed(mem[c])
          BY <2>4, <3>1, <3>2, <4>1, <4>2 DEF Command!Work
        <5> QED
          BY <1>3, <4>1, <5>1, ChangedCells DEF Programmed
      <4>3. CASE c \notin Left
        <5>1. mem'[c] = mem[c]
          BY <2>4, <3>1, <4>1, <4>3 DEF Command!Work
        <5> QED
          BY <3>1, <3>2, <4>3, <5>1 DEF DoneInv
      <4> QED
        BY <4>2, <4>3
    <3> QED
      BY <2>1, <3>2
  <2>5. CASE Command!Succeed
    <3>1. Phase = "running" /\ Left = {} /\ UNCHANGED <<mem, Left>>
      BY <2>5 DEF Command!Succeed
    <3> QED
      BY <2>1, <3>1 DEF DoneInv
  <2>6. ~Command!Upset /\ ~Command!Loosen /\ ~Command!GiveUp /\ ~Command!End
    BY DEF Command!Upset, Command!Loosen, Command!GiveUp, Command!End
  <2>7. ASSUME NEW command, Command!Begin(command) PROVE FALSE
    BY <2>2, <2>7 DEF Command!Begin
  <2> QED
    BY <2>3, <2>4, <2>5, <2>6, <2>7 DEF Command!Next
<1> QED
  BY <1>2, <1>3

(* When a write or an erase reports success and nothing disturbed the run, *)
(* every cell it was asked to was programmed or erased.                    *)
THEOREM NorOkIsDone == Spec => []ReportedOkIsDone
<1>1. Init => DoneInv
  BY DEF Init, ProcessInit, DoneInv, Phase
<1>2. /\ TypeOK /\ TypeOK' /\ BusyChipLeftAlone /\ AddressModeAgrees /\ FlagsInv
      /\ OperationInv /\ SettledInv /\ LoopInv /\ LatchInv /\ DoneInv /\ [Next]_vars
      => DoneInv'
  BY Simulation, DoneStep
<1>3. LatchInv /\ DoneInv => ReportedOkIsDone
  <2> SUFFICES ASSUME LatchInv, DoneInv, pc = "exit", ret = "ok", Undisturbed, InDevice, bp = 0,
                      \/ req.op = "write" /\ PageAligned
                      \/ req.op = "erase" /\ req.addr = 0,
                      NEW c \in Range
               PROVE  /\ req.op = "write" => mem[c] \in {"img", "bad"}
                      /\ req.op = "erase" => mem[c] = "ff"
    BY DEF ReportedOkIsDone
  <2>1. Covered
    BY DEF Covered, LatchInv
  <2>2. Phase = "ok" /\ Left = {}
    BY <2>1, PhaseOfExit
  <2> QED
    BY <2>2 DEF DoneInv
<1> QED
  BY <1>1, <1>2, <1>3, ArrayInvariants, PTL DEF Spec
=============================================================================
