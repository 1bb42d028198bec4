---------------------------- MODULE SpiNorProofs ----------------------------
(***************************************************************************)
(* Theorems about SpiNor, for every device size, page size, poll limit,    *)
(* kind of part and set of command lines.                                  *)
(***************************************************************************)
EXTENDS SpiNor, Arithmetic

-----------------------------------------------------------------------------
(* Type correctness.                                                       *)

(* What the assumptions say of every constant's type.                      *)
LEMMA ConstantTypes ==
  /\ NumRegions \in Nat \ {0} /\ RegionSize \in Nat \ {0} /\ WordSize \in Nat \ {0}
  /\ DeviceSize \in Nat
  /\ PageSize \in Nat \ {0} /\ ReadChunk \in Nat \ {0} /\ PollLimit \in Nat \ {0}
  /\ 0 \in Word
  BY RegionsAssumption, ChipAssumption, NorAssumption DEF Word, DeviceSize

(* The command line and the marks of a process that has not started.       *)
LEMMA NoRequestType == NoRequest \in RequestType
  BY ConstantTypes DEF NoRequest, RequestType, Ops

LEMMA NoFlagsType == NoFlags \in [Region -> BOOLEAN]
  BY DEF NoFlags

(* The part as it comes, and no process, are typed.                        *)
LEMMA InitType == Init => TypeOK
<1> SUFFICES ASSUME Init PROVE TypeOK
  OBVIOUS
<1>1. ChipTypeOK
  BY NorAssumption DEF Init, ChipTypeOK, Value
<1>2. ControlTypeOK
  BY ConstantTypes DEF Init, ProcessInit, ControlTypeOK, Labels, WaitReturns, ModeReturns
<1>3. OperationTypeOK
  BY NoRequestType DEF Init, ProcessInit, OperationTypeOK
<1>4. RegionTypeOK
  BY NoFlagsType DEF Init, ProcessInit, RegionTypeOK, Bp
<1>5. FlagTypeOK
  BY DEF Init, ProcessInit, FlagTypeOK
<1> QED
  BY <1>1, <1>2, <1>3, <1>4, <1>5 DEF TypeOK

(* A process that ends leaves nothing untyped behind.                      *)
LEMMA QuitType == TypeOK /\ Quit => TypeOK'
<1> SUFFICES ASSUME TypeOK, Quit PROVE TypeOK'
  OBVIOUS
<1>1. ChipTypeOK'
  BY DEF TypeOK, ChipTypeOK, Quit, chipVars
<1>2. ControlTypeOK'
  BY ConstantTypes DEF Quit, ControlTypeOK, Labels, WaitReturns, ModeReturns
<1>3. OperationTypeOK'
  BY NoRequestType DEF Quit, OperationTypeOK
<1>4. RegionTypeOK'
  BY NoFlagsType DEF Quit, RegionTypeOK, Bp
<1>5. FlagTypeOK'
  BY DEF Quit, FlagTypeOK
<1> QED
  BY <1>1, <1>2, <1>3, <1>4, <1>5 DEF TypeOK

(* fill_addr_len computes a length in uint32_t.                            *)
LEMMA OpLenType == TypeOK => OpLen \in Nat
<1> SUFFICES ASSUME TypeOK PROVE OpLen \in Nat
  OBVIOUS
<1>1. req.len \in Nat /\ req.addr \in Nat /\ req.haveLen \in BOOLEAN
  BY ConstantTypes DEF TypeOK, OperationTypeOK, RequestType, Word
<1>2. fill_addr_len(req) \in Nat
  BY <1>1, ConstantTypes DEF fill_addr_len
<1> QED
  BY <1>1, <1>2, ConstantTypes DEF OpLen

(* The chip's commands. *)
LEMMA ChipChangeType ==
  ASSUME NEW cells, NEW new \in [Cell -> Value], ChipTypeOK, ChipChange(cells, new)
  PROVE  ChipTypeOK'
  BY DEF ChipTypeOK, ChipChange, chipVars

(* No command, whatever its address and length, makes the chip ill-typed.  *)
LEMMA ChipTypes ==
  ASSUME ChipTypeOK
  PROVE  /\ ChipWren => ChipTypeOK'
         /\ ChipWrdi => ChipTypeOK'
         /\ \A a : ChipSectorErase(a) => ChipTypeOK'
         /\ ChipBulkErase => ChipTypeOK'
         /\ \A a, n : ChipPageProgram(a, n) => ChipTypeOK'
         /\ ChipStrayProgram => ChipTypeOK'
         /\ \A v \in Bp : ChipWriteStatus(v) => ChipTypeOK'
         /\ \A on \in BOOLEAN : ChipSetMode(on) => ChipTypeOK'
         /\ ChipWriteExtended => ChipTypeOK'
         /\ ChipDone => ChipTypeOK'
         /\ UNCHANGED chipVars => ChipTypeOK'
<1>1. Erased \in [Cell -> Value]
  BY DEF Erased, Value
<1>2. \A old, new \in Value : Programmed(old, new) \in Value
  BY DEF Programmed, Value
<1>3. UNCHANGED chipVars => ChipTypeOK'
  BY DEF ChipTypeOK, chipVars
<1>4. ChipWren => ChipTypeOK'
  BY DEF ChipTypeOK, ChipWren
<1>5. ChipWrdi => ChipTypeOK'
  BY DEF ChipTypeOK, ChipWrdi
<1>6. ASSUME NEW a, ChipSectorErase(a) PROVE ChipTypeOK'
  BY <1>1, <1>6, ChipChangeType DEF ChipSectorErase
<1>7. ChipBulkErase => ChipTypeOK'
  BY <1>1, <1>3, ChipChangeType DEF ChipBulkErase
<1>8. ASSUME NEW a, NEW n, ChipPageProgram(a, n) PROVE ChipTypeOK'
  <2> DEFINE data(c) == IF c \in (a % DeviceSize) .. ((a % DeviceSize) + n - 1) THEN "img" ELSE "bad"
             new == [c \in Cell |-> Programmed(mem[c], data(c))]
  <2>1. new \in [Cell -> Value]
    BY <1>2 DEF ChipTypeOK, Value
  <2>2. ChipChange(PageOf(a), new)
    BY <1>8 DEF ChipPageProgram
  <2> QED
    BY <2>1, <2>2, ChipChangeType
<1>9. ChipStrayProgram => ChipTypeOK'
  <2> DEFINE new == [c \in Cell |-> Programmed(mem[c], "bad")]
  <2>1. new \in [Cell -> Value]
    BY <1>2 DEF ChipTypeOK, Value
  <2> QED
    BY <2>1, ChipChangeType DEF ChipStrayProgram
<1>10. \A v \in Bp : ChipWriteStatus(v) => ChipTypeOK'
  BY <1>3 DEF ChipTypeOK, ChipWriteStatus
<1>11. \A on \in BOOLEAN : ChipSetMode(on) => ChipTypeOK'
  BY <1>3 DEF ChipTypeOK, ChipSetMode
<1>12. ChipDone => ChipTypeOK'
  BY DEF ChipTypeOK, ChipDone
<1> QED
  BY <1>3, <1>4, <1>5, <1>6, <1>7, <1>8, <1>9, <1>10, <1>11, <1>12 DEF ChipWriteExtended

(* The protection callbacks return marks of every region, and BP bits.     *)
LEMMA RegionFlagTypes ==
  /\ \A b : spi_nor_bp_bit2_to_bit5_top_down(b) \in [Region -> BOOLEAN]
  /\ \A l, a, n : flash_mark_lock(l, a, n) \in [Region -> BOOLEAN]
  /\ \A l, a, n : flash_mark_unlock(l, a, n) \in [Region -> BOOLEAN]
  /\ \A b \in Bp : \A l, wl, wu : spi_nor_set_bit2_to_bit5_top_down(b, l, wl, wu) \in Bp
<1>1. \A b : spi_nor_bp_bit2_to_bit5_top_down(b) \in [Region -> BOOLEAN]
  BY DEF spi_nor_bp_bit2_to_bit5_top_down
<1>2. \A l, a, n : flash_mark_lock(l, a, n) \in [Region -> BOOLEAN]
  BY DEF flash_mark_lock
<1>3. \A l, a, n : flash_mark_unlock(l, a, n) \in [Region -> BOOLEAN]
  BY DEF flash_mark_unlock
<1>4. \A b \in Bp : \A l, wl, wu : spi_nor_set_bit2_to_bit5_top_down(b, l, wl, wu) \in Bp
  BY DEF spi_nor_set_bit2_to_bit5_top_down, Bp
<1> QED
  BY <1>1, <1>2, <1>3, <1>4

(* A transfer that fails is remembered as such: the flags stay typed.      *)
LEMMA FailType ==
  ASSUME FlagTypeOK, UNCHANGED fault \/ Fail, UNCHANGED <<killed, late, misread>>
  PROVE  FlagTypeOK'
<1>1. CASE UNCHANGED fault
  BY <1>1 DEF FlagTypeOK
<1>2. CASE Fail
  BY <1>2 DEF FlagTypeOK, Fail
<1> QED
  BY <1>1, <1>2

(* Every step of program, chip and user keeps the types: the loop offset,  *)
(* the poll counter and the length only grow from naturals.                *)
LEMMA TypeStep == TypeOK /\ [Next]_vars => TypeOK'
<1> SUFFICES ASSUME TypeOK, [Next]_vars PROVE TypeOK'
  OBVIOUS
<1> USE DEF TypeOK, ControlTypeOK, OperationTypeOK, RegionTypeOK,
            callVars, opVars, regionVars, histVars, Labels, WaitReturns, ModeReturns,
            EnterReturns, LeaveReturns, Goto, Finish, CallWait
<1>0. /\ PollLimit \in Nat \ {0} /\ RegionSize \in Nat /\ PageSize \in Nat /\ ReadChunk \in Nat
      /\ UNCHANGED chipVars => ChipTypeOK'
      /\ OpLen \in Nat
      /\ (UNCHANGED fault \/ Fail) /\ UNCHANGED <<killed, late, misread>> => FlagTypeOK'
  BY ConstantTypes, ChipTypes, OpLenType, FailType
<1>1. CASE \E r \in Requests : Start(r)
  BY <1>0, <1>1, NorAssumption DEF Start
<1>2. CASE spi_nor_probe
  BY <1>0, <1>2, QuitType DEF spi_nor_probe
<1>3. CASE spi_nor_init
  BY <1>0, <1>3, RegionFlagTypes DEF spi_nor_init, ReadBp
<1>4. CASE do_identify
  BY <1>0, <1>4 DEF do_identify
<1>5. CASE do_unlock
  BY <1>0, <1>5, RegionFlagTypes DEF do_unlock
<1>6. CASE do_lock
  BY <1>0, <1>6, RegionFlagTypes DEF do_lock
<1>7. CASE do_erase
  BY <1>0, <1>7, QuitType DEF do_erase
<1>8. CASE do_read
  BY <1>0, <1>8, QuitType DEF do_read
<1>9. CASE do_write
  BY <1>0, <1>9, QuitType DEF do_write
<1>10. CASE mode_4byte
  <2>1. ChipSetMode(Entering) => ChipTypeOK'
    <3>1. Entering \in BOOLEAN
      BY DEF Entering
    <3> QED
      BY <3>1, ChipTypes
  <2> QED
    BY <1>0, <1>10, <2>1 DEF mode_4byte
<1>11. CASE write_enable
  BY <1>0, <1>11, ChipTypes DEF write_enable, Send, AfterWren
<1>12. CASE erase_ready
  BY <1>0, <1>12 DEF erase_ready, CallMode
<1>13. CASE erase_sector
  BY <1>0, <1>13, ChipTypes DEF erase_sector, Send, CountAfterKill
<1>14. CASE erase_done
  BY <1>0, <1>14 DEF erase_done, CallMode
<1>15. CASE erase_next
  BY <1>0, <1>15 DEF erase_next
<1>16. CASE bulk_ready
  BY <1>0, <1>16 DEF bulk_ready
<1>17. CASE bulk_erase
  BY <1>0, <1>17, ChipTypes DEF bulk_erase, Send, CountAfterKill
<1>18. CASE bulk_done
  BY <1>0, <1>18, ChipTypes DEF bulk_done, Send
<1>19. CASE read_ready
  BY <1>0, <1>19 DEF read_ready, CallMode
<1>20. CASE read_chunk
  BY <1>0, <1>20 DEF read_chunk, CallMode
<1>21. CASE read_end
  BY <1>0, <1>21 DEF read_end
<1>22. CASE write_ready
  BY <1>0, <1>22 DEF write_ready, CallMode
<1>23. CASE write_settle
  BY <1>0, <1>23 DEF write_settle
<1>24. CASE write_page
  BY <1>0, <1>24, ChipTypes DEF write_page, CountAfterKill
<1>25. CASE write_next
  BY <1>0, <1>25 DEF write_next, CallMode
<1>26. CASE write_done
  BY <1>0, <1>26, ChipTypes DEF write_done, Send
<1>27. CASE lock_read
  BY <1>0, <1>27, RegionFlagTypes DEF lock_read, ReadBp
<1>28. CASE lock_write
  BY <1>0, <1>28, ChipTypes DEF lock_write, Send
<1>29. CASE lock_reread
  BY <1>0, <1>29, RegionFlagTypes DEF lock_reread, ReadBp
<1>30. CASE cleanup
  BY <1>0, <1>30, QuitType DEF cleanup
<1>31. CASE sigterm
  BY <1>0, <1>31 DEF sigterm, FlagTypeOK
<1>32. CASE Crash
  BY <1>0, <1>32, QuitType DEF Crash
<1>33. CASE ChipStep
  BY <1>0, <1>33, ChipTypes DEF ChipStep
<1>34. CASE wait_ready
  <2>1. FlagTypeOK'
    <3>1. killed' = killed /\ late' \in BOOLEAN
      BY <1>34 DEF wait_ready, Polled, FlagTypeOK
    <3>2. \/ fault' = fault /\ misread' = misread
          \/ fault' = TRUE /\ misread' \in {misread, TRUE}
      BY <1>34 DEF wait_ready, Fail
    <3>3. CASE fault' = fault /\ misread' = misread
      BY <3>1, <3>3 DEF FlagTypeOK
    <3>4. CASE fault' = TRUE /\ misread' \in {misread, TRUE}
      BY <3>1, <3>4 DEF FlagTypeOK
    <3> QED
      BY <3>2, <3>3, <3>4
  <2>2. ControlTypeOK'
    BY <1>0, <1>34 DEF wait_ready, Polled, MorePolls, Return
  <2> QED
    BY <1>0, <1>34, <2>1, <2>2 DEF wait_ready, Polled
<1>35. CASE mode_ear
  BY <1>0, <1>35, ChipTypes DEF mode_ear, Send
<1>36. CASE UNCHANGED vars
  BY <1>0, <1>36 DEF vars
<1> QED
  BY <1>1, <1>2, <1>3, <1>4, <1>5, <1>6, <1>7, <1>8, <1>9, <1>10, <1>11, <1>12,
     <1>13, <1>14, <1>15, <1>16, <1>17, <1>18, <1>19, <1>20, <1>21, <1>22, <1>23, <1>24,
     <1>25, <1>26, <1>27, <1>28, <1>29, <1>30, <1>31, <1>32, <1>33, <1>34, <1>35, <1>36
     DEF Next, Program

(* In every run of snander, interrupted, restarted or with a transfer that *)
(* fails, the variables of the driver and of the chip keep their types.    *)
THEOREM TypeCorrect == Spec => []TypeOK
<1>1. Init => TypeOK
  BY InitType
<1>2. TypeOK /\ [Next]_vars => TypeOK'
  BY TypeStep
<1> QED
  BY <1>1, <1>2, PTL DEF Spec

-----------------------------------------------------------------------------
(* The chip is idle when a command is about to be sent.                    *)

(* A process that ends is not about to send a command.                     *)
LEMMA QuitIdle == Quit => IdleChipInv'
  BY DEF Quit, IdleChipInv, At, ModeLabels, WaitsFor, SwitchesFor, IdleChipLabels, DecidingLabels

(* Every command but a status read is preceded by a wait that succeeded,   *)
(* or by nothing that starts an operation.                                 *)
LEMMA IdleChipStep == TypeOK /\ IdleChipInv /\ [Next]_vars => IdleChipInv'
<1> SUFFICES ASSUME TypeOK, IdleChipInv, [Next]_vars PROVE IdleChipInv'
  OBVIOUS
<1> USE DEF IdleChipInv, At, ModeLabels, WaitsFor, SwitchesFor, IdleChipLabels, DecidingLabels,
            EnterReturns, LeaveReturns, Goto, Finish, CallWait, chipVars, callVars, histVars
<1>1. CASE \E r \in Requests : Start(r)
  BY <1>1 DEF Start
<1>2. CASE spi_nor_probe
  BY <1>2, QuitIdle DEF spi_nor_probe
<1>3. CASE spi_nor_init
  BY <1>3 DEF spi_nor_init
<1>4. CASE do_identify
  BY <1>4 DEF do_identify
<1>5. CASE do_unlock
  BY <1>5 DEF do_unlock
<1>6. CASE do_lock
  BY <1>6 DEF do_lock
<1>7. CASE do_erase
  BY <1>7, QuitIdle DEF do_erase
<1>8. CASE do_read
  BY <1>8, QuitIdle DEF do_read
<1>9. CASE do_write
  BY <1>9, QuitIdle DEF do_write
<1>10. CASE wait_ready
  BY <1>10 DEF wait_ready, Polled, Ready, Return
<1>11. CASE mode_4byte
  BY <1>11 DEF mode_4byte, ChipSetMode, Entering, TypeOK, ControlTypeOK, ModeReturns
<1>12. CASE write_enable
  BY <1>12 DEF write_enable, Send, ChipWren, AfterWren
<1>13. CASE erase_ready
  BY <1>13 DEF erase_ready, CallMode
<1>14. CASE erase_sector
  BY <1>14 DEF erase_sector
<1>15. CASE erase_done
  BY <1>15 DEF erase_done, CallMode
<1>16. CASE erase_next
  BY <1>16 DEF erase_next
<1>17. CASE bulk_ready
  BY <1>17 DEF bulk_ready
<1>18. CASE bulk_erase
  BY <1>18 DEF bulk_erase
<1>19. CASE bulk_done
  BY <1>19 DEF bulk_done
<1>20. CASE read_ready
  BY <1>20 DEF read_ready, CallMode
<1>21. CASE read_chunk
  BY <1>21 DEF read_chunk, CallMode
<1>22. CASE read_end
  BY <1>22 DEF read_end
<1>23. CASE write_ready
  BY <1>23 DEF write_ready, CallMode
<1>24. CASE write_settle
  BY <1>24 DEF write_settle
<1>25. CASE write_page
  BY <1>25 DEF write_page
<1>26. CASE write_next
  BY <1>26 DEF write_next, CallMode, StopWriting
<1>27. CASE write_done
  BY <1>27 DEF write_done
<1>28. CASE lock_read
  BY <1>28 DEF lock_read
<1>29. CASE lock_write
  BY <1>29 DEF lock_write
<1>30. CASE lock_reread
  BY <1>30 DEF lock_reread
<1>31. CASE cleanup
  BY <1>31, QuitIdle DEF cleanup
<1>32. CASE sigterm
  BY <1>32 DEF sigterm
<1>33. CASE Crash
  BY <1>33, QuitIdle DEF Crash
<1>34. CASE ChipStep
  BY <1>34 DEF ChipStep, ChipDone
<1>35. CASE mode_ear
  BY <1>35 DEF mode_ear, Send, ChipWriteExtended, ChipWrdi, Entering, TypeOK, ControlTypeOK, ModeReturns,
               EnterReturns, LeaveReturns
<1>36. CASE UNCHANGED vars
  BY <1>36 DEF vars
<1> QED
  BY <1>1, <1>2, <1>3, <1>4, <1>5, <1>6, <1>7, <1>8, <1>9, <1>10, <1>11, <1>12,
     <1>13, <1>14, <1>15, <1>16, <1>17, <1>18, <1>19, <1>20, <1>21, <1>22, <1>23, <1>24,
     <1>25, <1>26, <1>27, <1>28, <1>29, <1>30, <1>31, <1>32, <1>33, <1>34, <1>35, <1>36
     DEF Next, Program

(* Whatever interrupts a process, and whichever transfer fails but the     *)
(* opcode of a status read, no command that reads, changes or protects the *)
(* array, and no WREN before one, is ever sent to a busy chip.             *)
THEOREM BusyChipSafe == Spec => []BusyChipLeftAlone
<1>1. Init => IdleChipInv
  BY DEF Init, ProcessInit, IdleChipInv, At, ModeLabels, WaitsFor, SwitchesFor, IdleChipLabels, DecidingLabels
<1>2. TypeOK /\ IdleChipInv /\ [Next]_vars => IdleChipInv'
  BY IdleChipStep
<1>3. IdleChipInv => BusyChipLeftAlone
  BY DEF IdleChipInv, BusyChipLeftAlone, At, IdleChipLabels
<1> QED
  BY <1>1, <1>2, <1>3, TypeCorrect, PTL DEF Spec
-----------------------------------------------------------------------------
(* The address mode.                                                       *)

(* A new process has assumed nothing yet about the address mode.           *)
LEMMA QuitMode == ModeInv /\ Quit => ModeInv'
  BY DEF Quit, ModeInv, At, ModeLabels, WaitsFor, SwitchesFor, chipVars

(* Of the chip's commands only the mode switch changes the mode, and none  *)
(* changes the BP bits before it is over.                                  *)
LEMMA ChipCommandModes ==
  /\ \A a : ChipSectorErase(a) => UNCHANGED <<fourByte, bp>>
  /\ ChipBulkErase => UNCHANGED <<fourByte, bp>>
  /\ \A a, n : ChipPageProgram(a, n) => UNCHANGED <<fourByte, bp>>
  /\ ChipStrayProgram => UNCHANGED <<fourByte, bp>>
  /\ \A v : ChipWriteStatus(v) => UNCHANGED <<fourByte, bp>>
<1>1. \A cells, new : ChipChange(cells, new) => UNCHANGED <<fourByte, bp>>
  BY DEF ChipChange, chipVars
<1> QED
  BY <1>1 DEF ChipSectorErase, ChipBulkErase, ChipPageProgram, ChipStrayProgram,
              ChipWriteStatus, chipVars

(* Entering and leaving the four byte mode bracket every use of an         *)
(* address, if the switch reached the chip.                                *)
LEMMA ModeStep == TypeOK /\ IdleChipInv /\ ModeInv /\ [Next]_vars => ModeInv'
<1> SUFFICES ASSUME TypeOK, IdleChipInv, ModeInv, [Next]_vars PROVE ModeInv'
  OBVIOUS
<1> USE DEF ModeInv, At, ModeLabels, WaitsFor, SwitchesFor, EnterReturns, LeaveReturns, Entering,
            Goto, Finish, CallWait, Fail, chipVars, callVars, histVars
<1>0. fourByte \in BOOLEAN /\ Addr4b \in BOOLEAN /\ (misread => fault)
  BY NorAssumption DEF TypeOK, ChipTypeOK, FlagTypeOK
<1>1. CASE \E r \in Requests : Start(r)
  BY <1>1 DEF Start
<1>2. CASE spi_nor_probe
  BY <1>2, QuitMode DEF spi_nor_probe
<1>3. CASE spi_nor_init
  BY <1>3 DEF spi_nor_init, ReadBp
<1>4. CASE do_identify
  BY <1>4 DEF do_identify
<1>5. CASE do_unlock
  BY <1>5 DEF do_unlock
<1>6. CASE do_lock
  BY <1>6 DEF do_lock
<1>7. CASE do_erase
  BY <1>7, QuitMode DEF do_erase
<1>8. CASE do_read
  BY <1>8, QuitMode DEF do_read
<1>9. CASE do_write
  BY <1>9, QuitMode DEF do_write
<1>10. CASE wait_ready
  BY <1>0, <1>10 DEF wait_ready, Polled, Ready, Return, TypeOK, ControlTypeOK, WaitReturns,
               IdleChipInv, IdleChipLabels, DecidingLabels
<1>11. CASE mode_4byte
  BY <1>0, <1>11 DEF mode_4byte, ChipSetMode, TypeOK, ControlTypeOK, ModeReturns,
                    IdleChipInv, IdleChipLabels, DecidingLabels
<1>12. CASE write_enable
  BY <1>12 DEF write_enable, Send, ChipWren, AfterWren
<1>13. CASE erase_ready
  BY <1>0, <1>13 DEF erase_ready, CallMode
<1>14. CASE erase_sector
  BY <1>14, ChipCommandModes DEF erase_sector, Send
<1>15. CASE erase_done
  BY <1>15 DEF erase_done, CallMode
<1>16. CASE erase_next
  BY <1>16 DEF erase_next
<1>17. CASE bulk_ready
  BY <1>17 DEF bulk_ready
<1>18. CASE bulk_erase
  BY <1>18, ChipCommandModes DEF bulk_erase, Send
<1>19. CASE bulk_done
  BY <1>19 DEF bulk_done, Send, ChipWrdi
<1>20. CASE read_ready
  BY <1>0, <1>20 DEF read_ready, CallMode
<1>21. CASE read_chunk
  BY <1>21 DEF read_chunk, CallMode
<1>22. CASE read_end
  BY <1>22 DEF read_end
<1>23. CASE write_ready
  BY <1>0, <1>23 DEF write_ready, CallMode
<1>24. CASE write_settle
  BY <1>24 DEF write_settle
<1>25. CASE write_page
  BY <1>25, ChipCommandModes DEF write_page
<1>26. CASE write_next
  BY <1>26 DEF write_next, CallMode, StopWriting
<1>27. CASE write_done
  BY <1>27 DEF write_done, Send, ChipWrdi
<1>28. CASE lock_read
  BY <1>28 DEF lock_read, ReadBp
<1>29. CASE lock_write
  BY <1>29, ChipCommandModes DEF lock_write, Send
<1>30. CASE lock_reread
  BY <1>30 DEF lock_reread, ReadBp
<1>31. CASE cleanup
  BY <1>31, QuitMode DEF cleanup
<1>32. CASE sigterm
  BY <1>32 DEF sigterm
<1>33. CASE Crash
  BY <1>33, QuitMode DEF Crash
<1>34. CASE ChipStep
  BY <1>0, <1>34 DEF ChipStep, ChipDone, IdleChipInv, IdleChipLabels, DecidingLabels
<1>35. CASE mode_ear
  BY <1>0, <1>35 DEF mode_ear, Send, ChipWriteExtended, ChipWrdi, Entering, TypeOK, ControlTypeOK, ModeReturns,
               EnterReturns, LeaveReturns
<1>36. CASE UNCHANGED vars
  BY <1>36 DEF vars
<1> QED
  BY <1>1, <1>2, <1>3, <1>4, <1>5, <1>6, <1>7, <1>8, <1>9, <1>10, <1>11, <1>12,
     <1>13, <1>14, <1>15, <1>16, <1>17, <1>18, <1>19, <1>20, <1>21, <1>22, <1>23, <1>24,
     <1>25, <1>26, <1>27, <1>28, <1>29, <1>30, <1>31, <1>32, <1>33, <1>34, <1>35, <1>36
     DEF Next, Program

(* Whichever address mode the chip was left in, and although no caller     *)
(* looks at the result of snor_4byte_mode, no address is sent in the wrong *)
(* mode unless a transfer failed.                                          *)
THEOREM AddressModeCorrect == Spec => []AddressModeAgrees
<1>1. Init => IdleChipInv /\ ModeInv
  BY DEF Init, ProcessInit, IdleChipInv, ModeInv, At, ModeLabels, WaitsFor, SwitchesFor,
         IdleChipLabels, DecidingLabels
<1>2. TypeOK /\ IdleChipInv /\ ModeInv /\ [Next]_vars => (IdleChipInv /\ ModeInv)'
  BY IdleChipStep, ModeStep
<1>3. ModeInv => AddressModeAgrees
  BY DEF ModeInv, AddressModeAgrees, At
<1> QED
  BY <1>1, <1>2, <1>3, TypeCorrect, PTL DEF Spec
-----------------------------------------------------------------------------
(* Block protection.                                                       *)

(* Integer division by a positive divisor.                                 *)
LEMMA DivisionFacts ==
  ASSUME NEW a \in Nat, NEW d \in Nat \ {0}
  PROVE  /\ a \div d \in Nat
         /\ (a \div d) * d <= a
         /\ a < (a \div d) * d + d
  OBVIOUS

(* The number of protected sectors is a natural for every BP value.        *)
LEMMA ProtectedRegionsType == \A b \in Bp : ProtectedRegions(b) \in Nat
<1> SUFFICES ASSUME NEW b \in Bp PROVE ProtectedRegions(b) \in Nat
  OBVIOUS
<1>1. CASE b \in 1 .. 8
  <2>1. Fraction[b] \in Nat \ {0}
    BY <1>1 DEF Fraction
  <2>2. NumRegions \div Fraction[b] \in Nat
    BY <2>1, DivisionFacts, ConstantTypes
  <2> QED
    BY <1>1, <2>2 DEF ProtectedRegions
<1>2. CASE b \notin 1 .. 8
  BY <1>2, ConstantTypes DEF ProtectedRegions, Bp
<1> QED
  BY <1>1, <1>2

(* With regions locked from the top down, comparing the ends of a request  *)
(* with every locked region is enough: a protected cell below the end of   *)
(* the request puts the sector of that end above a locked one.             *)
LEMMA TopDownCheckSuffices ==
  ASSUME NEW b \in Bp, NEW offset \in Nat, NEW len \in Nat, NEW c \in Cell,
         offset + len < DeviceSize, c < offset + len,
         ~flash_contains_protected_blocks(spi_nor_bp_bit2_to_bit5_top_down(b), offset, len)
  PROVE  c \div RegionSize < NumRegions - ProtectedRegions(b)
<1> DEFINE e == offset + len
           j == e \div RegionSize
           p == ProtectedRegions(b)
<1> SUFFICES ASSUME c \div RegionSize >= NumRegions - p PROVE FALSE
  <2>1. c \in Nat
    BY ConstantTypes DEF Cell
  <2>2. c \div RegionSize \in Nat /\ p \in Nat
    BY <2>1, DivisionFacts, ProtectedRegionsType, ConstantTypes
  <2> QED
    BY <2>2, ConstantTypes
<1>1. c \in Nat /\ e \in Nat /\ c < e /\ p \in Nat
  BY ProtectedRegionsType, ConstantTypes DEF Cell
<1>2. j \in Nat /\ j * RegionSize <= e /\ e < j * RegionSize + RegionSize
  BY <1>1, DivisionFacts, ConstantTypes
<1>3. EndOf(offset, len) = e
  BY <1>1, RegionsAssumption DEF EndOf, DeviceSize
<1>4. c \div RegionSize <= j
  BY <1>1, QuotientOrder, ConstantTypes
<1>5. c \div RegionSize \in Nat
  BY <1>1, DivisionFacts, ConstantTypes
<1> HIDE DEF e, j, p
<1>6. j < NumRegions
  <2>1. j * RegionSize \in Nat /\ NumRegions * RegionSize \in Nat
    BY <1>2, ConstantTypes
  <2>2. j * RegionSize < NumRegions * RegionSize
    BY <1>1, <1>2, <2>1 DEF e, DeviceSize
  <2> QED
    BY <1>2, <2>2, ProductOrder, ConstantTypes
<1>7. j \in Region
  BY <1>2, <1>6, ConstantTypes DEF Region
<1>8. j >= NumRegions - p
  BY <1>1, <1>2, <1>4, <1>5, ConstantTypes
<1>9. spi_nor_bp_bit2_to_bit5_top_down(b)[j]
  BY <1>7, <1>8 DEF spi_nor_bp_bit2_to_bit5_top_down, p
<1>10. flash_region_contains(j, offset, len)
  <2>1. j * RegionSize \in Nat
    BY <1>2, ConstantTypes
  <2> QED
    BY <1>1, <1>2, <1>3, <2>1, ConstantTypes DEF flash_region_contains, AddrStart, AddrEnd
<1> QED
  BY <1>7, <1>9, <1>10 DEF flash_contains_protected_blocks

(* A new process holds no marks that could be wrong.                       *)
LEMMA QuitFlags == FlagsInv /\ Quit => FlagsInv'
  BY DEF Quit, FlagsInv, At, ModeLabels, WaitsFor, SwitchesFor, WriteLabels, LockLabels, chipVars

(* Only WRSR, and the end of the operation it starts, change the BP bits.  *)
LEMMA ChipCommandBits ==
  /\ \A a : ChipSectorErase(a) => UNCHANGED <<bp, bpNext>> /\ (wip => wip')
  /\ ChipBulkErase => UNCHANGED <<bp, bpNext>> /\ (wip => wip')
  /\ \A a, n : ChipPageProgram(a, n) => UNCHANGED <<bp, bpNext>> /\ (wip => wip')
  /\ ChipStrayProgram => UNCHANGED <<bp, bpNext>> /\ (wip => wip')
<1>1. \A cells, new : ChipChange(cells, new) => UNCHANGED <<bp, bpNext>> /\ (wip => wip')
  BY DEF ChipChange, chipVars
<1> QED
  BY <1>1 DEF ChipSectorErase, ChipBulkErase, ChipPageProgram, ChipStrayProgram, chipVars

(* While a write is decided and done, region->locked is what the BP bits   *)
(* of the chip say: nothing writes them in between.                        *)
LEMMA FlagsStep == TypeOK /\ IdleChipInv /\ FlagsInv /\ [Next]_vars => FlagsInv'
<1> SUFFICES ASSUME TypeOK, IdleChipInv, FlagsInv, [Next]_vars PROVE FlagsInv'
  OBVIOUS
<1> USE DEF FlagsInv, At, ModeLabels, WaitsFor, SwitchesFor, WriteLabels, LockLabels,
            Goto, Finish, CallWait, Fail, chipVars, callVars, opVars, regionVars, histVars
<1>0. /\ UNCHANGED <<locked, req>> => (WriteRefused' <=> WriteRefused)
      /\ misread => fault
  BY DEF WriteRefused, OpLen, fill_addr_len, TypeOK, FlagTypeOK
<1>1. CASE \E r \in Requests : Start(r)
  BY <1>1 DEF Start
<1>2. CASE spi_nor_probe
  BY <1>0, <1>2, QuitFlags DEF spi_nor_probe
<1>3. CASE spi_nor_init
  BY <1>0, <1>3 DEF spi_nor_init, ReadBp, IdleChipInv, IdleChipLabels
<1>4. CASE do_identify
  BY <1>0, <1>4 DEF do_identify
<1>5. CASE do_unlock
  BY <1>0, <1>5 DEF do_unlock
<1>6. CASE do_lock
  BY <1>0, <1>6 DEF do_lock
<1>7. CASE do_erase
  BY <1>0, <1>7, QuitFlags DEF do_erase
<1>8. CASE do_read
  BY <1>0, <1>8, QuitFlags DEF do_read
<1>9. CASE do_write
  BY <1>0, <1>9, QuitFlags DEF do_write
<1>10. CASE wait_ready
  BY <1>0, <1>10 DEF wait_ready, Polled, Return, TypeOK, ControlTypeOK, WaitReturns
<1>11. CASE mode_4byte
  BY <1>0, <1>11 DEF mode_4byte, ChipSetMode, TypeOK, ControlTypeOK, ModeReturns,
                    EnterReturns, LeaveReturns
<1>12. CASE write_enable
  BY <1>0, <1>12 DEF write_enable, Send, ChipWren, AfterWren
<1>13. CASE erase_ready
  BY <1>0, <1>13 DEF erase_ready, CallMode
<1>14. CASE erase_sector
  BY <1>0, <1>14, ChipCommandBits DEF erase_sector, Send
<1>15. CASE erase_done
  BY <1>0, <1>15 DEF erase_done, CallMode
<1>16. CASE erase_next
  BY <1>0, <1>16 DEF erase_next
<1>17. CASE bulk_ready
  BY <1>0, <1>17 DEF bulk_ready
<1>18. CASE bulk_erase
  BY <1>0, <1>18, ChipCommandBits DEF bulk_erase, Send
<1>19. CASE bulk_done
  BY <1>0, <1>19 DEF bulk_done, Send, ChipWrdi
<1>20. CASE read_ready
  BY <1>0, <1>20 DEF read_ready, CallMode
<1>21. CASE read_chunk
  BY <1>0, <1>21 DEF read_chunk, CallMode
<1>22. CASE read_end
  BY <1>0, <1>22 DEF read_end
<1>23. CASE write_ready
  BY <1>0, <1>23 DEF write_ready, CallMode
<1>24. CASE write_settle
  BY <1>0, <1>24 DEF write_settle
<1>25. CASE write_page
  BY <1>0, <1>25, ChipCommandBits DEF write_page
<1>26. CASE write_next
  BY <1>0, <1>26 DEF write_next, CallMode, StopWriting
<1>27. CASE write_done
  BY <1>0, <1>27 DEF write_done, Send, ChipWrdi
<1>28. CASE lock_read
  BY <1>0, <1>28 DEF lock_read, ReadBp
<1>29. CASE lock_write
  BY <1>0, <1>29 DEF lock_write, Send, ChipWriteStatus
<1>30. CASE lock_reread
  BY <1>0, <1>30 DEF lock_reread, ReadBp
<1>31. CASE cleanup
  BY <1>0, <1>31, QuitFlags DEF cleanup
<1>32. CASE sigterm
  BY <1>0, <1>32 DEF sigterm
<1>33. CASE Crash
  BY <1>0, <1>33, QuitFlags DEF Crash
<1>34. CASE ChipStep
  BY <1>0, <1>34 DEF ChipStep, ChipDone
<1>35. CASE mode_ear
  BY <1>0, <1>35 DEF mode_ear, Send, ChipWriteExtended, ChipWrdi, Entering, TypeOK, ControlTypeOK, ModeReturns,
               EnterReturns, LeaveReturns
<1>36. CASE UNCHANGED vars
  BY <1>0, <1>36 DEF vars
<1> QED
  BY <1>1, <1>2, <1>3, <1>4, <1>5, <1>6, <1>7, <1>8, <1>9, <1>10, <1>11, <1>12,
     <1>13, <1>14, <1>15, <1>16, <1>17, <1>18, <1>19, <1>20, <1>21, <1>22, <1>23, <1>24,
     <1>25, <1>26, <1>27, <1>28, <1>29, <1>30, <1>31, <1>32, <1>33, <1>34, <1>35, <1>36
     DEF Next, Program

(* No write that flash_write lets through, and that ends before the last   *)
(* cell of the device, has a cell in a sector that the chip protects.      *)
THEOREM ProtectionSound == Spec => []AcceptedWriteUnprotected
<1>1. Init => IdleChipInv /\ FlagsInv
  BY DEF Init, ProcessInit, IdleChipInv, FlagsInv, At, ModeLabels, WaitsFor, SwitchesFor,
         IdleChipLabels, DecidingLabels, WriteLabels, LockLabels
<1>2. TypeOK /\ IdleChipInv /\ FlagsInv /\ [Next]_vars => (IdleChipInv /\ FlagsInv)'
  BY IdleChipStep, FlagsStep
<1>3. TypeOK /\ FlagsInv => AcceptedWriteUnprotected
  <2> SUFFICES ASSUME TypeOK, FlagsInv,
                      pc \in {"wr_wren", "wr_cmd", "wr_page"}, HasBp, ~fault,
                      req.addr + OpLen < DeviceSize,
                      NEW c \in Range
               PROVE  ~Protected(c)
    BY DEF AcceptedWriteUnprotected
  <2>1. locked = spi_nor_bp_bit2_to_bit5_top_down(bp) /\ ~WriteRefused
    BY DEF FlagsInv, At, WriteLabels
  <2>2. ~flash_contains_protected_blocks(locked, req.addr, OpLen)
    BY <2>1 DEF WriteRefused
  <2>3. req.addr \in Nat /\ OpLen \in Nat /\ bp \in Bp
    BY OpLenType, ConstantTypes DEF TypeOK, OperationTypeOK, ChipTypeOK, RequestType, Word
  <2>4. c \in Cell /\ c < req.addr + OpLen
    BY DEF Range
  <2>5. c \div RegionSize < NumRegions - ProtectedRegions(bp)
    BY <2>1, <2>2, <2>3, <2>4, TopDownCheckSuffices
  <2>6. c \div RegionSize \in Nat /\ ProtectedRegions(bp) \in Nat
    BY <2>3, <2>4, DivisionFacts, ProtectedRegionsType, ConstantTypes DEF Cell
  <2> QED
    BY <2>5, <2>6, ConstantTypes DEF Protected
<1> QED
  BY <1>1, <1>2, <1>3, TypeCorrect, PTL DEF Spec
=============================================================================
