----------------------- MODULE SpiNorOutcomeProofs -------------------------
(***************************************************************************)
(* Theorems about how an operation of SpiNor ends: after ^C, after lock    *)
(* and unlock, and when nothing disturbed it.                              *)
(***************************************************************************)
EXTENDS SpiNorProofs

-----------------------------------------------------------------------------
(* After ^C.                                                               *)

(* A process that ends has sent nothing yet. *)
LEMMA QuitAbort == Quit => AbortInv'
  BY DEF Quit, AbortInv

(* Every loop looks at the flag before it sends another command. *)
LEMMA AbortStep == TypeOK /\ AbortInv /\ [Next]_vars => AbortInv'
<1> SUFFICES ASSUME TypeOK, AbortInv, [Next]_vars PROVE AbortInv'
  OBVIOUS
<1> USE DEF AbortInv, SentLabels, HeadsFor, At, ModeLabels, WaitsFor, SwitchesFor,
            EnterReturns, LeaveReturns, Goto, Finish, CallWait, chipVars, callVars, opVars, histVars
<1>1. CASE \E r \in Requests : Start(r)
  BY <1>1 DEF Start
<1>2. CASE spi_nor_probe
  BY <1>2, QuitAbort DEF spi_nor_probe
<1>3. CASE spi_nor_init
  BY <1>3 DEF spi_nor_init
<1>4. CASE do_identify
  BY <1>4 DEF do_identify
<1>5. CASE do_unlock
  BY <1>5 DEF do_unlock
<1>6. CASE do_lock
  BY <1>6 DEF do_lock
<1>7. CASE do_erase
  BY <1>7, QuitAbort DEF do_erase
<1>8. CASE do_read
  BY <1>8, QuitAbort DEF do_read
<1>9. CASE do_write
  BY <1>9, QuitAbort DEF do_write
<1>10. CASE wait_ready
  BY <1>10 DEF wait_ready, Polled, Return, Fail
<1>11. CASE mode_4byte
  BY <1>11 DEF mode_4byte, Fail, TypeOK, ControlTypeOK, ModeReturns
<1>12. CASE write_enable
  BY <1>12 DEF write_enable, AfterWren
<1>13. CASE erase_ready
  BY <1>13 DEF erase_ready, CallMode
<1>14. CASE erase_sector
  BY <1>14 DEF erase_sector, CountAfterKill
<1>15. CASE erase_done
  BY <1>15 DEF erase_done, CallMode
<1>16. CASE erase_next
  BY <1>16 DEF erase_next
<1>17. CASE bulk_ready
  BY <1>17 DEF bulk_ready
<1>18. CASE bulk_erase
  BY <1>18 DEF bulk_erase, CountAfterKill
<1>19. CASE bulk_done
  BY <1>19 DEF bulk_done
<1>20. CASE read_ready
  BY <1>20 DEF read_ready, CallMode
<1>21. CASE read_chunk
  BY <1>21 DEF read_chunk, CallMode
<1>22. CASE read_end
  BY <1>22 DEF read_end
<1>23. CASE write_ready
  BY <1>23 DEF write_ready, CallMode
<1>24. CASE write_settle
  BY <1>24 DEF write_settle
<1>25. CASE write_page
  BY <1>25 DEF write_page, CountAfterKill
<1>26. CASE write_next
  BY <1>26 DEF write_next, CallMode, StopWriting
<1>27. CASE write_done
  BY <1>27 DEF write_done
<1>28. CASE lock_read
  BY <1>28 DEF lock_read
<1>29. CASE lock_write
  BY <1>29 DEF lock_write
<1>30. CASE lock_reread
  BY <1>30 DEF lock_reread
<1>31. CASE cleanup
  BY <1>31, QuitAbort DEF cleanup
<1>32. CASE sigterm
  BY <1>32 DEF sigterm, TypeOK, FlagTypeOK
<1>33. CASE Crash
  BY <1>33, QuitAbort DEF Crash
<1>34. CASE ChipStep
  BY <1>34 DEF ChipStep
<1>35. CASE mode_ear
  BY <1>35 DEF mode_ear, Send, ChipWriteExtended, ChipWrdi, Entering, TypeOK,
                    ControlTypeOK, ModeReturns
<1>36. CASE UNCHANGED vars
  BY <1>36 DEF vars
<1> QED
  BY <1>1, <1>2, <1>3, <1>4, <1>5, <1>6, <1>7, <1>8, <1>9, <1>10, <1>11, <1>12,
     <1>13, <1>14, <1>15, <1>16, <1>17, <1>18, <1>19, <1>20, <1>21, <1>22, <1>23, <1>24,
     <1>25, <1>26, <1>27, <1>28, <1>29, <1>30, <1>31, <1>32, <1>33, <1>34, <1>35, <1>36
     DEF Next, Program

(* After ^C at most one more erase or page program reaches the chip,       *)
(* whatever was in progress and whatever the chip answers.                 *)
THEOREM AbortIsSoon == Spec => []AbortStopsSoon
<1>1. Init => AbortInv
  BY DEF Init, ProcessInit, AbortInv
<1>2. TypeOK /\ AbortInv /\ [Next]_vars => AbortInv'
  BY AbortStep
<1>3. AbortInv => AbortStopsSoon
  BY DEF AbortInv, AbortStopsSoon
<1> QED
  BY <1>1, <1>2, <1>3, TypeCorrect, PTL DEF Spec

-----------------------------------------------------------------------------
(* Operations and their labels.                                            *)

(* A process that ends has no request. *)
LEMMA QuitOperation == Quit => OperationInv'
  BY DEF Quit, OperationInv, NoRequest, At, ModeLabels, WaitsFor, SwitchesFor

(* No operation runs into the code of another. *)
LEMMA OperationStep == TypeOK /\ OperationInv /\ [Next]_vars => OperationInv'
<1> SUFFICES ASSUME TypeOK, OperationInv, [Next]_vars PROVE OperationInv'
  OBVIOUS
<1> USE DEF OperationInv, StartLabels, LockLabels, WriteLabels, ReadLabels,
            HeadsFor, At, ModeLabels, WaitsFor, SwitchesFor,
            EnterReturns, LeaveReturns, Goto, Finish, CallWait, chipVars, callVars, opVars, histVars
<1>1. CASE \E r \in Requests : Start(r)
  BY <1>1 DEF Start
<1>2. CASE spi_nor_probe
  BY <1>2, QuitOperation DEF spi_nor_probe
<1>3. CASE spi_nor_init
  BY <1>3 DEF spi_nor_init
<1>4. CASE do_identify
  BY <1>4 DEF do_identify
<1>5. CASE do_unlock
  BY <1>5 DEF do_unlock
<1>6. CASE do_lock
  BY <1>6 DEF do_lock
<1>7. CASE do_erase
  BY <1>7, QuitOperation DEF do_erase
<1>8. CASE do_read
  BY <1>8, QuitOperation DEF do_read
<1>9. CASE do_write
  BY <1>9, QuitOperation DEF do_write
<1>10. CASE wait_ready
  BY <1>10 DEF wait_ready, Polled, Return, TypeOK, ControlTypeOK, WaitReturns
<1>11. CASE mode_4byte
  BY <1>11 DEF mode_4byte, TypeOK, ControlTypeOK, ModeReturns
<1>12. CASE write_enable
  BY <1>12 DEF write_enable, AfterWren
<1>13. CASE erase_ready
  BY <1>13 DEF erase_ready, CallMode
<1>14. CASE erase_sector
  BY <1>14 DEF erase_sector
<1>15. CASE erase_done
  BY <1>15 DEF erase_done, CallMode
<1>16. CASE erase_next
  BY <1>16 DEF erase_next
<1>17. CASE bulk_ready
  BY <1>17 DEF bulk_ready
<1>18. CASE bulk_erase
  BY <1>18 DEF bulk_erase
<1>19. CASE bulk_done
  BY <1>19 DEF bulk_done
<1>20. CASE read_ready
  BY <1>20 DEF read_ready, CallMode
<1>21. CASE read_chunk
  BY <1>21 DEF read_chunk, CallMode
<1>22. CASE read_end
  BY <1>22 DEF read_end
<1>23. CASE write_ready
  BY <1>23 DEF write_ready, CallMode
<1>24. CASE write_settle
  BY <1>24 DEF write_settle
<1>25. CASE write_page
  BY <1>25 DEF write_page
<1>26. CASE write_next
  BY <1>26 DEF write_next, CallMode
<1>27. CASE write_done
  BY <1>27 DEF write_done
<1>28. CASE lock_read
  BY <1>28 DEF lock_read
<1>29. CASE lock_write
  BY <1>29 DEF lock_write
<1>30. CASE lock_reread
  BY <1>30 DEF lock_reread
<1>31. CASE cleanup
  BY <1>31, QuitOperation DEF cleanup
<1>32. CASE sigterm
  BY <1>32 DEF sigterm
<1>33. CASE Crash
  BY <1>33, QuitOperation DEF Crash
<1>34. CASE ChipStep
  BY <1>34 DEF ChipStep, ChipDone
<1>35. CASE mode_ear
  BY <1>35 DEF mode_ear, Send, ChipWriteExtended, ChipWrdi, Entering, TypeOK,
                    ControlTypeOK, ModeReturns
<1>36. CASE UNCHANGED vars
  BY <1>36 DEF vars
<1> QED
  BY <1>1, <1>2, <1>3, <1>4, <1>5, <1>6, <1>7, <1>8, <1>9, <1>10, <1>11, <1>12,
     <1>13, <1>14, <1>15, <1>16, <1>17, <1>18, <1>19, <1>20, <1>21, <1>22, <1>23, <1>24,
     <1>25, <1>26, <1>27, <1>28, <1>29, <1>30, <1>31, <1>32, <1>33, <1>34, <1>35, <1>36
     DEF Next, Program

-----------------------------------------------------------------------------
(* The lock status that is printed.                                        *)

(* A process that ends has printed nothing that could become stale. *)
LEMMA QuitReread == Quit => RereadInv'
  BY DEF Quit, RereadInv

(* Once a wait has succeeded nothing starts an operation before the exit.  *)
LEMMA RereadStep == TypeOK /\ OperationInv /\ RereadInv /\ [Next]_vars => RereadInv'
<1> SUFFICES ASSUME TypeOK, OperationInv, RereadInv, [Next]_vars PROVE RereadInv'
  OBVIOUS
<1> USE DEF RereadInv, OperationInv, HeadsFor, StartLabels, LockLabels, WriteLabels, ReadLabels,
            At, ModeLabels, WaitsFor, SwitchesFor,
            EnterReturns, LeaveReturns, Goto, Finish, CallWait, Fail, chipVars, callVars, opVars,
            regionVars, histVars
<1>1. CASE \E r \in Requests : Start(r)
  BY <1>1 DEF Start
<1>2. CASE spi_nor_probe
  BY <1>2, QuitReread DEF spi_nor_probe
<1>3. CASE spi_nor_init
  BY <1>3 DEF spi_nor_init, ReadBp
<1>4. CASE do_identify
  BY <1>4 DEF do_identify
<1>5. CASE do_unlock
  BY <1>5 DEF do_unlock
<1>6. CASE do_lock
  BY <1>6 DEF do_lock
<1>7. CASE do_erase
  BY <1>7, QuitReread DEF do_erase
<1>8. CASE do_read
  BY <1>8, QuitReread DEF do_read
<1>9. CASE do_write
  BY <1>9, QuitReread DEF do_write
<1>10. CASE wait_ready
  BY <1>10 DEF wait_ready, Polled, Return, Ready, TypeOK, ControlTypeOK, WaitReturns
<1>11. CASE mode_4byte
  BY <1>11 DEF mode_4byte, TypeOK, ControlTypeOK, ModeReturns
<1>12. CASE write_enable
  BY <1>12 DEF write_enable, AfterWren
<1>13. CASE erase_ready
  BY <1>13 DEF erase_ready, CallMode
<1>14. CASE erase_sector
  BY <1>14 DEF erase_sector
<1>15. CASE erase_done
  BY <1>15 DEF erase_done, CallMode
<1>16. CASE erase_next
  BY <1>16 DEF erase_next
<1>17. CASE bulk_ready
  BY <1>17 DEF bulk_ready
<1>18. CASE bulk_erase
  BY <1>18 DEF bulk_erase
<1>19. CASE bulk_done
  BY <1>19 DEF bulk_done
<1>20. CASE read_ready
  BY <1>20 DEF read_ready, CallMode
<1>21. CASE read_chunk
  BY <1>21 DEF read_chunk, CallMode
<1>22. CASE read_end
  BY <1>22 DEF read_end
<1>23. CASE write_ready
  BY <1>23 DEF write_ready, CallMode
<1>24. CASE write_settle
  BY <1>24 DEF write_settle
<1>25. CASE write_page
  BY <1>25 DEF write_page
<1>26. CASE write_next
  BY <1>26 DEF write_next, CallMode, StopWriting
<1>27. CASE write_done
  BY <1>27 DEF write_done
<1>28. CASE lock_read
  BY <1>28 DEF lock_read
<1>29. CASE lock_write
  BY <1>29 DEF lock_write
<1>30. CASE lock_reread
  BY <1>30 DEF lock_reread, ReadBp
<1>31. CASE cleanup
  BY <1>31, QuitReread DEF cleanup
<1>32. CASE sigterm
  BY <1>32 DEF sigterm
<1>33. CASE Crash
  BY <1>33, QuitReread DEF Crash
<1>34. CASE ChipStep
  BY <1>34 DEF ChipStep, ChipDone
<1>35. CASE mode_ear
  BY <1>35 DEF mode_ear, Send, ChipWriteExtended, ChipWrdi, Entering, TypeOK,
                    ControlTypeOK, ModeReturns
<1>36. CASE UNCHANGED vars
  BY <1>36 DEF vars
<1> QED
  BY <1>1, <1>2, <1>3, <1>4, <1>5, <1>6, <1>7, <1>8, <1>9, <1>10, <1>11, <1>12,
     <1>13, <1>14, <1>15, <1>16, <1>17, <1>18, <1>19, <1>20, <1>21, <1>22, <1>23, <1>24,
     <1>25, <1>26, <1>27, <1>28, <1>29, <1>30, <1>31, <1>32, <1>33, <1>34, <1>35, <1>36
     DEF Next, Program

(* The lock status printed after lock or unlock is the chip's, unless a    *)
(* transfer failed or the wait for the register was cut short.             *)
THEOREM PrintedStatusCorrect == Spec => []PrintedStatusIsCurrent
<1>1. Init => OperationInv /\ RereadInv
  BY DEF Init, ProcessInit, OperationInv, RereadInv, NoRequest, At, ModeLabels, WaitsFor,
         SwitchesFor
<1>2. TypeOK /\ OperationInv /\ RereadInv /\ [Next]_vars => (OperationInv /\ RereadInv)'
  BY OperationStep, RereadStep
<1>3. RereadInv => PrintedStatusIsCurrent
  BY DEF RereadInv, PrintedStatusIsCurrent
<1> QED
  BY <1>1, <1>2, <1>3, TypeCorrect, PTL DEF Spec

-----------------------------------------------------------------------------
(* Lock and unlock.                                                        *)

(* There is a sector, and every one lies in the range of the whole device. *)
LEMMA WholeRange ==
  /\ Region # {}
  /\ \A r \in Region : flash_range_contains_region(r, 0, DeviceSize)
<1>1. Region # {}
  <2>1. 0 \in Region
    BY ConstantTypes DEF Region
  <2> QED
    BY <2>1
<1>2. ASSUME NEW r \in Region PROVE flash_range_contains_region(r, 0, DeviceSize)
  <2>1. r \in Nat /\ r + 1 \in Nat /\ r + 1 <= NumRegions
    BY ConstantTypes DEF Region
  <2>2. PICK z \in Nat : NumRegions = (r + 1) + z
    <3>1. NumRegions - (r + 1) \in Nat /\ NumRegions = (r + 1) + (NumRegions - (r + 1))
      BY <2>1, ConstantTypes
    <3> QED
      BY <3>1
  <2>3. DeviceSize = r * RegionSize + RegionSize + z * RegionSize
    BY <2>1, <2>2, ConstantTypes DEF DeviceSize
  <2>4. r * RegionSize \in Nat /\ z * RegionSize \in Nat
    BY <2>1, <2>2, ConstantTypes
  <2>5. EndOf(0, DeviceSize) = DeviceSize
    BY ConstantTypes, RegionsAssumption DEF EndOf, DeviceSize
  <2> HIDE DEF DeviceSize
  <2> QED
    BY <2>3, <2>4, <2>5, ConstantTypes DEF flash_range_contains_region, AddrStart, AddrEnd
<1> QED
  BY <1>1, <1>2

(* What the marks of the whole device give, and what is encoded from them. *)
LEMMA WholeMarks ==
  ASSUME NEW l \in [Region -> BOOLEAN], NEW b \in Bp
  PROVE  /\ flash_mark_lock(l, 0, DeviceSize) = [r \in Region |-> ~l[r]]
         /\ flash_mark_unlock(l, 0, DeviceSize) = l
         /\ spi_nor_set_bit2_to_bit5_top_down(b, l, [r \in Region |-> ~l[r]], NoFlags) = 15
         /\ spi_nor_set_bit2_to_bit5_top_down(b, l, NoFlags, l) = 0
  BY WholeRange DEF flash_mark_lock, flash_mark_unlock, spi_nor_set_bit2_to_bit5_top_down,
                    WantedLocked, NoFlags

(* Register values for everything and for nothing.                         *)
LEMMA BpExtremes ==
  ASSUME NEW r \in Region
  PROVE  /\ spi_nor_bp_bit2_to_bit5_top_down(15)[r] = TRUE
         /\ spi_nor_bp_bit2_to_bit5_top_down(0)[r] = FALSE
<1>1. ProtectedRegions(15) = NumRegions /\ ProtectedRegions(0) = 0
  BY DEF ProtectedRegions
<1>2. (r >= NumRegions - NumRegions) = TRUE /\ (r >= NumRegions - 0) = FALSE
  BY ConstantTypes DEF Region
<1>3. /\ spi_nor_bp_bit2_to_bit5_top_down(15)[r] = (r >= NumRegions - NumRegions)
      /\ spi_nor_bp_bit2_to_bit5_top_down(0)[r] = (r >= NumRegions - 0)
  BY <1>1 DEF spi_nor_bp_bit2_to_bit5_top_down
<1> QED
  BY <1>2, <1>3

(* The register value encoded from the marks of a request changes what the *)
(* request asked for, or nothing.                                          *)
LEMMA MarksAsAsked ==
  ASSUME NEW b \in Bp, NEW l, l = spi_nor_bp_bit2_to_bit5_top_down(b), l \in [Region -> BOOLEAN]
  PROVE  /\ req.op = "lock" =>
              ChangesAsAsked(spi_nor_set_bit2_to_bit5_top_down(
                b, l, flash_mark_lock(l, req.addr, OpLen), NoFlags), l)
         /\ req.op = "unlock" =>
              ChangesAsAsked(spi_nor_set_bit2_to_bit5_top_down(
                b, l, NoFlags, flash_mark_unlock(l, req.addr, OpLen)), l)
<1>1. ChangesAsAsked(b, l)
  BY DEF ChangesAsAsked
<1>2. ASSUME req.op = "lock"
      PROVE  ChangesAsAsked(spi_nor_set_bit2_to_bit5_top_down(
               b, l, flash_mark_lock(l, req.addr, OpLen), NoFlags), l)
  <2> DEFINE wl == flash_mark_lock(l, req.addr, OpLen)
             s  == spi_nor_set_bit2_to_bit5_top_down(b, l, wl, NoFlags)
  <2> SUFFICES ChangesAsAsked(s, l)
    OBVIOUS
  <2>1. \A r \in Region : WantedLocked(r, l, wl, NoFlags) <=> l[r] \/ flash_range_contains_region(r, req.addr, OpLen)
    BY DEF WantedLocked, flash_mark_lock, NoFlags
  <2>2. \/ s = b
        \/ s = 15 /\ \A r \in Region : WantedLocked(r, l, wl, NoFlags)
        \/ s = 0 /\ \A r \in Region : ~WantedLocked(r, l, wl, NoFlags)
    BY DEF spi_nor_set_bit2_to_bit5_top_down
  <2> HIDE DEF s, wl
  <2>3. CASE s = 15 /\ \A r \in Region : WantedLocked(r, l, wl, NoFlags)
    BY <1>2, <2>1, <2>3, BpExtremes DEF ChangesAsAsked
  <2>4. CASE s = 0 /\ \A r \in Region : ~WantedLocked(r, l, wl, NoFlags)
    BY <1>2, <2>1, <2>4, BpExtremes DEF ChangesAsAsked
  <2> QED
    BY <1>1, <2>2, <2>3, <2>4
<1>3. ASSUME req.op = "unlock"
      PROVE  ChangesAsAsked(spi_nor_set_bit2_to_bit5_top_down(
               b, l, NoFlags, flash_mark_unlock(l, req.addr, OpLen)), l)
  <2> DEFINE wu == flash_mark_unlock(l, req.addr, OpLen)
             s  == spi_nor_set_bit2_to_bit5_top_down(b, l, NoFlags, wu)
  <2> SUFFICES ChangesAsAsked(s, l)
    OBVIOUS
  <2>1. \A r \in Region : WantedLocked(r, l, NoFlags, wu) <=> l[r] /\ ~flash_range_contains_region(r, req.addr, OpLen)
    BY DEF WantedLocked, flash_mark_unlock, NoFlags
  <2>2. \/ s = b
        \/ s = 15 /\ \A r \in Region : WantedLocked(r, l, NoFlags, wu)
        \/ s = 0 /\ \A r \in Region : ~WantedLocked(r, l, NoFlags, wu)
    BY DEF spi_nor_set_bit2_to_bit5_top_down
  <2> HIDE DEF s, wu
  <2>3. CASE s = 15 /\ \A r \in Region : WantedLocked(r, l, NoFlags, wu)
    BY <1>3, <2>1, <2>3, BpExtremes DEF ChangesAsAsked
  <2>4. CASE s = 0 /\ \A r \in Region : ~WantedLocked(r, l, NoFlags, wu)
    BY <1>3, <2>1, <2>4, BpExtremes DEF ChangesAsAsked
  <2> QED
    BY <1>1, <2>2, <2>3, <2>4
<1> QED
  BY <1>2, <1>3

(* The marks of a process that ends are gone. *)
LEMMA QuitLock == Quit => LockInv'
  BY DEF Quit, LockInv, At, WaitsFor, StartLabels, LockLabels, NoRequest

(* From the marks to the register: the chip is idle and write-enabled when *)
(* it is sent the BP bits, and keeps them.                                 *)
LEMMA LockInvStep ==
  TypeOK /\ IdleChipInv /\ FlagsInv /\ OperationInv /\ LockInv /\ [Next]_vars => LockInv'
<1> SUFFICES ASSUME TypeOK, IdleChipInv, FlagsInv, OperationInv, LockInv, [Next]_vars PROVE LockInv'
  OBVIOUS
<1> USE DEF LockInv, WholeDevice, BpWanted, OperationInv, HeadsFor, StartLabels, LockLabels,
            WriteLabels, ReadLabels, At, ModeLabels, WaitsFor, SwitchesFor,
            EnterReturns, LeaveReturns, Goto, Finish, CallWait, Fail, chipVars, callVars, opVars,
            regionVars, histVars
<1>0. /\ UNCHANGED req => OpLen' = OpLen
      /\ UNCHANGED <<req, status, locked>> => (StatusAsAsked' <=> StatusAsAsked)
      /\ misread => fault
  BY DEF OpLen, fill_addr_len, StatusAsAsked, ChangesAsAsked, TypeOK, FlagTypeOK
<1>1. CASE \E r \in Requests : Start(r)
  BY <1>0, <1>1 DEF Start
<1>2. CASE spi_nor_probe
  BY <1>0, <1>2, QuitLock DEF spi_nor_probe
<1>3. CASE spi_nor_init
  BY <1>0, <1>3 DEF spi_nor_init
<1>4. CASE do_identify
  BY <1>0, <1>4 DEF do_identify
<1>5. CASE do_unlock
  BY <1>0, <1>5, WholeMarks DEF do_unlock, TypeOK, RegionTypeOK
<1>6. CASE do_lock
  BY <1>0, <1>6, WholeMarks DEF do_lock, TypeOK, RegionTypeOK
<1>7. CASE do_erase
  BY <1>0, <1>7, QuitLock DEF do_erase
<1>8. CASE do_read
  BY <1>0, <1>8, QuitLock DEF do_read
<1>9. CASE do_write
  BY <1>0, <1>9, QuitLock DEF do_write
<1>10. CASE wait_ready
  BY <1>0, <1>10 DEF wait_ready, Polled, Return, TypeOK, ControlTypeOK, WaitReturns
<1>11. CASE mode_4byte
  BY <1>0, <1>11 DEF mode_4byte, TypeOK, ControlTypeOK, ModeReturns
<1>12. CASE write_enable
  <2>1. /\ pc \in {"se_wren", "be_wren", "wr_wren", "lk_wren", "mode_wren"}
        /\ fault \/ ~wip
    BY <1>0, <1>12 DEF write_enable, AfterWren, IdleChipInv, IdleChipLabels
  <2>2. pc' = "lk_wrsr" <=> pc = "lk_wren"
    BY <1>12, <2>1 DEF write_enable, AfterWren
  <2>3. pc' \in {"se_cmd", "be_cmd", "wr_cmd", "lk_wrsr", "mode_ear"}
    BY <1>12, <2>1 DEF write_enable, AfterWren
  <2>4. ~fault' => ~fault /\ wel'
    BY <1>12, <2>1 DEF write_enable, Send, ChipWren, TypeOK, ChipTypeOK
  <2>5. UNCHANGED <<req, status, locked>>
    BY <1>12 DEF write_enable
  <2> QED
    BY <1>0, <2>2, <2>3, <2>4, <2>5
<1>13. CASE erase_ready
  BY <1>0, <1>13 DEF erase_ready, CallMode
<1>14. CASE erase_sector
  BY <1>0, <1>14 DEF erase_sector
<1>15. CASE erase_done
  BY <1>0, <1>15 DEF erase_done, CallMode
<1>16. CASE erase_next
  BY <1>0, <1>16 DEF erase_next
<1>17. CASE bulk_ready
  BY <1>0, <1>17 DEF bulk_ready
<1>18. CASE bulk_erase
  BY <1>0, <1>18 DEF bulk_erase
<1>19. CASE bulk_done
  BY <1>0, <1>19 DEF bulk_done
<1>20. CASE read_ready
  BY <1>0, <1>20 DEF read_ready, CallMode
<1>21. CASE read_chunk
  BY <1>0, <1>21 DEF read_chunk, CallMode
<1>22. CASE read_end
  BY <1>0, <1>22 DEF read_end
<1>23. CASE write_ready
  BY <1>0, <1>23 DEF write_ready, CallMode
<1>24. CASE write_settle
  BY <1>0, <1>24 DEF write_settle
<1>25. CASE write_page
  BY <1>0, <1>25 DEF write_page
<1>26. CASE write_next
  BY <1>0, <1>26 DEF write_next, CallMode, StopWriting
<1>27. CASE write_done
  BY <1>0, <1>27 DEF write_done
<1>28. CASE lock_read
  <2>1. PICK v \in Bp :
          /\ ReadBp(v)
          /\ status' = spi_nor_set_bit2_to_bit5_top_down(v, locked, want_to_lock, want_to_unlock)
    BY <1>28 DEF lock_read
  <2>2. pc = "lk_read" /\ pc' = "lk_wren" /\ UNCHANGED <<req, locked>>
    BY <1>28 DEF lock_read
  <2>3. SUFFICES ASSUME ~fault' PROVE StatusAsAsked' /\ (WholeDevice => status' = BpWanted)
    BY <1>0, <2>2
  <2>4. v = bp /\ ~fault
    BY <2>1, <2>3 DEF ReadBp
  <2>5. HasBp /\ req.op \in {"lock", "unlock"}
    BY <2>2 DEF FlagsInv
  <2>6. locked = spi_nor_bp_bit2_to_bit5_top_down(bp) /\ locked \in [Region -> BOOLEAN]
    BY <2>2, <2>4, <2>5 DEF FlagsInv, TypeOK, RegionTypeOK
  <2>7. StatusAsAsked'
    <3>1. ChangesAsAsked(status', locked)
      BY <2>1, <2>2, <2>4, <2>5, <2>6, MarksAsAsked
    <3> QED
      BY <2>2, <3>1, <1>0 DEF StatusAsAsked, ChangesAsAsked
  <2>8. WholeDevice => status' = BpWanted
    <3>1. CASE WholeDevice /\ req.op = "lock"
      <4>1. want_to_lock = [r \in Region |-> ~locked[r]] /\ want_to_unlock = NoFlags
        BY <2>2, <2>4, <2>5, <2>6, <3>1, WholeMarks
      <4> QED
        BY <2>1, <2>6, <3>1, <4>1, WholeMarks
    <3>2. CASE WholeDevice /\ req.op = "unlock"
      <4>1. want_to_lock = NoFlags /\ want_to_unlock = locked
        BY <2>2, <2>4, <2>5, <2>6, <3>2, WholeMarks
      <4> QED
        BY <2>1, <2>6, <3>2, <4>1, WholeMarks
    <3> QED
      BY <2>5, <3>1, <3>2
  <2> QED
    BY <2>7, <2>8
<1>29. CASE lock_write
  BY <1>0, <1>29 DEF lock_write, Send, ChipWriteStatus, Enabled, IdleChipInv, IdleChipLabels
<1>30. CASE lock_reread
  <2>1. ~fault' => ~fault
    BY <1>30 DEF lock_reread, ReadBp
  <2> QED
    BY <1>0, <1>30, <2>1 DEF lock_reread
<1>31. CASE cleanup
  BY <1>0, <1>31, QuitLock DEF cleanup
<1>32. CASE sigterm
  BY <1>0, <1>32 DEF sigterm
<1>33. CASE Crash
  BY <1>0, <1>33, QuitLock DEF Crash
<1>34. CASE ChipStep
  BY <1>0, <1>34 DEF ChipStep, ChipDone, IdleChipInv, IdleChipLabels
<1>35. CASE mode_ear
  BY <1>0, <1>35 DEF mode_ear, Send, ChipWriteExtended, ChipWrdi, Entering, TypeOK,
                    ControlTypeOK, ModeReturns
<1>36. CASE UNCHANGED vars
  BY <1>0, <1>36 DEF vars
<1> QED
  BY <1>1, <1>2, <1>3, <1>4, <1>5, <1>6, <1>7, <1>8, <1>9, <1>10, <1>11, <1>12,
     <1>13, <1>14, <1>15, <1>16, <1>17, <1>18, <1>19, <1>20, <1>21, <1>22, <1>23, <1>24,
     <1>25, <1>26, <1>27, <1>28, <1>29, <1>30, <1>31, <1>32, <1>33, <1>34, <1>35, <1>36
     DEF Next, Program

(* Only lock_write starts a change of the BP bits.                         *)
LEMMA NewBits == [Next]_vars /\ bpNext' # bpNext => lock_write
<1> SUFFICES ASSUME [Next]_vars, bpNext' # bpNext PROVE lock_write
  OBVIOUS
<1> USE DEF chipVars, Quit
<1>1. CASE \E r \in Requests : Start(r)
  BY <1>1 DEF Start
<1>2. CASE spi_nor_probe
  BY <1>2 DEF spi_nor_probe
<1>3. CASE spi_nor_init
  BY <1>3 DEF spi_nor_init
<1>4. CASE do_identify
  BY <1>4 DEF do_identify
<1>5. CASE do_unlock
  BY <1>5 DEF do_unlock
<1>6. CASE do_lock
  BY <1>6 DEF do_lock
<1>7. CASE do_erase
  BY <1>7 DEF do_erase
<1>8. CASE do_read
  BY <1>8 DEF do_read
<1>9. CASE do_write
  BY <1>9 DEF do_write
<1>10. CASE wait_ready
  BY <1>10 DEF wait_ready
<1>11. CASE mode_4byte
  BY <1>11 DEF mode_4byte, ChipSetMode
<1>12. CASE write_enable
  BY <1>12 DEF write_enable, Send, ChipWren
<1>13. CASE erase_ready
  BY <1>13 DEF erase_ready
<1>14. CASE erase_sector
  BY <1>14, ChipCommandBits DEF erase_sector, Send
<1>15. CASE erase_done
  BY <1>15 DEF erase_done
<1>16. CASE erase_next
  BY <1>16 DEF erase_next
<1>17. CASE bulk_ready
  BY <1>17 DEF bulk_ready
<1>18. CASE bulk_erase
  BY <1>18, ChipCommandBits DEF bulk_erase, Send
<1>19. CASE bulk_done
  BY <1>19 DEF bulk_done, Send, ChipWrdi
<1>20. CASE read_ready
  BY <1>20 DEF read_ready
<1>21. CASE read_chunk
  BY <1>21 DEF read_chunk
<1>22. CASE read_end
  BY <1>22 DEF read_end
<1>23. CASE write_ready
  BY <1>23 DEF write_ready
<1>24. CASE write_settle
  BY <1>24 DEF write_settle
<1>25. CASE write_page
  BY <1>25, ChipCommandBits DEF write_page
<1>26. CASE write_next
  BY <1>26 DEF write_next
<1>27. CASE write_done
  BY <1>27 DEF write_done, Send, ChipWrdi
<1>28. CASE lock_read
  BY <1>28 DEF lock_read
<1>29. CASE lock_write
  BY <1>29
<1>30. CASE lock_reread
  BY <1>30 DEF lock_reread
<1>31. CASE cleanup
  BY <1>31 DEF cleanup
<1>32. CASE sigterm
  BY <1>32 DEF sigterm
<1>33. CASE Crash
  BY <1>33 DEF Crash
<1>34. CASE ChipStep
  BY <1>34 DEF ChipStep, ChipDone
<1>35. CASE mode_ear
  BY <1>35 DEF mode_ear, Send, ChipWriteExtended, ChipWrdi
<1>36. CASE UNCHANGED vars
  BY <1>36 DEF vars
<1> QED
  BY <1>1, <1>2, <1>3, <1>4, <1>5, <1>6, <1>7, <1>8, <1>9, <1>10, <1>11, <1>12,
     <1>13, <1>14, <1>15, <1>16, <1>17, <1>18, <1>19, <1>20, <1>21, <1>22, <1>23, <1>24,
     <1>25, <1>26, <1>27, <1>28, <1>29, <1>30, <1>31, <1>32, <1>33, <1>34, <1>35, <1>36
     DEF Next, Program

(* Lock and unlock change the protection of sectors of their range only,   *)
(* and in the direction asked for; for the whole device they write the BP  *)
(* bits for everything or nothing, whatever these were before.             *)
THEOREM LockAsAskedCorrect == Spec => LockAsAsked
<1> DEFINE Inv == TypeOK /\ IdleChipInv /\ FlagsInv /\ OperationInv /\ LockInv
<1>1. Init => Inv
  <2>1. Init => IdleChipInv /\ FlagsInv
    BY DEF Init, ProcessInit, IdleChipInv, FlagsInv, At, ModeLabels, WaitsFor, SwitchesFor,
           IdleChipLabels, DecidingLabels, WriteLabels, LockLabels
  <2>2. Init => OperationInv /\ LockInv
    BY DEF Init, ProcessInit, OperationInv, LockInv, NoRequest, HeadsFor, At, ModeLabels,
           WaitsFor, SwitchesFor, StartLabels, LockLabels
  <2> QED
    BY <2>1, <2>2, InitType
<1>2. Inv /\ [Next]_vars => Inv'
  BY TypeStep, IdleChipStep, FlagsStep, OperationStep, LockInvStep
<1>3. Inv /\ [Next]_vars => [LockStep]_vars
  <2> SUFFICES ASSUME Inv, [Next]_vars PROVE LockStep
    OBVIOUS
  <2>1. ASSUME bpNext' # bpNext, ~fault'
        PROVE  ChangesAsAsked(bpNext', spi_nor_bp_bit2_to_bit5_top_down(bpNext))
    <3>1. lock_write
      BY <2>1, NewBits
    <3>2. bpNext' = status /\ pc = "lk_wrsr" /\ ~fault
      BY <2>1, <3>1 DEF lock_write, Send, Fail, ChipWriteStatus, chipVars
    <3>3. HasBp /\ req.op \in {"lock", "unlock"}
      BY <3>2 DEF LockInv, FlagsInv, At, LockLabels
    <3>4. locked = spi_nor_bp_bit2_to_bit5_top_down(bpNext)
      BY <3>2, <3>3 DEF FlagsInv
    <3>5. StatusAsAsked
      BY <3>2, <3>3 DEF LockInv, At
    <3> QED
      BY <3>2, <3>4, <3>5 DEF StatusAsAsked
  <2>2. pc = "exit" /\ HasBp /\ ~fault /\ req.addr = 0 /\ OpLen = DeviceSize
        => /\ req.op = "lock"   => bpNext = 15
           /\ req.op = "unlock" => bpNext = 0
    BY DEF LockInv, WholeDevice, BpWanted, At
  <2> QED
    BY <2>1, <2>2 DEF LockStep
<1> QED
  BY <1>1, <1>2, <1>3, PTL DEF Spec, LockAsAsked

-----------------------------------------------------------------------------
(* What a read or write leaves the chip in.                                *)

(* A process that ends has nothing to settle and no exit to account for.   *)
LEMMA QuitSettled == Quit => SettledInv' /\ LeavingInv'
  BY DEF Quit, SettledInv, LeavingInv, ExitLeavesChipIdle, HeadsFor, At, ModeLabels, WaitsFor,
         SwitchesFor, NoRequest, ReadLabels

(* Every wait of an undisturbed run succeeds, and what follows it finds the *)
(* chip idle and has its effect.                                           *)
LEMMA SettledStep ==
  /\ TypeOK /\ IdleChipInv /\ ModeInv /\ OperationInv /\ SettledInv /\ LeavingInv
  /\ [Next]_vars
  => SettledInv'
<1> SUFFICES ASSUME TypeOK, IdleChipInv, ModeInv, OperationInv, SettledInv, LeavingInv,
                    [Next]_vars
             PROVE  SettledInv'
  OBVIOUS
<1> USE DEF SettledInv, Undisturbed, OperationInv, HeadsFor, StartLabels,
            LockLabels, WriteLabels, ReadLabels, At, ModeLabels, WaitsFor, SwitchesFor,
            EnterReturns, LeaveReturns, Goto, Finish, CallWait, Fail, chipVars, callVars, opVars,
            regionVars, histVars
<1>0. misread => fault
  BY DEF TypeOK, FlagTypeOK
<1>1. CASE \E r \in Requests : Start(r)
  BY <1>1 DEF Start
<1>2. CASE spi_nor_probe
  BY <1>2, QuitSettled DEF spi_nor_probe
<1>3. CASE spi_nor_init
  BY <1>3 DEF spi_nor_init, ReadBp
<1>4. CASE do_identify
  BY <1>4 DEF do_identify
<1>5. CASE do_unlock
  BY <1>5 DEF do_unlock
<1>6. CASE do_lock
  BY <1>6 DEF do_lock
<1>7. CASE do_erase
  BY <1>7, QuitSettled DEF do_erase
<1>8. CASE do_read
  BY <1>8, QuitSettled DEF do_read
<1>9. CASE do_write
  BY <1>9, QuitSettled DEF do_write
<1>10. CASE wait_ready
  BY <1>10 DEF wait_ready, Polled, Return, Ready, TypeOK, ControlTypeOK, WaitReturns
<1>11. CASE mode_4byte
  BY <1>11 DEF mode_4byte, ChipSetMode, Entering, TypeOK, ControlTypeOK, ModeReturns
<1>12. CASE write_enable
  BY <1>12 DEF write_enable, AfterWren, Send
<1>13. CASE erase_ready
  BY <1>13 DEF erase_ready, CallMode
<1>14. CASE erase_sector
  BY <1>14 DEF erase_sector, Send
<1>15. CASE erase_done
  BY <1>15 DEF erase_done, CallMode
<1>16. CASE erase_next
  BY <1>16 DEF erase_next
<1>17. CASE bulk_ready
  BY <1>17 DEF bulk_ready
<1>18. CASE bulk_erase
  BY <1>18 DEF bulk_erase, Send
<1>19. CASE bulk_done
  BY <1>19 DEF bulk_done, Send
<1>20. CASE read_ready
  BY <1>20 DEF read_ready, CallMode, ModeInv
<1>21. CASE read_chunk
  BY <1>21 DEF read_chunk, CallMode, ModeInv
<1>22. CASE read_end
  BY <1>22 DEF read_end
<1>23. CASE write_ready
  BY <1>23 DEF write_ready, CallMode, ModeInv
<1>24. CASE write_settle
  BY <1>24 DEF write_settle
<1>25. CASE write_page
  BY <1>25 DEF write_page
<1>26. CASE write_next
  BY <1>26 DEF write_next, CallMode, StopWriting, ModeInv
<1>27. CASE write_done
  BY <1>27 DEF write_done, Send, ChipWrdi, TypeOK, ChipTypeOK
<1>28. CASE lock_read
  BY <1>28 DEF lock_read, ReadBp
<1>29. CASE lock_write
  BY <1>29 DEF lock_write, Send
<1>30. CASE lock_reread
  BY <1>30 DEF lock_reread, ReadBp
<1>31. CASE cleanup
  BY <1>31, QuitSettled DEF cleanup
<1>32. CASE sigterm
  BY <1>32 DEF sigterm
<1>33. CASE Crash
  BY <1>33, QuitSettled DEF Crash
<1>34. CASE ChipStep
  BY <1>34 DEF ChipStep, ChipDone
<1>35. CASE mode_ear
  BY <1>0, <1>35 DEF LeavingInv, IdleChipInv, IdleChipLabels, mode_ear, Send, ChipWriteExtended, ChipWrdi, Entering, TypeOK,
                    ControlTypeOK, ModeReturns
<1>36. CASE UNCHANGED vars
  BY <1>36 DEF vars
<1> QED
  BY <1>1, <1>2, <1>3, <1>4, <1>5, <1>6, <1>7, <1>8, <1>9, <1>10, <1>11, <1>12,
     <1>13, <1>14, <1>15, <1>16, <1>17, <1>18, <1>19, <1>20, <1>21, <1>22, <1>23, <1>24,
     <1>25, <1>26, <1>27, <1>28, <1>29, <1>30, <1>31, <1>32, <1>33, <1>34, <1>35, <1>36
     DEF Next, Program

(* What follows a first successful wait cannot be kept from leaving the    *)
(* four byte mode: the chip is idle from then on.                          *)
LEMMA LeavingStep ==
  /\ TypeOK /\ IdleChipInv /\ ModeInv /\ OperationInv /\ SettledInv /\ LeavingInv
  /\ [Next]_vars
  => LeavingInv'
<1> SUFFICES ASSUME TypeOK, IdleChipInv, ModeInv, OperationInv, SettledInv, LeavingInv,
                    [Next]_vars
             PROVE  LeavingInv'
  OBVIOUS
<1> USE DEF LeavingInv, Undisturbed, ExitLeavesChipIdle, OperationInv, HeadsFor, StartLabels,
            LockLabels, WriteLabels, ReadLabels, At, ModeLabels, WaitsFor, SwitchesFor,
            EnterReturns, LeaveReturns, Goto, Finish, CallWait, Fail, chipVars, callVars, opVars,
            regionVars, histVars
<1>0. misread => fault
  BY DEF TypeOK, FlagTypeOK
<1>1. CASE \E r \in Requests : Start(r)
  BY <1>0, <1>1 DEF Start
<1>2. CASE spi_nor_probe
  BY <1>0, <1>2, QuitSettled DEF spi_nor_probe
<1>3. CASE spi_nor_init
  BY <1>0, <1>3 DEF spi_nor_init, ReadBp
<1>4. CASE do_identify
  BY <1>0, <1>4 DEF do_identify
<1>5. CASE do_unlock
  BY <1>0, <1>5 DEF do_unlock
<1>6. CASE do_lock
  BY <1>0, <1>6 DEF do_lock
<1>7. CASE do_erase
  BY <1>0, <1>7, QuitSettled DEF do_erase
<1>8. CASE do_read
  BY <1>0, <1>8, QuitSettled DEF do_read
<1>9. CASE do_write
  BY <1>0, <1>9, QuitSettled DEF do_write
<1>10. CASE wait_ready
  BY <1>0, <1>10 DEF wait_ready, Polled, Return, Ready, TypeOK, ControlTypeOK, WaitReturns
<1>11. CASE mode_4byte
  BY <1>0, <1>11 DEF mode_4byte, ChipSetMode, Entering, TypeOK, ControlTypeOK, ModeReturns,
                    SettledInv, IdleChipInv, IdleChipLabels, DecidingLabels
<1>12. CASE write_enable
  <2>1. pc \in {"se_wren", "be_wren", "wr_wren", "lk_wren", "mode_wren"}
    BY <1>12 DEF write_enable, AfterWren
  <2>2. pc' = "mode_ear" <=> pc = "mode_wren"
    BY <1>12, <2>1 DEF write_enable, AfterWren
  <2>3. pc' \in {"se_cmd", "be_cmd", "wr_cmd", "lk_wrsr", "mode_ear"}
    BY <1>12, <2>1 DEF write_enable, AfterWren
  <2>4. UNCHANGED <<req, waitRet, modeRet, wip, fourByte, bp>> /\ (~fault' => ~fault)
    BY <1>12 DEF write_enable, Send, ChipWren
  <2> QED
    BY <2>2, <2>3, <2>4
<1>13. CASE erase_ready
  BY <1>0, <1>13 DEF erase_ready, CallMode
<1>14. CASE erase_sector
  BY <1>0, <1>14 DEF erase_sector, Send
<1>15. CASE erase_done
  BY <1>0, <1>15 DEF erase_done, CallMode
<1>16. CASE erase_next
  BY <1>0, <1>16 DEF erase_next
<1>17. CASE bulk_ready
  BY <1>0, <1>17 DEF bulk_ready
<1>18. CASE bulk_erase
  BY <1>0, <1>18 DEF bulk_erase, Send
<1>19. CASE bulk_done
  BY <1>0, <1>19 DEF bulk_done, Send
<1>20. CASE read_ready
  BY <1>0, <1>20 DEF read_ready, CallMode, ModeInv, IdleChipInv, DecidingLabels
<1>21. CASE read_chunk
  BY <1>0, <1>21 DEF read_chunk, CallMode, ModeInv
<1>22. CASE read_end
  BY <1>0, <1>22 DEF read_end
<1>23. CASE write_ready
  BY <1>0, <1>23 DEF write_ready, CallMode, ModeInv
<1>24. CASE write_settle
  BY <1>0, <1>24 DEF write_settle
<1>25. CASE write_page
  BY <1>0, <1>25 DEF write_page
<1>26. CASE write_next
  BY <1>0, <1>26 DEF write_next, CallMode, StopWriting, ModeInv
<1>27. CASE write_done
  BY <1>0, <1>27 DEF SettledInv, write_done, Send, ChipWrdi, TypeOK, ChipTypeOK
<1>28. CASE lock_read
  BY <1>0, <1>28 DEF lock_read, ReadBp
<1>29. CASE lock_write
  BY <1>0, <1>29 DEF lock_write, Send
<1>30. CASE lock_reread
  BY <1>0, <1>30 DEF lock_reread, ReadBp
<1>31. CASE cleanup
  BY <1>0, <1>31, QuitSettled DEF cleanup
<1>32. CASE sigterm
  BY <1>0, <1>32 DEF sigterm
<1>33. CASE Crash
  BY <1>0, <1>33, QuitSettled DEF Crash
<1>34. CASE ChipStep
  BY <1>0, <1>34 DEF ChipStep, ChipDone
<1>35. CASE mode_ear
  BY <1>0, <1>35 DEF mode_ear, Send, ChipWriteExtended, ChipWrdi, Entering, TypeOK,
                    ControlTypeOK, ModeReturns
<1>36. CASE UNCHANGED vars
  BY <1>0, <1>36 DEF vars
<1> QED
  BY <1>1, <1>2, <1>3, <1>4, <1>5, <1>6, <1>7, <1>8, <1>9, <1>10, <1>11, <1>12,
     <1>13, <1>14, <1>15, <1>16, <1>17, <1>18, <1>19, <1>20, <1>21, <1>22, <1>23, <1>24,
     <1>25, <1>26, <1>27, <1>28, <1>29, <1>30, <1>31, <1>32, <1>33, <1>34, <1>35, <1>36
     DEF Next, Program

(* A read, a verified write and an undisturbed write leave the chip idle   *)
(* and out of four byte mode when they say OK, after a ^C or a late wait   *)
(* too, and no write leaves a latch set that nothing will clear.           *)
THEOREM ExitCorrect == Spec => []ExitLeavesChipIdle
<1> DEFINE Inv == TypeOK /\ IdleChipInv /\ ModeInv /\ OperationInv /\ SettledInv /\ LeavingInv
<1>1. Init => Inv
  <2>1. Init => IdleChipInv /\ ModeInv /\ OperationInv
    BY DEF Init, ProcessInit, IdleChipInv, ModeInv, OperationInv, NoRequest, HeadsFor,
           At, ModeLabels, WaitsFor, SwitchesFor, IdleChipLabels, DecidingLabels
  <2>2. Init => SettledInv /\ LeavingInv
    BY DEF Init, ProcessInit, SettledInv, LeavingInv, NoRequest, HeadsFor, At, ModeLabels,
           WaitsFor, SwitchesFor, ReadLabels, ExitLeavesChipIdle
  <2> QED
    BY <2>1, <2>2, InitType
<1>2. Inv /\ [Next]_vars => Inv'
  BY TypeStep, IdleChipStep, ModeStep, OperationStep, SettledStep, LeavingStep
<1>3. Inv => ExitLeavesChipIdle
  BY DEF LeavingInv, ExitLeavesChipIdle
<1> QED
  BY <1>1, <1>2, <1>3, PTL DEF Spec
=============================================================================
