------------------------------- MODULE SpiNor -------------------------------
(***************************************************************************)
(* One snander process after another driving a SPI NOR part: the flow of   *)
(* src/src/main.c around one action, the checks of src/src/flash.h and the *)
(* driver src/src/spi_nor_flash.c, one action per SPI transaction.         *)
(*                                                                         *)
(* pc names the next transaction or decision of the process.  The two      *)
(* subroutines that every operation shares keep a return label each:       *)
(* spi_nor_wait_ready (pc = "wait", waitRet, its result in rv) and         *)
(* snor_4byte_mode (pc = "mode", modeRet), which calls the former.         *)
(*                                                                         *)
(* Around the process: the chip finishes operations in its own time, the   *)
(* user presses ^C (the SIGINT handler sets killed), an uncatchable signal *)
(* or a failed assert ends the process between any two transactions, and   *)
(* one transfer of a run may fail.                                         *)
(***************************************************************************)
EXTENDS NorChip

CONSTANTS ReadChunk,   \* cells read or compared in one transaction
          PollLimit,   \* status reads before spi_nor_wait_ready gives up
          Addr4b,      \* chip_info.addr4b
          Vendor,      \* chip_info.id, as far as snor_4byte_mode tells it
          HasBp,       \* chip_info has the two block protection callbacks
          Faults,      \* may a transfer fail?
          BpAtStart,   \* BP values the part may come with
          Requests     \* command lines: op, addr, haveLen, len, verify

Ops == {"identify", "unlock", "lock", "erase", "read", "write"}

RequestType ==
  [op: Ops, addr: Word, haveLen: BOOLEAN, len: Word, verify: BOOLEAN]

ASSUME NorAssumption ==
  /\ ReadChunk \in Nat \ {0}
  /\ PollLimit \in Nat \ {0}
  /\ Addr4b \in BOOLEAN
  /\ Vendor \in {"spansion", "winbond", "other"}
  /\ HasBp \in BOOLEAN
  /\ Faults \in BOOLEAN
  /\ BpAtStart \subseteq Bp
  /\ Requests \subseteq RequestType

VARIABLES
  pc, waitRet, modeRet,
  polls,             \* count in spi_nor_wait_ready
  rv,                \* its result
  req,               \* the command line
  i,                 \* the loop offset of the operation
  ret,               \* the operation's result: what ui_op_status prints
  status,            \* BP bits read for, and written by, lock and unlock
  locked, want_to_lock, want_to_unlock,   \* flash->status->regions[]
  killed,            \* the flag of the SIGINT handler
  fault,             \* history: a transfer of this run failed
  late,              \* history: a wait of this run gave up
  misread,           \* history: a status was read whose opcode was lost
  afterKill          \* history: changing commands sent since killed, up to 2

callVars   == <<waitRet, modeRet, polls, rv>>
opVars     == <<req, i, ret>>
regionVars == <<status, locked, want_to_lock, want_to_unlock>>
histVars   == <<fault, late, misread, afterKill>>
vars == <<chipVars, pc, callVars, opVars, regionVars, killed, histVars>>

Labels == {"idle", "probe", "status", "action", "wait", "mode", "mode_wren", "mode_ear", "exit",
           "se_ready", "se_wren", "se_cmd", "se_done", "se_next",
           "be_ready", "be_wren", "be_cmd", "be_wrdi",
           "rd_ready", "rd_chunk", "rd_end",
           "wr_ready", "wr_settle", "wr_wren", "wr_cmd", "wr_page", "wr_wrdi",
           "lk_read", "lk_wren", "lk_wrsr", "lk_reread"}

WaitReturns == {"idle", "mode", "se_ready", "se_done", "be_ready", "be_wrdi", "rd_ready",
                "wr_ready", "wr_wren", "wr_page", "lk_reread"}

(* Where snor_4byte_mode(1) and snor_4byte_mode(0) return to. *)
EnterReturns == {"se_wren", "wr_settle", "rd_chunk"}
LeaveReturns == {"se_next", "wr_wrdi", "rd_end"}
ModeReturns  == EnterReturns \cup LeaveReturns \cup {"idle"}

NoRequest == [op |-> "identify", addr |-> 0, haveLen |-> FALSE, len |-> 0, verify |-> FALSE]
NoFlags   == [r \in Region |-> FALSE]

ControlTypeOK ==
  /\ pc \in Labels /\ waitRet \in WaitReturns /\ modeRet \in ModeReturns
  /\ polls \in 0 .. PollLimit - 1
  /\ rv \in {"ok", "busy", "timeout", "error"}

OperationTypeOK ==
  req \in RequestType /\ i \in Nat /\ ret \in {"ok", "fail"} /\ afterKill \in 0 .. 2

RegionTypeOK ==
  /\ status \in Bp
  /\ locked \in [Region -> BOOLEAN]
  /\ want_to_lock \in [Region -> BOOLEAN]
  /\ want_to_unlock \in [Region -> BOOLEAN]

(* A misread status is one kind of failed transfer. *)
FlagTypeOK ==
  /\ killed \in BOOLEAN /\ fault \in BOOLEAN /\ late \in BOOLEAN /\ misread \in BOOLEAN
  /\ misread => fault

TypeOK ==
  ChipTypeOK /\ ControlTypeOK /\ OperationTypeOK /\ RegionTypeOK /\ FlagTypeOK

(* No process: the statics and the stack of the next one. *)
ProcessInit ==
  /\ pc = "idle" /\ waitRet = "idle" /\ modeRet = "idle"
  /\ polls = 0 /\ rv = "ok"
  /\ req = NoRequest /\ i = 0 /\ ret = "ok"
  /\ status = 0
  /\ locked = NoFlags /\ want_to_lock = NoFlags /\ want_to_unlock = NoFlags
  /\ killed = FALSE
  /\ fault = FALSE /\ late = FALSE /\ misread = FALSE /\ afterKill = 0

Init ==
  /\ ProcessInit
  /\ mem = [c \in Cell |-> "old"]
  /\ wip = FALSE /\ wel = FALSE /\ fourByte = FALSE
  /\ bp \in BpAtStart /\ bpNext = bp

-----------------------------------------------------------------------------
(* The command line's range.                                               *)

fill_addr_len(r) == IF r.haveLen THEN r.len ELSE (DeviceSize - r.addr) % WordSize

(* Erase, lock and unlock default to the rest of the device, a read to as  *)
(* many cells as the device has; a write has the file's length.            *)
OpLen == CASE req.op = "read"  -> IF req.haveLen THEN req.len ELSE DeviceSize
           [] req.op = "write" -> req.len
           [] OTHER            -> fill_addr_len(req)

MutTarget(off) == off

Target(off) == (req.addr + off) % WordSize

-----------------------------------------------------------------------------
(* Steps of the process.                                                   *)

Goto(label) == pc' = label

CallWait(label) ==
  pc' = "wait" /\ waitRet' = label /\ polls' = 0 /\ UNCHANGED <<modeRet, rv>>

(* Parts with four byte addresses enter the mode before and leave it after *)
(* every operation.                                                        *)
CallMode(label) ==
  IF Addr4b
  THEN pc' = "wait" /\ waitRet' = "mode" /\ modeRet' = label /\ polls' = 0 /\ UNCHANGED rv
  ELSE pc' = label /\ UNCHANGED callVars

Entering == modeRet \in EnterReturns

Finish(result) == pc' = "exit" /\ ret' = result

(* The process is gone, and its memory with it; the chip is not. *)
Quit ==
  /\ pc' = "idle" /\ waitRet' = "idle" /\ modeRet' = "idle"
  /\ polls' = 0 /\ rv' = "ok"
  /\ req' = NoRequest /\ i' = 0 /\ ret' = "ok"
  /\ status' = 0
  /\ locked' = NoFlags /\ want_to_lock' = NoFlags /\ want_to_unlock' = NoFlags
  /\ killed' = FALSE
  /\ fault' = FALSE /\ late' = FALSE /\ misread' = FALSE /\ afterKill' = 0
  /\ UNCHANGED chipVars

(* A transfer goes through, or fails with or without reaching the chip. *)
Fail == Faults /\ ~fault /\ fault' = TRUE

Send(command) ==
  \/ command /\ UNCHANGED fault
  \/ Fail /\ (command \/ UNCHANGED chipVars)

(* A status read that fails leaves the caller's variable uninitialised. *)
ReadBp(v) ==
  \/ v = bp /\ UNCHANGED fault
  \/ Fail /\ v \in Bp

-----------------------------------------------------------------------------
(* main(), up to the action.                                               *)

Start(r) ==
  /\ pc = "idle"
  /\ Goto("probe")
  /\ req' = r
  /\ UNCHANGED <<chipVars, callVars, i, ret, regionVars, killed, histVars>>

(* A busy chip does not answer RDID: nothing is detected, and the process  *)
(* ends; so it does when the transfer fails.                               *)
spi_nor_probe ==
  /\ pc = "probe"
  /\ \/ /\ ~wip
        /\ Goto(IF HasBp THEN "status" ELSE "action")
        /\ UNCHANGED <<chipVars, callVars, opVars, regionVars, killed, histVars>>
     \/ (wip \/ Faults) /\ Quit

spi_nor_init ==
  /\ pc = "status"
  /\ \E v \in Bp : ReadBp(v) /\ locked' = spi_nor_bp_bit2_to_bit5_top_down(v)
  /\ Goto("action")
  /\ UNCHANGED <<chipVars, callVars, opVars, status, want_to_lock, want_to_unlock,
                 killed, late, misread, afterKill>>

do_identify ==
  /\ pc = "action" /\ req.op = "identify"
  /\ Finish("ok")
  /\ UNCHANGED <<chipVars, callVars, req, i, regionVars, killed, histVars>>

(* Mark the regions, then spi_nor_lockunlock; main drops its result. *)
do_unlock ==
  /\ pc = "action" /\ req.op = "unlock"
  /\ want_to_unlock' = flash_mark_unlock(locked, req.addr, OpLen)
  /\ Goto(IF HasBp THEN "lk_read" ELSE "exit")
  /\ UNCHANGED <<chipVars, callVars, opVars, status, locked, want_to_lock, killed, histVars>>

do_lock ==
  /\ pc = "action" /\ req.op = "lock"
  /\ want_to_lock' = flash_mark_lock(locked, req.addr, OpLen)
  /\ Goto(IF HasBp THEN "lk_read" ELSE "exit")
  /\ UNCHANGED <<chipVars, callVars, opVars, status, locked, want_to_unlock, killed, histVars>>

do_erase ==
  /\ pc = "action" /\ req.op = "erase"
  /\ \/ /\ OpLen % RegionSize # 0
        /\ Finish("fail")
        /\ UNCHANGED <<chipVars, callVars, req, i, regionVars, killed, histVars>>
     \/ OpLen = 0 /\ Quit
     \/ /\ OpLen > 0 /\ OpLen % RegionSize = 0
        /\ CallWait(IF req.addr = 0 /\ OpLen = DeviceSize THEN "be_ready" ELSE "se_ready")
        /\ UNCHANGED <<chipVars, opVars, regionVars, killed, histVars>>

do_read ==
  /\ pc = "action" /\ req.op = "read"
  /\ \/ OpLen = 0 /\ Quit
     \/ /\ OpLen > 0
        /\ CallWait("rd_ready")
        /\ UNCHANGED <<chipVars, opVars, regionVars, killed, histVars>>

(* An empty file ends the process in file_open_and_mmap's assert.  The sum *)
(* of the bounds check is a uint32_t.                                      *)
MutWriteRefused == flash_contains_protected_blocks(locked, req.addr, OpLen)

WriteRefused ==
  \/ flash_contains_protected_blocks(locked, req.addr, OpLen)
  \/ EndOf(req.addr, OpLen) > DeviceSize

do_write ==
  /\ pc = "action" /\ req.op = "write"
  /\ \/ OpLen = 0 /\ Quit
     \/ /\ OpLen > 0 /\ WriteRefused
        /\ Finish("fail")
        /\ UNCHANGED <<chipVars, callVars, req, i, regionVars, killed, histVars>>
     \/ /\ OpLen > 0 /\ ~WriteRefused
        /\ CallWait("wr_ready")
        /\ UNCHANGED <<chipVars, opVars, regionVars, killed, histVars>>

-----------------------------------------------------------------------------
(* spi_nor_wait_ready.  Bit 5 of the status register is tested as an       *)
(* erase/program error (SR_EPE); on a part with BP bits it is BP3.         *)

Ready == ~wip /\ bp < 8

Return(result) == pc' = waitRet /\ rv' = result /\ UNCHANGED <<waitRet, modeRet, polls>>

MorePolls == polls + 1 < PollLimit

(* What follows a status that says ready or not. *)
Polled(ready) ==
  \/ ready /\ Return("ok") /\ UNCHANGED late
  \/ ~ready /\ killed /\ Return("busy") /\ UNCHANGED late
  \/ /\ ~ready /\ ~killed /\ MorePolls
     /\ polls' = polls + 1
     /\ UNCHANGED <<pc, waitRet, modeRet, rv, late>>
  \/ ~ready /\ ~killed /\ ~MorePolls /\ Return("timeout") /\ late' = TRUE

(* Of the two transfers of a status read only the second one's result is   *)
(* looked at.  When the opcode is lost the byte read says anything.        *)
wait_ready ==
  /\ pc = "wait"
  /\ \/ Polled(Ready) /\ UNCHANGED <<fault, misread>>
     \/ Fail /\ Return("error") /\ UNCHANGED <<late, misread>>
     \/ Fail /\ misread' = TRUE /\ \E ready \in BOOLEAN : Polled(ready)
  /\ UNCHANGED <<chipVars, opVars, regionVars, killed, afterKill>>

(* snor_4byte_mode, once its own wait is over.  Its result is ignored by   *)
(* every caller.  On the way out Winbond parts have their extended address *)
(* register cleared too, if the first command went through.                *)
mode_4byte ==
  /\ pc = "mode"
  /\ \/ rv # "ok" /\ Goto(modeRet) /\ UNCHANGED <<chipVars, fault>>
     \/ /\ rv = "ok" /\ ChipSetMode(Entering) /\ UNCHANGED fault
        /\ Goto(IF ~Entering /\ Vendor = "winbond" THEN "mode_wren" ELSE modeRet)
     \/ rv = "ok" /\ Fail /\ (ChipSetMode(Entering) \/ UNCHANGED chipVars) /\ Goto(modeRet)
  /\ UNCHANGED <<callVars, opVars, regionVars, killed, late, misread, afterKill>>

mode_ear ==
  /\ pc = "mode_ear"
  /\ Send(ChipWriteExtended)
  /\ Goto(modeRet)
  /\ UNCHANGED <<callVars, opVars, regionVars, killed, late, misread, afterKill>>

(* WREN, wherever an operation sends it. *)
AfterWren == [se_wren |-> "se_cmd", be_wren |-> "be_cmd", mode_wren |-> "mode_ear",
              wr_wren |-> "wr_cmd", lk_wren |-> "lk_wrsr"]

write_enable ==
  /\ pc \in DOMAIN AfterWren
  /\ Send(ChipWren)
  /\ Goto(AfterWren[pc])
  /\ UNCHANGED <<callVars, opVars, regionVars, killed, late, misread, afterKill>>

CountAfterKill == afterKill' = IF killed /\ afterKill < 2 THEN afterKill + 1 ELSE afterKill

-----------------------------------------------------------------------------
(* spi_nor_erase, by sectors.  The loop starts at 0 whatever the request's *)
(* address is.                                                             *)

MutEraseReady ==
  /\ pc = "se_ready"
  /\ CallMode("se_wren")
  /\ UNCHANGED <<chipVars, opVars, regionVars, killed, histVars>>

erase_ready ==
  /\ pc = "se_ready"
  /\ IF rv = "ok" THEN CallMode("se_wren") /\ UNCHANGED ret
                  ELSE Finish("fail") /\ UNCHANGED callVars
  /\ UNCHANGED <<chipVars, req, i, regionVars, killed, histVars>>

erase_sector ==
  /\ pc = "se_cmd"
  /\ Send(IF fourByte = Addr4b THEN ChipSectorErase(i) ELSE UNCHANGED chipVars)
  /\ CallWait("se_done")
  /\ CountAfterKill
  /\ UNCHANGED <<opVars, regionVars, killed, late, misread>>

(* The result of the wait is not looked at. *)
erase_done ==
  /\ pc = "se_done"
  /\ CallMode("se_next")
  /\ UNCHANGED <<chipVars, opVars, regionVars, killed, histVars>>

MutEraseNext ==
  /\ pc = "se_next"
  /\ IF killed \/ i + RegionSize >= OpLen
     THEN Finish("ok") /\ UNCHANGED <<callVars, i>>
     ELSE i' = i /\ CallWait("se_ready") /\ UNCHANGED ret
  /\ UNCHANGED <<chipVars, req, regionVars, killed, histVars>>

erase_next ==
  /\ pc = "se_next"
  /\ IF killed \/ i + RegionSize >= OpLen
     THEN Finish("ok") /\ UNCHANGED <<callVars, i>>
     ELSE i' = i + RegionSize /\ CallWait("se_ready") /\ UNCHANGED ret
  /\ UNCHANGED <<chipVars, req, regionVars, killed, histVars>>

(* spi_nor_full_chip_erase. *)
bulk_ready ==
  /\ pc = "be_ready"
  /\ IF rv = "ok" THEN Goto("be_wren") /\ UNCHANGED ret ELSE Finish("fail")
  /\ UNCHANGED <<chipVars, callVars, req, i, regionVars, killed, histVars>>

bulk_erase ==
  /\ pc = "be_cmd"
  /\ Send(ChipBulkErase)
  /\ CallWait("be_wrdi")
  /\ CountAfterKill
  /\ UNCHANGED <<opVars, regionVars, killed, late, misread>>

bulk_done ==
  /\ pc = "be_wrdi"
  /\ Send(ChipWrdi)
  /\ Finish("ok")
  /\ UNCHANGED <<callVars, req, i, regionVars, killed, late, misread, afterKill>>

-----------------------------------------------------------------------------
(* spi_nor_read, and spi_nor_verify, which differs only in printing a line *)
(* when a chunk does not match.                                            *)

MutReadReady ==
  /\ pc = "rd_ready"
  /\ IF rv = "ok" THEN Goto("rd_chunk") /\ UNCHANGED ret ELSE Finish("fail")
  /\ UNCHANGED <<chipVars, callVars, req, i, regionVars, killed, histVars>>

read_ready ==
  /\ pc = "rd_ready"
  /\ IF rv = "ok" THEN CallMode("rd_chunk") /\ UNCHANGED ret
                  ELSE Finish("fail") /\ UNCHANGED callVars
  /\ UNCHANGED <<chipVars, req, i, regionVars, killed, histVars>>

MutReadChunk ==
  /\ pc = "rd_chunk"
  /\ UNCHANGED fault \/ Fail
  /\ IF killed \/ i + ReadChunk >= OpLen
     THEN Goto("rd_end") /\ UNCHANGED <<callVars, i>>
     ELSE i' = i + ReadChunk /\ UNCHANGED <<pc, callVars>>
  /\ UNCHANGED <<chipVars, req, ret, regionVars, killed, late, misread, afterKill>>

read_chunk ==
  /\ pc = "rd_chunk"
  /\ UNCHANGED fault \/ Fail
  /\ IF killed \/ i + ReadChunk >= OpLen
     THEN CallMode("rd_end") /\ UNCHANGED i
     ELSE i' = i + ReadChunk /\ UNCHANGED <<pc, callVars>>
  /\ UNCHANGED <<chipVars, req, ret, regionVars, killed, late, misread, afterKill>>

read_end ==
  /\ pc = "rd_end"
  /\ Finish("ok")
  /\ UNCHANGED <<chipVars, callVars, req, i, regionVars, killed, histVars>>

-----------------------------------------------------------------------------
(* spi_nor_write.                                                          *)

write_ready ==
  /\ pc = "wr_ready"
  /\ IF rv = "ok" THEN CallMode("wr_settle") /\ UNCHANGED ret
                  ELSE Finish("fail") /\ UNCHANGED callVars
  /\ UNCHANGED <<chipVars, req, i, regionVars, killed, histVars>>

write_settle ==
  /\ pc = "wr_settle"
  /\ CallWait("wr_wren")
  /\ UNCHANGED <<chipVars, opVars, regionVars, killed, histVars>>

(* The page program, then the wait for it, unless the transfer of the data *)
(* failed: what becomes of the opcode and the address is not looked at.    *)
write_page ==
  LET program == IF fourByte = Addr4b THEN ChipPageProgram(Target(i), OpLen - i)
                                      ELSE ChipStrayProgram
      skipWait == Goto("wr_page") /\ rv' = "error" /\ UNCHANGED <<waitRet, modeRet, polls>>
  IN /\ pc = "wr_cmd"
     /\ \/ program /\ UNCHANGED fault /\ CallWait("wr_page")
        \/ Fail /\ (program \/ UNCHANGED chipVars) /\ (CallWait("wr_page") \/ skipWait)
     /\ CountAfterKill
     /\ UNCHANGED <<opVars, regionVars, killed, late, misread>>

MutNoAbort == rv # "ok" \/ i + PageSize >= OpLen

MutIgnoreResult == killed \/ i + PageSize >= OpLen

MutLastPage == killed \/ rv # "ok" \/ i + 2 * PageSize >= OpLen

(* spi_nor_for_each_chunk stops at the first bad page, and at the end. *)
StopWriting == killed \/ rv # "ok" \/ i + PageSize >= OpLen

write_next ==
  /\ pc = "wr_page"
  /\ IF StopWriting
     THEN CallMode("wr_wrdi") /\ UNCHANGED i
     ELSE i' = i + PageSize /\ Goto("wr_wren") /\ UNCHANGED callVars
  /\ UNCHANGED <<chipVars, req, ret, regionVars, killed, histVars>>

(* spi_nor_write returns 0 however its pages went; do_write verifies then. *)
write_done ==
  /\ pc = "wr_wrdi"
  /\ Send(ChipWrdi)
  /\ IF req.verify
     THEN i' = 0 /\ CallWait("rd_ready") /\ UNCHANGED ret
     ELSE Finish("ok") /\ UNCHANGED <<callVars, i>>
  /\ UNCHANGED <<req, regionVars, killed, late, misread, afterKill>>

-----------------------------------------------------------------------------
(* spi_nor_lockunlock.                                                     *)

lock_read ==
  /\ pc = "lk_read"
  /\ \E v \in Bp :
       /\ ReadBp(v)
       /\ status' = spi_nor_set_bit2_to_bit5_top_down(v, locked, want_to_lock, want_to_unlock)
  /\ Goto("lk_wren")
  /\ UNCHANGED <<chipVars, callVars, opVars, locked, want_to_lock, want_to_unlock,
                 killed, late, misread, afterKill>>

MutLockWrite ==
  /\ pc = "lk_wrsr"
  /\ Send(ChipWriteStatus(status))
  /\ Goto("lk_reread")
  /\ UNCHANGED <<callVars, opVars, regionVars, killed, late, misread, afterKill>>

lock_write ==
  /\ pc = "lk_wrsr"
  /\ Send(ChipWriteStatus(status))
  /\ CallWait("lk_reread")
  /\ UNCHANGED <<opVars, regionVars, killed, late, misread, afterKill>>

lock_reread ==
  /\ pc = "lk_reread"
  /\ \E v \in Bp : ReadBp(v) /\ locked' = spi_nor_bp_bit2_to_bit5_top_down(v)
  /\ Finish("ok")
  /\ UNCHANGED <<chipVars, callVars, req, i, status, want_to_lock, want_to_unlock,
                 killed, late, misread, afterKill>>

-----------------------------------------------------------------------------
(* The end of main(), and what happens around the process.                 *)

cleanup == pc = "exit" /\ Quit

sigterm ==
  /\ pc \notin {"idle", "exit"} /\ ~killed
  /\ killed' = TRUE
  /\ UNCHANGED <<chipVars, pc, callVars, opVars, regionVars, histVars>>

Crash == pc \notin {"idle", "exit"} /\ Quit

ChipStep ==
  /\ ChipDone
  /\ UNCHANGED <<pc, callVars, opVars, regionVars, killed, histVars>>

Program ==
  \/ spi_nor_probe \/ spi_nor_init
  \/ do_identify \/ do_unlock \/ do_lock \/ do_erase \/ do_read \/ do_write
  \/ wait_ready \/ mode_4byte \/ mode_ear \/ write_enable
  \/ erase_ready \/ erase_sector \/ erase_done \/ erase_next
  \/ bulk_ready \/ bulk_erase \/ bulk_done
  \/ read_ready \/ read_chunk \/ read_end
  \/ write_ready \/ write_settle \/ write_page \/ write_next \/ write_done
  \/ lock_read \/ lock_write \/ lock_reread
  \/ cleanup

Next ==
  \/ \E r \in Requests : Start(r)
  \/ Program
  \/ sigterm
  \/ Crash
  \/ ChipStep

(* The process runs until it ends; nothing makes the chip, the user or the *)
(* next command line do anything.                                          *)
Spec == Init /\ [][Next]_vars /\ WF_vars(Program)

-----------------------------------------------------------------------------
(* Properties.                                                             *)

Range == {c \in Cell : c >= req.addr /\ c < req.addr + OpLen}

(* The request lies in the device, and its first cell starts a page. *)
InDevice   == req.addr + OpLen <= DeviceSize
PageAligned == req.addr % PageSize = 0 /\ OpLen % PageSize = 0

(* BP bits b differ from the protection before in sectors of the request   *)
(* only, which lock locks and unlock unlocks.                              *)
ChangesAsAsked(b, before) ==
  LET after == spi_nor_bp_bit2_to_bit5_top_down(b)
  IN  \A r \in Region : after[r] # before[r] =>
        /\ flash_range_contains_region(r, req.addr, OpLen)
        /\ req.op = IF after[r] THEN "lock" ELSE "unlock"

(* No wait gave up, no transfer failed, nobody pressed ^C. *)
Undisturbed == ~killed /\ ~late /\ ~fault

(* No command that reads, changes or write-protects the array is sent to a *)
(* chip that is still busy, and none of the WREN commands before them: not *)
(* after a ^C, a wait that gave up, a process that died in the middle of   *)
(* an erase and left the chip busy for the next one, or a transfer that    *)
(* failed, unless it was the opcode of a status read: spi_nor_wait_ready   *)
(* does not see that, and may take a busy chip for one that is ready.      *)
BusyChipLeftAlone ==
  /\ pc \in {"se_wren", "se_cmd", "be_wren", "be_cmd", "rd_chunk", "wr_wren", "wr_cmd",
            "lk_wren", "lk_wrsr", "mode_wren", "mode_ear"}
  /\ ~misread
  => ~wip

(* Whenever the driver is about to send an address, the chip expects as    *)
(* many address bytes as the driver sends, although the result of          *)
(* snor_4byte_mode is ignored everywhere and a crash or ^C may have left   *)
(* the chip in either mode; a failed transfer is the only exception.       *)
AddressModeAgrees ==
  pc \in {"se_cmd", "rd_chunk", "wr_cmd"} /\ ~fault => fourByte = Addr4b

(* A write that flash_write let through, and that ends before the last     *)
(* cell of the device, has no cell in a sector that the chip protects: the *)
(* flags filled at start-up and the two comparisons of                     *)
(* flash_contains_protected_blocks suffice for regions locked top down.    *)
AcceptedWriteUnprotected ==
  /\ pc \in {"wr_wren", "wr_cmd", "wr_page"}
  /\ HasBp /\ ~fault
  /\ req.addr + OpLen < DeviceSize
  => \A c \in Range : ~Protected(c)

(* When write or erase reports success and nothing disturbed the run, all  *)
(* of the requested cells were programmed or erased: no chunk or sector of *)
(* the loops is left out, wherever the request begins and ends.            *)
ReportedOkIsDone ==
  /\ pc = "exit" /\ ret = "ok" /\ Undisturbed
  /\ InDevice /\ bp = 0
  => CASE req.op = "write" /\ PageAligned -> \A c \in Range : mem[c] \in {"img", "bad"}
       [] req.op = "erase" /\ req.addr = 0 -> \A c \in Range : mem[c] = "ff"
       [] OTHER -> TRUE

(* Lock and unlock do what they were asked to and no more.  The BP bits    *)
(* written change the protection of sectors inside the request only, and   *)
(* only the way that was asked for, although the callback knows no more    *)
(* than all and nothing, and a wish for less, or from the bottom up, is    *)
(* dropped without a word; and for the whole device they protect all of it *)
(* or none, whatever they were before, even if the wait is cut short.      *)
LockStep ==
  /\ bpNext' # bpNext /\ ~fault' => ChangesAsAsked(bpNext', spi_nor_bp_bit2_to_bit5_top_down(bpNext))
  /\ pc = "exit" /\ HasBp /\ ~fault /\ req.addr = 0 /\ OpLen = DeviceSize
     => /\ req.op = "lock"   => bpNext = 15
        /\ req.op = "unlock" => bpNext = 0

LockAsAsked == [][LockStep]_vars

(* The lock status that is printed after lock or unlock is the chip's: the *)
(* register is read back when the write of it is over, not while the chip  *)
(* still shows the old bits.                                               *)
PrintedStatusIsCurrent ==
  /\ pc = "exit" /\ HasBp /\ ~fault
  /\ req.op \in {"lock", "unlock"} /\ rv = "ok"
  => locked = spi_nor_bp_bit2_to_bit5_top_down(bp)

(* After ^C at most one more page program or erase reaches the chip.       *)
AbortStopsSoon == afterKill <= 1

(* A read, a write that was verified, and a write that nothing disturbed   *)
(* leave the chip idle and out of four byte mode when they say OK: also    *)
(* after a ^C or a wait that gave up, and whatever an earlier process left *)
(* behind.  No write that says OK leaves a latch set that the operation in *)
(* progress will not clear, as an interrupted one has its WRDI ignored.    *)
ExitLeavesChipIdle ==
  /\ pc = "exit" /\ ret = "ok" /\ ~fault
  /\ req.op \in {"read", "write"}
  => /\ req.op = "read" \/ req.verify \/ Undisturbed => ~wip /\ ~fourByte
     /\ req.op = "write" => (wel => wip)

(* A step that changes the array does so for a write or an erase.  A write *)
(* stays in the pages its range meets; if the range is whole pages it      *)
(* stays in the range, and gives erased cells the image's byte.  An erase  *)
(* from address 0 stays in its range.  Requests that overflow uint32_t are *)
(* outside of this property, as is an erase from another address.          *)
ConfinedStep ==
  mem' # mem /\ ~fault' /\ req.addr + OpLen < WordSize
  => \/ /\ req.op = "write"
        /\ \A c \in Cell : mem'[c] # mem[c] =>
             /\ \E d \in Range : c \in PageOf(d)
             /\ PageAligned => c \in Range /\ (mem[c] = "ff" => mem'[c] = "img")
     \/ /\ req.op = "erase"
        /\ req.addr = 0 => \A c \in Cell : mem'[c] # mem[c] => c \in Range

(* No step changes a cell that is not the request's to change.             *)
Confined == [][ConfinedStep]_vars

(* Every process ends, with a chip that never becomes ready, and whether   *)
(* or not ^C is pressed.                                                   *)
Terminates == pc # "idle" ~> pc = "idle"

-----------------------------------------------------------------------------
(* The inductive invariants behind the properties, named for what each     *)
(* part says.                                                              *)

(* The process is at one of these labels, or returns to one of them from a *)
(* wait, or from a mode switch.                                            *)
ModeLabels == {"mode", "mode_wren", "mode_ear"}

At(labels)            == pc \in labels
WaitsFor(labels)      == pc = "wait" /\ waitRet \in labels
SwitchesFor(labels)   == (WaitsFor({"mode"}) \/ At(ModeLabels)) /\ modeRet \in labels

(* Reached only while the chip is known to be idle, unless the process was *)
(* told a wrong status...                                                  *)
IdleChipLabels ==
  {"status", "action", "se_wren", "se_cmd", "be_wren", "be_cmd", "rd_chunk", "mode_wren",
   "mode_ear", "wr_settle", "wr_wren", "wr_cmd", "lk_read", "lk_wren", "lk_wrsr"}

(* ... and where the result of a wait decides whether to go there. *)
DecidingLabels == {"se_ready", "be_ready", "rd_ready", "wr_ready", "wr_page", "mode"}

IdleChipInv ==
  /\ ~misread
  /\ \/ At(IdleChipLabels)
     \/ WaitsFor(IdleChipLabels)
     \/ SwitchesFor(EnterReturns)
     \/ At(DecidingLabels) /\ rv = "ok"
  => ~wip

(* A mode switch happens on parts that have one, and entering the mode,    *)
(* after a wait that succeeded, cannot fail unless a transfer does.        *)
ModeInv ==
  /\ fourByte \/ WaitsFor({"mode"}) \/ At(ModeLabels) => Addr4b
  /\ At({"mode_wren", "mode_ear"}) => ~Entering
  /\ /\ ~fault
     /\ \/ SwitchesFor(EnterReturns)
        \/ At({"se_ready", "rd_ready", "wr_ready"}) /\ rv = "ok"
     => bp < 8
  /\ ~fault /\ pc = "mode" /\ Entering => rv = "ok"
  /\ /\ ~fault
     /\ \/ At({"se_wren", "se_cmd", "rd_chunk", "wr_settle", "wr_wren", "wr_cmd", "wr_page"})
        \/ WaitsFor({"wr_wren", "wr_page"})
     => fourByte = Addr4b

(* Labels of a write, and of lock and unlock. *)
WriteLabels == {"wr_ready", "wr_settle", "wr_wren", "wr_cmd", "wr_page"}
LockLabels  == {"lk_read", "lk_wren", "lk_wrsr", "lk_reread"}

(* Until lock or unlock has sent the BP bits the flags are the chip's, and *)
(* a write is one that flash_write let through.                            *)
FlagsInv ==
  /\ wip \/ bpNext = bp
  /\ At(LockLabels) \/ WaitsFor(LockLabels) => req.op \in {"lock", "unlock"}
  /\ /\ HasBp /\ ~fault /\ pc \notin {"idle", "probe", "status"}
     /\ req.op \notin {"lock", "unlock"} \/ pc \in {"action", "lk_read", "lk_wren", "lk_wrsr"}
     => locked = spi_nor_bp_bit2_to_bit5_top_down(bp) /\ bpNext = bp
  /\ At(WriteLabels) \/ WaitsFor(WriteLabels) \/ SwitchesFor({"wr_settle"})
       => req.op = "write" /\ ~WriteRefused

(* After ^C, a process that has sent one more erase or page program is at, *)
(* or on its way to, one of these labels: none of them sends another.      *)
SentLabels == {"se_done", "se_next", "be_wrdi", "wr_page", "wr_wrdi",
               "rd_ready", "rd_chunk", "rd_end", "exit"}

HeadsFor(labels) == At(labels) \/ WaitsFor(labels) \/ SwitchesFor(labels)

AbortInv == afterKill # 0 => afterKill = 1 /\ killed /\ HeadsFor(SentLabels)

(* A subroutine has a caller, and each operation stays at labels of its    *)
(* own.                                                                    *)
StartLabels == {"probe", "status", "action"}
ReadLabels  == {"rd_ready", "rd_chunk", "rd_end"}

OperationInv ==
  /\ ~WaitsFor({"idle"}) /\ ~SwitchesFor({"idle"})
  /\ req.op \in {"lock", "unlock"} => HeadsFor(StartLabels \cup LockLabels \cup {"exit"})
  /\ req.op = "read"  => HeadsFor(StartLabels \cup ReadLabels \cup {"exit"})
  /\ req.op = "write" =>
       HeadsFor(StartLabels \cup WriteLabels \cup {"wr_wrdi"} \cup ReadLabels \cup {"exit"})

(* The register is read back from an idle chip, or the wait failed. *)
RereadInv ==
  /\ pc = "lk_reread" /\ rv = "ok" /\ ~fault => ~wip
  /\ /\ pc = "exit" /\ HasBp /\ ~fault
     /\ req.op \in {"lock", "unlock"} /\ rv = "ok"
     => ~wip /\ locked = spi_nor_bp_bit2_to_bit5_top_down(bp)

(* Lock and unlock, from the marks to the chip. *)
WholeDevice == req.addr = 0 /\ OpLen = DeviceSize

BpWanted == IF req.op = "lock" THEN 15 ELSE 0

StatusAsAsked == ChangesAsAsked(status, locked)

LockInv ==
  /\ At({"idle"} \cup StartLabels) => want_to_lock = NoFlags /\ want_to_unlock = NoFlags
  /\ At(LockLabels) \/ WaitsFor(LockLabels) => HasBp
  /\ HasBp /\ ~fault /\ req.op \in {"lock", "unlock"} =>
       /\ pc = "lk_read" =>
            IF req.op = "lock"
            THEN /\ want_to_lock = flash_mark_lock(locked, req.addr, OpLen)
                 /\ want_to_unlock = NoFlags
            ELSE /\ want_to_unlock = flash_mark_unlock(locked, req.addr, OpLen)
                 /\ want_to_lock = NoFlags
       /\ At({"lk_wren", "lk_wrsr"}) =>
            StatusAsAsked /\ (WholeDevice => status = BpWanted)
       /\ pc = "lk_wrsr" => wel
       /\ At({"lk_reread", "exit"}) \/ WaitsFor({"lk_reread"}) =>
            (WholeDevice => bpNext = BpWanted)

(* What a read or write leaves the chip in, label by label, if nothing     *)
(* disturbs it...                                                          *)
SettledInv ==
  Undisturbed =>
    /\ rv = "ok"
    /\ At({"mode", "wr_ready", "wr_page", "wr_wrdi"}) => ~wip
    /\ pc = "wr_wrdi" => ~fourByte

(* ... and as long as its transfers go through: a read that has begun      *)
(* cannot be kept from leaving the four byte mode, and after the WRDI of a *)
(* write the latch is only set to leave that mode.                         *)
LeavingInv ==
  ~fault =>
    /\ At({"mode_wren", "mode_ear", "rd_end"}) => ~fourByte
    /\ At({"rd_chunk", "rd_end"}) \/ SwitchesFor({"rd_chunk", "rd_end"}) => ~wip /\ bp < 8
    /\ pc = "mode" /\ modeRet = "rd_end" => rv = "ok"
    /\ req.op = "write" /\ HeadsFor(ReadLabels) /\ pc # "mode_ear" => (wel => wip)
    /\ ExitLeavesChipIdle

(* A process starts at the front of its range, with nothing to disturb it. *)
(* From there each loop is at a multiple of its chunk, inside the range.   *)
SectorLabels == {"se_ready", "se_wren", "se_cmd", "se_done", "se_next"}
BulkLabels   == {"be_ready", "be_wren", "be_cmd", "be_wrdi"}

LoopInv ==
  /\ pc = "idle" => Undisturbed
  /\ At({"idle"} \cup StartLabels) => i = 0
  /\ HeadsFor(SectorLabels) =>
       req.op = "erase" /\ OpLen % RegionSize = 0 /\ i % RegionSize = 0 /\ i < OpLen
  /\ HeadsFor(BulkLabels) => req.op = "erase" /\ req.addr = 0 /\ OpLen = DeviceSize /\ i = 0
  /\ HeadsFor(WriteLabels) => req.op = "write" /\ i % PageSize = 0 /\ i < OpLen

(* A command that changes the array finds the latch set, and no BP bits on *)
(* their way.                                                              *)
LatchInv ==
  /\ pc \notin {"idle", "probe"} /\ req.op \notin {"lock", "unlock"} => bpNext = bp
  /\ At({"se_cmd", "be_cmd", "wr_cmd"}) /\ ~fault => wel

-----------------------------------------------------------------------------
(* What the documentation says and the code does not do.                   *)

(* "set the address and length to do a partial erase" (ui.c:159): an erase *)
(* changes cells of the given range only.                                  *)
PartialEraseInPlace ==
  [][mem' # mem /\ req.op = "erase" /\ ~fault'
     => \A c \in Cell : mem'[c] # mem[c] => c \in Range]_vars

(* "Is either the start of the operation or the end of the operation       *)
(* inside a locked region?" (flash.h:117): no write that reaches into the  *)
(* locked regions of the device is let through, including one that ends    *)
(* with the device.                                                        *)
ProtectedWriteRefused ==
  /\ pc \in {"wr_wren", "wr_cmd", "wr_page"}
  /\ HasBp /\ ~fault /\ InDevice
  => \A c \in Range : ~Protected(c)

(* "read status register until ready, or timeout occurs" (spi_nor_flash.c  *)
(* line 75): a wait on a chip that is not busy succeeds.                   *)
WaitSeesReadyChip ==
  [][pc = "wait" /\ pc' # "wait" /\ pc' # "idle" /\ ~wip /\ ~fault' => rv' = "ok"]_vars
=============================================================================
