------------------------------- MODULE SpiNand ------------------------------
(***************************************************************************)
(* One snander process after another driving a SPI NAND part: the flow of  *)
(* src/src/main.c around one action and the driver                         *)
(* src/src/spi_nand_flash.c with the callbacks of src/src/spi_nand_ids.c,  *)
(* one action per SPI transaction.                                         *)
(*                                                                         *)
(* pc names the next transaction or decision.  spi_nand_read_page is the   *)
(* one subroutine with several callers: it returns to the label pageRet,   *)
(* with its result in rv and the page in buf (spi_nand_priv->page_buffer). *)
(* The driver looks at no transfer's result and gives up no poll.          *)
(***************************************************************************)
EXTENDS NandChip

CONSTANTS DieSelect,     \* the part has one of the two die select features
          HasCallbacks,  \* chip has ecc_ok and the block protection callbacks
          WeAfter,       \* write enable goes after PROGRAM LOAD
          BlankPages,    \* pages that are all ones in the image
          Faults,        \* may a transfer fail?
          Requests       \* command lines

Ops == {"identify", "unlock", "lock", "erase", "read", "write"}

RequestType ==
  [op: Ops, addr: Word, haveLen: BOOLEAN, len: Word, verify: BOOLEAN,
   ecc_disable: BOOLEAN, ecc_ignore: BOOLEAN]

(* SPI_NAND_FLASH_RTN_T, and any negative errno. *)
NoError           == 0
AlignedCheckFail  == 2
DetectedBadBlock  == 3
EraseFail         == 4
ProgramFail       == 5
Errno             == -1

Codes == {NoError, AlignedCheckFail, DetectedBadBlock, EraseFail, ProgramFail, Errno}

ASSUME NandAssumption ==
  /\ DieSelect \in BOOLEAN /\ HasCallbacks \in BOOLEAN /\ WeAfter \in BOOLEAN
  /\ DieSelect <=> NumDies > 1
  /\ BlankPages \subseteq Page
  /\ Faults \in BOOLEAN
  /\ Requests \subseteq RequestType

VARIABLES
  pc, pageRet,
  rv,              \* result of spi_nand_read_page
  buf,             \* page_buffer
  dieId,           \* the static _die_id
  status,          \* the fail bit in the last status read of a poll
  req,             \* the command line
  i,               \* the loop offset of the operation
  ret,             \* the operation's result
  locked,          \* flash->status->regions[]
  killed,          \* the flag of the SIGINT handler
  fault,           \* history: a transfer of this run failed
  selected,        \* history: spi_nand_select_die sent a command
  uncorrectable,   \* history: a page was read that the ECC could not correct
  misread,         \* history: a byte was delivered that is not in the array
  verified,        \* history: the verify pass returned 0
  afterKill        \* history: changing commands sent since killed, up to 2

callVars  == <<pageRet, rv, buf, dieId, status>>
opVars    == <<req, i, ret>>
otherHist == <<selected, uncorrectable, misread, verified, afterKill>>
histVars  == <<fault, otherHist>>
vars == <<chipVars, pc, callVars, opVars, locked, killed, histVars>>

Labels ==
  {"idle", "probe", "ecc_die", "ecc_set", "status", "action", "exit",
   "id_on", "id_unique", "id_param", "id_off", "lk_write", "lk_reread",
   "er_select", "er_wren", "er_cmd", "er_poll", "er_wrdi",
   "rd_page", "rd_copy", "vf_page", "vf_cmp",
   "wr_page", "wr_overlay", "wr_select", "wr_wren", "wr_load", "wr_exec", "wr_poll",
   "wr_wrdi", "wr_next",
   "rp_select", "rp_load", "rp_poll", "rp_ecc", "rp_cache"}

PageReturns == {"idle", "id_unique", "id_param", "rd_copy", "wr_overlay", "vf_cmp"}

NoRequest == [op |-> "identify", addr |-> 0, haveLen |-> FALSE, len |-> 0,
              verify |-> FALSE, ecc_disable |-> FALSE, ecc_ignore |-> FALSE]
NoFlags   == [r \in Region |-> FALSE]
AllFlags  == [r \in Region |-> TRUE]
AllOnes   == [data |-> [k \in Column |-> Ff], oob |-> "ff"]

OperationTypeOK ==
  /\ pc \in Labels /\ pageRet \in PageReturns /\ rv \in Codes
  /\ buf \in Content /\ dieId \in Nat
  /\ req \in RequestType /\ i \in Nat /\ ret \in Codes
  /\ locked \in [Region -> BOOLEAN] /\ afterKill \in 0 .. 2

FlagTypeOK ==
  /\ status \in BOOLEAN /\ killed \in BOOLEAN /\ fault \in BOOLEAN
  /\ selected \in BOOLEAN /\ uncorrectable \in BOOLEAN
  /\ misread \in BOOLEAN /\ verified \in BOOLEAN

TypeOK == ChipTypeOK /\ OperationTypeOK /\ FlagTypeOK

Init ==
  /\ ChipInit
  /\ pc = "idle" /\ pageRet = "idle" /\ rv = NoError /\ buf = AllOnes /\ dieId = 0
  /\ status = FALSE /\ req = NoRequest /\ i = 0 /\ ret = NoError /\ locked = NoFlags
  /\ killed = FALSE /\ fault = FALSE /\ selected = FALSE
  /\ uncorrectable = FALSE /\ misread = FALSE /\ verified = FALSE /\ afterKill = 0

-----------------------------------------------------------------------------
(* The command line's range, and the image file.                           *)

OpLen == CASE req.op = "write" -> req.len
           [] req.haveLen      -> req.len
           [] req.op = "read"  -> DeviceSize
           [] OTHER            -> (DeviceSize - req.addr) % WordSize

(* identify reads pages 0 and 1, of the OTP area. *)
Target == IF req.op = "identify" THEN i ELSE (req.addr + i) % WordSize

MutRow == Target \div RegionSize

Row == Target \div PageSize            \* page_number

DieOf(row) == row \div DiePages        \* page_number >> 16, or >> 17

Aligned == Target % PageSize = 0

(* Cells of the current page that belong to the request. *)
CopySize == IF OpLen - i < PageSize THEN OpLen - i ELSE PageSize

Image(c) == IF c \div PageSize \in BlankPages THEN Ff ELSE Img(c)

FileCell(k) == Image(req.addr + i + k)

-----------------------------------------------------------------------------
(* Steps of the process.                                                   *)

Goto(label) == pc' = label

Finish(result) == pc' = "exit" /\ ret' = result

ReadPage(label) == pc' = "rp_select" /\ pageRet' = label

(* The process is gone, and its memory with it; the chip is not. *)
Quit ==
  /\ pc' = "idle" /\ pageRet' = "idle" /\ rv' = NoError /\ buf' = AllOnes /\ dieId' = 0
  /\ status' = FALSE /\ req' = NoRequest /\ i' = 0 /\ ret' = NoError /\ locked' = NoFlags
  /\ killed' = FALSE /\ fault' = FALSE /\ selected' = FALSE
  /\ uncorrectable' = FALSE /\ misread' = FALSE /\ verified' = FALSE /\ afterKill' = 0
  /\ UNCHANGED chipVars

Fail == Faults /\ ~fault /\ fault' = TRUE

(* A transfer goes through, or fails with or without reaching the chip. *)
Send(command) ==
  \/ command /\ UNCHANGED fault
  \/ Fail /\ (command \/ UNCHANGED chipVars)

(* Read-modify-write of the feature register; after a read that failed the *)
(* other bits are those of an uninitialised variable.                      *)
UpdateFeature(eccOn, otpOn, others) ==
  \/ Send(ChipSetFeature(eccOn, otpOn))
  \/ Fail /\ \E f \in others : ChipSetFeature(f[1], f[2])

CountAfterKill == afterKill' = IF killed /\ afterKill < 2 THEN afterKill + 1 ELSE afterKill

-----------------------------------------------------------------------------
(* main() and spi_nand_init, up to the action.                             *)

Start(r) ==
  /\ pc = "idle"
  /\ Goto("probe")
  /\ req' = r
  /\ UNCHANGED <<chipVars, callVars, i, ret, locked, killed, histVars>>

(* READ ID: a busy chip does not answer, and the transfer may fail. *)
Undetected == oip \/ Faults

(* When nothing is detected the process ends. *)
spi_nand_probe ==
  /\ pc = "probe"
  /\ \/ /\ ~oip
        /\ Goto(IF DieSelect THEN "ecc_die" ELSE "ecc_set")
        /\ UNCHANGED <<chipVars, callVars, opVars, locked, killed, histVars>>
     \/ Undetected /\ Quit

(* spi_nand_enable_ondie_ecc, whatever --disableecc says, once for each    *)
(* die; the die it selects is not remembered in _die_id.  The bit is one   *)
(* of the feature register, in some parts of one die (PN, FM, FORESEE and  *)
(* XT26G02B) of the register _SPI_NAND_ADDR_ECC; both are read, changed    *)
(* and written back alike, and the model keeps one bit for either.         *)
ecc_select_die ==
  /\ pc = "ecc_die"
  /\ Send(ChipSelectDie(i))
  /\ Goto("ecc_set")
  /\ UNCHANGED <<callVars, opVars, locked, killed, otherHist>>

MutOtherDies == i + 2 < NumDies

OtherDies == DieSelect /\ i + 1 < NumDies

spi_nand_enable_ondie_ecc ==
  /\ pc = "ecc_set"
  /\ UpdateFeature(TRUE, otp, {TRUE} \X BOOLEAN)
  /\ IF OtherDies THEN Goto("ecc_die") /\ i' = i + 1
     ELSE Goto(IF HasCallbacks THEN "status" ELSE "action") /\ i' = 0
  /\ UNCHANGED <<callVars, req, ret, locked, killed, otherHist>>

(* Only the two extremes of the BP bits reach the regions; in between they *)
(* keep what they were.                                                    *)
spi_nand_bp_bit2_to_bit6(b, flags) ==
  CASE b = 0             -> NoFlags
    [] 1024 \div 2^b = 0 -> AllFlags
    [] OTHER             -> flags

ReadProtection(flags) ==
  \/ locked' = spi_nand_bp_bit2_to_bit6(bp, flags) /\ UNCHANGED fault
  \/ Fail /\ \E b \in Bp : locked' = spi_nand_bp_bit2_to_bit6(b, flags)

spi_nand_init ==
  /\ pc = "status"
  /\ ReadProtection(NoFlags)
  /\ Goto("action")
  /\ UNCHANGED <<chipVars, callVars, opVars, killed, otherHist>>

do_identify ==
  /\ pc = "action" /\ req.op = "identify"
  /\ Goto("id_on")
  /\ UNCHANGED <<chipVars, callVars, opVars, locked, killed, histVars>>

(* The marks on the regions are only printed: set_bp_from_status does not  *)
(* look at them.  A part without the callbacks is refused.                 *)
do_lock_unlock ==
  /\ pc = "action" /\ req.op \in {"lock", "unlock"}
  /\ IF HasCallbacks THEN Goto("lk_write") /\ UNCHANGED ret ELSE Finish(Errno)
  /\ UNCHANGED <<chipVars, callVars, req, i, locked, killed, histVars>>

MutDoErase ==
  /\ pc = "action" /\ req.op = "erase"
  /\ \/ OpLen = 0 /\ Quit
     \/ /\ OpLen > 0
        /\ IF req.addr % RegionSize # 0 THEN Finish(AlignedCheckFail)
           ELSE Goto("er_select") /\ UNCHANGED ret
        /\ UNCHANGED <<chipVars, callVars, req, i, locked, killed, histVars>>

(* A length of 0 ends the process in ui_percentage's assert, an empty file *)
(* in file_open_and_mmap's.                                                *)
do_erase ==
  /\ pc = "action" /\ req.op = "erase"
  /\ \/ OpLen = 0 /\ Quit
     \/ /\ OpLen > 0
        /\ IF OpLen % RegionSize # 0 THEN Finish(Errno)
           ELSE IF req.addr % RegionSize # 0 THEN Finish(AlignedCheckFail)
           ELSE Goto("er_select") /\ UNCHANGED ret
        /\ UNCHANGED <<chipVars, callVars, req, i, locked, killed, histVars>>

do_read ==
  /\ pc = "action" /\ req.op = "read"
  /\ \/ OpLen = 0 /\ Quit
     \/ /\ OpLen > 0
        /\ Goto("rd_page")
        /\ UNCHANGED <<chipVars, callVars, opVars, locked, killed, histVars>>

do_write ==
  /\ pc = "action" /\ req.op = "write"
  /\ \/ OpLen = 0 /\ Quit
     \/ /\ OpLen > 0
        /\ IF flash_contains_protected_blocks(locked, req.addr, OpLen)
           THEN Finish(Errno)
           ELSE Goto("wr_page") /\ UNCHANGED ret
        /\ UNCHANGED <<chipVars, callVars, req, i, locked, killed, histVars>>

-----------------------------------------------------------------------------
(* What the operations share.                                              *)

AfterSelect == [rp_select |-> "rp_load", er_select |-> "er_wren",
                wr_select |-> IF WeAfter THEN "wr_load" ELSE "wr_wren"]

(* The command is only sent when the static _die_id changes. *)
MutSelectDie ==
  /\ pc \in DOMAIN AfterSelect
  /\ IF DieSelect /\ DieOf(Row) > dieId
     THEN dieId' = DieOf(Row) /\ selected' = TRUE /\ Send(ChipSelectDie(DieOf(Row)))
     ELSE UNCHANGED <<chipVars, dieId, selected, fault>>
  /\ Goto(AfterSelect[pc])
  /\ UNCHANGED <<pageRet, rv, buf, status, opVars, locked, killed, uncorrectable, misread,
                 verified, afterKill>>

spi_nand_select_die ==
  /\ pc \in DOMAIN AfterSelect
  /\ IF DieSelect /\ DieOf(Row) # dieId
     THEN dieId' = DieOf(Row) /\ selected' = TRUE /\ Send(ChipSelectDie(DieOf(Row)))
     ELSE UNCHANGED <<chipVars, dieId, selected, fault>>
  /\ Goto(AfterSelect[pc])
  /\ UNCHANGED <<pageRet, rv, buf, status, opVars, locked, killed, uncorrectable, misread,
                 verified, afterKill>>

AfterWren == [er_wren |-> "er_cmd", wr_wren |-> IF WeAfter THEN "wr_exec" ELSE "wr_load"]

write_enable ==
  /\ pc \in DOMAIN AfterWren
  /\ Send(ChipWren)
  /\ Goto(AfterWren[pc])
  /\ UNCHANGED <<callVars, opVars, locked, killed, otherHist>>

AfterPoll == [rp_poll |-> "rp_ecc", er_poll |-> "er_wrdi", wr_poll |-> "wr_wrdi"]

(* do { get_status } while (OIP), without a limit and deaf to ^C.  A read  *)
(* that fails leaves the status as it was or uninitialised.                *)
MutPoll ==
  /\ pc \in DOMAIN AfterPoll
  /\ status' = failBit /\ Goto(AfterPoll[pc]) /\ UNCHANGED fault
  /\ UNCHANGED <<chipVars, pageRet, rv, buf, dieId, opVars, locked, killed, otherHist>>

poll ==
  /\ pc \in DOMAIN AfterPoll
  /\ \/ ~oip /\ status' = failBit /\ Goto(AfterPoll[pc]) /\ UNCHANGED fault
     \/ oip /\ UNCHANGED <<pc, status, fault>>
     \/ Fail /\ status' \in BOOLEAN /\ pc' \in {pc, AfterPoll[pc]}
  /\ UNCHANGED <<chipVars, pageRet, rv, buf, dieId, opVars, locked, killed, otherHist>>

-----------------------------------------------------------------------------
(* spi_nand_read_page.                                                     *)

page_read ==
  /\ pc = "rp_load"
  /\ Send(ChipPageRead(Row))
  /\ Goto("rp_poll")
  /\ UNCHANGED <<callVars, opVars, locked, killed, otherHist>>

(* spi_nand_load_page_into_cache, at its end: -1 when the ECC failed. *)
LoadResult(bits) ==
  IF ~req.ecc_ignore /\ HasCallbacks /\ bits = "uncorrectable" THEN Errno ELSE NoError

(* read_page only knows DETECTED_BAD_BLOCK, which is not what it gets. *)
PageResult(loaded) == IF loaded = DetectedBadBlock THEN DetectedBadBlock ELSE NoError

check_ecc_status ==
  /\ pc = "rp_ecc"
  /\ \/ rv' = PageResult(LoadResult(eccBits)) /\ UNCHANGED fault
     \/ /\ ~req.ecc_ignore /\ Fail
        /\ \E bits \in {"ok", "uncorrectable"} : rv' = PageResult(LoadResult(bits))
  /\ uncorrectable' = (uncorrectable \/ eccBits = "uncorrectable")
  /\ Goto("rp_cache")
  /\ UNCHANGED <<chipVars, pageRet, buf, dieId, status, opVars, locked, killed, selected,
                 misread, verified, afterKill>>

(* The buffer is cleared to 0 first, and its spare area stays so unless it *)
(* is read too: by a read with --disableecc.                               *)
IncludeOob == pageRet = "rd_copy" /\ req.ecc_disable

read_from_cache ==
  LET read == [data |-> cache.data, oob |-> IF IncludeOob THEN cache.oob ELSE "zero"]
      lost == [data |-> [k \in Column |-> Bad], oob |-> "zero"]
  IN /\ pc = "rp_cache"
     /\ \/ buf' = read /\ UNCHANGED fault
        \/ Fail /\ buf' = lost
     /\ Goto(pageRet)
     /\ UNCHANGED <<chipVars, pageRet, rv, dieId, status, opVars, locked, killed, selected,
                    uncorrectable, misread, verified, afterKill>>

-----------------------------------------------------------------------------
(* spi_nand_identify: two pages of the OTP area.                           *)

otp_on ==
  /\ pc = "id_on"
  /\ UpdateFeature(ecc[die], TRUE, BOOLEAN \X {TRUE})
  /\ ReadPage("id_unique")
  /\ UNCHANGED <<rv, buf, dieId, status, opVars, locked, killed, selected, uncorrectable,
                 misread, verified, afterKill>>

unique_id ==
  /\ pc = "id_unique"
  /\ IF rv # NoError THEN Goto("id_off") /\ ret' = rv /\ UNCHANGED <<pageRet, i>>
                     ELSE ReadPage("id_param") /\ i' = PageSize /\ UNCHANGED ret
  /\ UNCHANGED <<chipVars, rv, buf, dieId, status, req, locked, killed, histVars>>

(* A bug: a wrong signature returns at once.                               *)
MutParameterPage ==
  /\ pc = "id_param"
  /\ \/ rv # NoError /\ ret' = rv /\ Goto("id_off")
     \/ rv = NoError /\ ret' = NoError /\ Goto("id_off")
     \/ rv = NoError /\ ret' = Errno /\ Goto("exit")
  /\ UNCHANGED <<chipVars, callVars, req, i, locked, killed, histVars>>

(* The signature may be right or wrong. *)
parameter_page ==
  /\ pc = "id_param"
  /\ Goto("id_off")
  /\ ret' \in IF rv # NoError THEN {rv} ELSE {NoError, Errno}
  /\ UNCHANGED <<chipVars, callVars, req, i, locked, killed, histVars>>

otp_off ==
  /\ pc = "id_off"
  /\ UpdateFeature(ecc[die], FALSE, BOOLEAN \X {FALSE})
  /\ Goto("exit")
  /\ UNCHANGED <<callVars, opVars, locked, killed, otherHist>>

-----------------------------------------------------------------------------
(* spi_nand_lockunlock: lock and unlock alike write BP bits of 0.          *)

MutSetBpBits(b) == 8 * b

spi_nand_set_bp_from_status_bit2_to_bit6(b) == 0

lock_write ==
  /\ pc = "lk_write"
  /\ Send(ChipSetBp(spi_nand_set_bp_from_status_bit2_to_bit6(bp)))
  /\ Goto("lk_reread")
  /\ UNCHANGED <<callVars, opVars, locked, killed, otherHist>>

lock_reread ==
  /\ pc = "lk_reread"
  /\ ReadProtection(locked)
  /\ Goto("exit")
  /\ UNCHANGED <<chipVars, callVars, opVars, killed, otherHist>>

-----------------------------------------------------------------------------
(* spi_nand_erase_internal and spi_nand_erase_block.                       *)

erase_block ==
  /\ pc = "er_cmd"
  /\ Send(ChipBlockErase(Row))
  /\ Goto("er_poll")
  /\ CountAfterKill
  /\ UNCHANGED <<callVars, opVars, locked, killed, selected, uncorrectable, misread, verified>>

MutEraseEnd ==
  /\ pc = "er_wrdi"
  /\ Send(ChipWrdi)
  /\ IF killed \/ i + RegionSize >= OpLen THEN Finish(NoError) /\ UNCHANGED i
     ELSE Goto("er_select") /\ i' = i + RegionSize /\ UNCHANGED ret
  /\ UNCHANGED <<callVars, req, locked, killed, otherHist>>

erase_end ==
  /\ pc = "er_wrdi"
  /\ Send(ChipWrdi)
  /\ IF status THEN Finish(EraseFail) /\ UNCHANGED i
     ELSE IF killed \/ i + RegionSize >= OpLen THEN Finish(NoError) /\ UNCHANGED i
     ELSE Goto("er_select") /\ i' = i + RegionSize /\ UNCHANGED ret
  /\ UNCHANGED <<callVars, req, locked, killed, otherHist>>

-----------------------------------------------------------------------------
(* spi_nand_read_internal.  An address inside a page ends the process in   *)
(* an assert, here and in write and verify.                                *)

read_next ==
  /\ pc = "rd_page"
  /\ \/ ~Aligned /\ Quit
     \/ /\ Aligned
        /\ ReadPage("rd_copy")
        /\ UNCHANGED <<chipVars, rv, buf, dieId, status, opVars, locked, killed, histVars>>

read_copy ==
  /\ pc = "rd_copy"
  /\ IF rv = DetectedBadBlock THEN Finish(rv) /\ UNCHANGED <<i, misread>>
     ELSE /\ misread' = (misread \/ \E k \in 0 .. CopySize - 1 :
                           Target + k \in Cell /\ buf.data[k] # mem[Target + k])
          /\ IF killed \/ i + PageSize >= OpLen THEN Finish(rv) /\ UNCHANGED i
             ELSE Goto("rd_page") /\ i' = i + PageSize /\ UNCHANGED ret
  /\ UNCHANGED <<chipVars, callVars, req, locked, killed, fault, selected, uncorrectable,
                 verified, afterKill>>

-----------------------------------------------------------------------------
(* spi_nand_write_internal and spi_nand_write_page.                        *)

(* All ones in the file: the page is skipped. *)
Blank == \A k \in 0 .. CopySize - 1 : FileCell(k) = Ff

(* Less than the working size, which --disableecc makes larger than any    *)
(* page: the page is read first.                                           *)
Overlays == CopySize < PageSize \/ req.ecc_disable

write_start ==
  /\ pc = "wr_page"
  /\ \/ ~Aligned /\ Quit
     \/ /\ Aligned /\ Blank
        /\ Goto("wr_next")
        /\ UNCHANGED <<chipVars, callVars, opVars, locked, killed, histVars>>
     \/ /\ Aligned /\ ~Blank
        /\ buf' = AllOnes /\ rv' = NoError
        /\ IF Overlays THEN ReadPage("wr_overlay") ELSE Goto("wr_overlay") /\ UNCHANGED pageRet
        /\ UNCHANGED <<chipVars, dieId, status, opVars, locked, killed, histVars>>

write_overlay ==
  /\ pc = "wr_overlay"
  /\ buf' = [buf EXCEPT !.data =
               [k \in Column |-> IF k < CopySize THEN FileCell(k) ELSE buf.data[k]]]
  /\ Goto("wr_select")
  /\ UNCHANGED <<chipVars, pageRet, rv, dieId, status, opVars, locked, killed, histVars>>

program_load ==
  /\ pc = "wr_load"
  /\ Send(ChipProgramLoad(buf))
  /\ Goto(IF WeAfter THEN "wr_wren" ELSE "wr_exec")
  /\ UNCHANGED <<callVars, opVars, locked, killed, otherHist>>

program_execute ==
  /\ pc = "wr_exec"
  /\ Send(ChipExecute(Row))
  /\ Goto("wr_poll")
  /\ CountAfterKill
  /\ UNCHANGED <<callVars, opVars, locked, killed, selected, uncorrectable, misread, verified>>

(* The page's result replaces the one of the page before it. *)
program_end ==
  /\ pc = "wr_wrdi"
  /\ Send(ChipWrdi)
  /\ ret' = IF status THEN ProgramFail ELSE rv
  /\ Goto("wr_next")
  /\ UNCHANGED <<callVars, req, i, locked, killed, otherHist>>

MutWritten == i + CopySize >= OpLen

MutWrittenAll == killed \/ i + CopySize > OpLen

Written == killed \/ i + CopySize >= OpLen

(* A write that returns 0 is verified if the command line says so. *)
write_next ==
  /\ pc = "wr_next"
  /\ IF ~Written THEN Goto("wr_page") /\ i' = i + CopySize
     ELSE IF ret = NoError /\ req.verify THEN Goto("vf_page") /\ i' = 0
     ELSE Goto("exit") /\ UNCHANGED i
  /\ UNCHANGED <<chipVars, callVars, req, ret, locked, killed, histVars>>

-----------------------------------------------------------------------------
(* spi_nand_verify.                                                        *)

verify_next ==
  /\ pc = "vf_page"
  /\ \/ ~Aligned /\ Quit
     \/ /\ Aligned
        /\ ReadPage("vf_cmp")
        /\ UNCHANGED <<chipVars, rv, buf, dieId, status, opVars, locked, killed, histVars>>

MutDiffers == \E k \in 0 .. CopySize - 2 : buf.data[k] # FileCell(k)

Differs == \E k \in 0 .. CopySize - 1 : buf.data[k] # FileCell(k)

verify_compare ==
  /\ pc = "vf_cmp"
  /\ IF rv = DetectedBadBlock THEN Finish(rv) /\ UNCHANGED <<i, verified>>
     ELSE IF Differs THEN Finish(Errno) /\ UNCHANGED <<i, verified>>
     ELSE IF killed \/ i + PageSize >= OpLen
          THEN Finish(NoError) /\ verified' = TRUE /\ UNCHANGED i
     ELSE Goto("vf_page") /\ i' = i + PageSize /\ UNCHANGED <<ret, verified>>
  /\ UNCHANGED <<chipVars, callVars, req, locked, killed, fault, selected, uncorrectable,
                 misread, afterKill>>

-----------------------------------------------------------------------------
(* The end of main(), and what happens around the process.                 *)

cleanup == pc = "exit" /\ Quit

sigterm ==
  /\ pc \notin {"idle", "exit"} /\ ~killed
  /\ killed' = TRUE
  /\ UNCHANGED <<chipVars, pc, callVars, opVars, locked, histVars>>

Crash == pc \notin {"idle", "exit"} /\ Quit

ChipStep ==
  /\ ChipDone
  /\ UNCHANGED <<pc, callVars, opVars, locked, killed, histVars>>

Program ==
  \/ spi_nand_probe \/ ecc_select_die \/ spi_nand_enable_ondie_ecc \/ spi_nand_init
  \/ do_identify \/ do_lock_unlock \/ do_erase \/ do_read \/ do_write
  \/ spi_nand_select_die \/ write_enable \/ poll
  \/ page_read \/ check_ecc_status \/ read_from_cache
  \/ otp_on \/ unique_id \/ parameter_page \/ otp_off
  \/ lock_write \/ lock_reread
  \/ erase_block \/ erase_end
  \/ read_next \/ read_copy
  \/ write_start \/ write_overlay \/ program_load \/ program_execute \/ program_end
  \/ write_next
  \/ verify_next \/ verify_compare
  \/ cleanup

Next ==
  \/ \E r \in Requests : Start(r)
  \/ Program
  \/ sigterm
  \/ Crash
  \/ ChipStep

(* The process runs until it ends, and the chip finishes what it has been  *)
(* told to do, without which the polls would never end.                    *)
Spec == Init /\ [][Next]_vars /\ WF_vars(Program) /\ WF_vars(ChipStep)

-----------------------------------------------------------------------------
(* Properties.                                                             *)

Asked == {(req.addr + k) % WordSize : k \in 0 .. OpLen - 1}

InDevice == Asked \subseteq Cell

(* Nothing went wrong between the program and the chip, which was not left *)
(* in OTP mode by a process that was killed.                               *)
Undisturbed == ~fault /\ ~otp

Completed(op) == pc = "exit" /\ req.op = op /\ ret = NoError /\ ~killed

(* While the chip is busy the driver does nothing but poll its status,     *)
(* also when the process before was killed in the middle of an operation.  *)
BusyChipLeftAlone ==
  oip /\ ~fault =>
    pc \in {"idle", "probe", "exit", "rp_poll", "er_poll", "wr_poll"}

(* A write that was verified is in the array, at the addresses asked for,  *)
(* even when it overwrote a page's PROGRAM_FAIL with the next page's       *)
(* result, skipped a blank page or met a page the ECC could not correct.   *)
(* After ^C the verification returns 0 all the same, and its result stands *)
(* for the pages it got to, the last of them included, and no others.      *)
VerifiedIsWritten ==
  pc = "exit" /\ verified /\ Undisturbed /\ InDevice =>
    \A c \in Asked : ~killed \/ c < req.addr + (i + CopySize) => mem[c] = Image(c)

(* An erase that reports success has erased every cell of its range,       *)
(* whatever blocks are worn or protected.                                  *)
EraseOkIsErased ==
  Completed("erase") /\ Undisturbed /\ InDevice => \A c \in Asked : mem[c] = Ff

(* A read that reports success delivered what the array holds, up to the   *)
(* page where it was interrupted, unless it met an uncorrectable page.     *)
ReadFaithful ==
  pc = "exit" /\ req.op = "read" /\ ret = NoError /\ Undisturbed /\ ~uncorrectable
    => ~misread

(* Once ^C is pressed at most one more page is programmed or block erased, *)
(* and nothing in the verification that follows.                           *)
AbortStopsSoon == afterKill <= 1

(* Every command that carries a row address goes to the die the address is *)
(* in, once spi_nand_select_die has sent a command or if it is not the     *)
(* first die.                                                              *)
RightDie ==
  /\ pc \in {"rp_load", "er_wren", "er_cmd", "wr_load", "wr_wren", "wr_exec"}
  /\ ~fault /\ Target \in Cell /\ (selected \/ DieOf(Row) # 0)
  => die = DieOf(Row)

(* Unless the command line has --disableecc, the on-die ECC is on in every *)
(* die all through the action, not only in the die that happens to be      *)
(* selected: whatever state the processes before left it in, and with      *)
(* identify writing the bit back twice in between.  Of --disableecc        *)
(* nothing is said here: ui.c:168 promises the ECC off, the code turns it  *)
(* on all the same.                                                        *)
EccOnEveryDie ==
  pc \notin {"idle", "probe", "ecc_die", "ecc_set"} /\ ~req.ecc_disable /\ ~fault
    => \A d \in Die : ecc[d]

(* identify leaves the part out of OTP mode and with its on-die ECC on,    *)
(* whatever it read there, also when an earlier one was killed halfway:    *)
(* both are bits of the register it reads, changes and writes back twice.  *)
IdentifyLeavesOtp ==
  pc = "exit" /\ req.op = "identify" /\ ~fault => ~otp /\ \A d \in Die : ecc[d]

(* Only cells of pages the request touches change, and only the cells it   *)
(* names unless a page is worn or came from the chip with errors.          *)
ConfinedStep ==
  InDevice =>
    \A c \in Cell : mem'[c] # mem[c] =>
      \/ req.op = "erase" /\ c \in Asked
      \/ req.op = "write" /\ c \in Asked
      \/ /\ req.op = "write" /\ \E a \in Asked : a \div PageSize = c \div PageSize
         /\ fault \/ uncorrectable \/ c \div RegionSize \in Worn

(* No step changes a cell that is not the request's to change.             *)
Confined == [][ConfinedStep]_vars

(* Every command ends, also after ^C and with a failing transfer.          *)
Terminates == pc # "idle" ~> pc = "idle"

-----------------------------------------------------------------------------
(* The inductive invariants behind the properties, named for what each     *)
(* part says.                                                              *)

PageLabels == {"rp_select", "rp_load", "rp_poll", "rp_ecc", "rp_cache"}

(* The process is at one of these labels, or returns to one of them from   *)
(* spi_nand_read_page.                                                     *)
HeadsFor(labels) == pc \in labels \/ (pc \in PageLabels /\ pageRet \in labels)

StartLabels    == {"idle", "probe", "ecc_die", "ecc_set", "status", "action"}
IdentifyLabels == {"id_on", "id_unique", "id_param", "id_off"}
EraseLabels    == {"er_select", "er_wren", "er_cmd", "er_poll", "er_wrdi"}
ReadLabels     == {"rd_page", "rd_copy"}
ProgramLabels  == {"wr_select", "wr_wren", "wr_load", "wr_exec"}
VerifyLabels   == {"vf_page", "vf_cmp"}
WriteLabels    == {"wr_page", "wr_overlay", "wr_poll", "wr_wrdi", "wr_next"}
                    \cup ProgramLabels \cup VerifyLabels

(* spi_nand_read_page has a caller, and each operation labels of its own.  *)
OperationInv ==
  /\ pc \in PageLabels => pageRet # "idle"
  /\ HeadsFor(IdentifyLabels) => req.op = "identify"
  /\ pc \in {"lk_write", "lk_reread"} => req.op \in {"lock", "unlock"}
  /\ HeadsFor(EraseLabels) => req.op = "erase"
  /\ HeadsFor(ReadLabels)  => req.op = "read"
  /\ HeadsFor(WriteLabels) => req.op = "write"

(* After ^C, a process that has sent one more command that changes the     *)
(* array is at, or on its way to, a label from which none sends another.   *)
SentLabels == {"er_poll", "er_wrdi", "wr_poll", "wr_wrdi", "wr_next", "exit"} \cup VerifyLabels

AbortInv == afterKill # 0 => afterKill = 1 /\ killed /\ HeadsFor(SentLabels)

(* Labels of commands with a row address. *)
RowLabels == {"rp_load", "er_wren", "er_cmd", "wr_load", "wr_wren", "wr_exec"}

(* What the static _die_id knows, once a command was sent for it; it is    *)
(* the die of the current row wherever a row is sent.  A row beyond the    *)
(* device selects nothing.                                                 *)
DieInv ==
  /\ pc \in StartLabels => ~selected
  /\ ~selected => dieId = 0
  /\ selected /\ ~fault /\ dieId \in Die => die = dieId
  /\ pc \in RowLabels /\ DieSelect => dieId = DieOf(Row)

(* The dies whose ECC is on while they are gone through, and from then on. *)
EccInv ==
  /\ pc \in {"idle", "probe", "status", "action"} => i = 0
  /\ pc \in {"ecc_die", "ecc_set"} => i \in Die
  /\ pc = "ecc_set" /\ ~fault => die = i
  /\ pc \in {"ecc_die", "ecc_set"} /\ ~fault => \A d \in Die : d < i => ecc[d]
  /\ pc \notin {"idle", "probe", "ecc_die", "ecc_set"} /\ ~fault => \A d \in Die : ecc[d]

(* identify leaves by the label that clears the OTP bit. *)
OtpInv == pc = "exit" /\ req.op = "identify" /\ ~fault => ~otp

(* The first of several dies may not be the one that is selected: what is  *)
(* said of the array is said of parts with one die, and of requests beyond *)
(* the first.                                                              *)
BeyondFirstDie == DieSelect => \A a \in Asked : DieOf(a \div PageSize) # 0

Sound == BeyondFirstDie /\ Undisturbed

(* Erase goes through its range block by block. *)
BlockInv ==
  pc \in EraseLabels =>
    /\ req.addr % RegionSize = 0 /\ OpLen % RegionSize = 0 /\ i % RegionSize = 0
    /\ i + RegionSize <= OpLen

(* The blocks that are done, and the one in hand. *)
EraseInv ==
  Sound /\ InDevice =>
    /\ pc \in EraseLabels => \A c \in Cell : req.addr <= c /\ c < req.addr + i => mem[c] = Ff
    /\ pc = "er_cmd" => wel
    /\ \/ pc = "er_poll" /\ ~failBit
       \/ pc = "er_wrdi" /\ ~status
       => \A c \in Cell : Target <= c /\ c < Target + RegionSize => mem[c] = Ff

EraseOkInv == BeyondFirstDie => EraseOkIsErased

(* An operation that goes by pages is inside its range, at a page. *)
PageInv ==
  /\ HeadsFor({"rd_page", "rd_copy", "wr_page", "wr_overlay", "wr_wrdi", "wr_poll", "wr_next"}
                \cup ProgramLabels \cup VerifyLabels) => i < OpLen
  /\ HeadsFor({"rd_copy", "wr_overlay", "vf_cmp"} \cup ProgramLabels) => Aligned

(* The cells of the current page. *)
Stored  == [k \in Column |-> mem[Target + k]]
Garbled == [k \in Column |-> Bad]

(* Where a page that was read from the array is used. *)
PageUsers == {"rd_copy", "wr_overlay", "vf_cmp"}

(* From the array to the cache register to the buffer: a page as it is, or *)
(* garbled and then reported by the ECC bits.                              *)
LoadInv ==
  Sound /\ Target \in Cell /\ HeadsFor(PageUsers) =>
    /\ pc \in {"rp_poll", "rp_ecc"} =>
         cache.data = Stored \/ (eccBits = "uncorrectable" /\ cache.data = Garbled)
    /\ pc = "rp_cache" =>
         cache.data = Stored \/ (uncorrectable /\ cache.data = Garbled)
    /\ pc \in {"rd_copy", "vf_cmp"} \/ (pc = "wr_overlay" /\ Overlays) =>
         buf.data = Stored \/ (uncorrectable /\ buf.data = Garbled)

(* The page that is sent: the file's cells, then what the page had. *)
Merged == [k \in Column |-> IF k < CopySize THEN FileCell(k) ELSE mem[Target + k]]

ProgramInv ==
  Sound /\ Target \in Cell =>
    /\ pc \in ProgramLabels => buf.data = Merged \/ uncorrectable
    /\ pc = "wr_exec" \/ (pc = "wr_wren" /\ WeAfter) => cache.data = Merged \/ uncorrectable

(* What was delivered, and what was compared. *)
ReadInv ==
  /\ pc \in StartLabels => ~misread
  /\ Sound /\ req.op = "read" /\ ~uncorrectable => ~misread

VerifyInv ==
  /\ Sound /\ InDevice /\ HeadsFor(VerifyLabels) =>
       \A c \in Cell : req.addr <= c /\ c < req.addr + i => mem[c] = Image(c)
  /\ verified =>
       /\ pc = "exit" /\ req.op = "write"
       /\ ~killed => i + CopySize = OpLen
       /\ Sound /\ InDevice =>
            \A c \in Cell : req.addr <= c /\ c < req.addr + (i + CopySize) => mem[c] = Image(c)

-----------------------------------------------------------------------------
(* What the documentation says and the code does not do.                   *)

(* "ECC ignore errors" (ui.c:169) is an option, so without it a read that  *)
(* met a page the ECC could not correct does not succeed.                  *)
EccErrorReported ==
  pc = "exit" /\ req.op = "read" /\ ~req.ecc_ignore /\ uncorrectable /\ ~fault
    => ret # NoError

(* "First clear the whole buffer including the OOB area", to 0xff          *)
(* (spi_nand_flash.c:1030): writing data programs no bit of a page's spare *)
(* area.                                                                   *)
SpareUntouched == [][req.op = "write" => oob' = oob]_vars
=============================================================================
