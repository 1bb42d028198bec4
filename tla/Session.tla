------------------------------ MODULE Session ------------------------------
(***************************************************************************)
(* One snander command after another at one bench: src/src/ui.c parses the *)
(* command line, src/src/main.c opens the controllers it needs, finds the  *)
(* part, runs the action and cleans up.  Composes the EEPROM driver, the   *)
(* mstarddc controller and the search for a SPI part, which share the      *)
(* process, and the devices, which outlive it.                             *)
(***************************************************************************)
EXTENDS I2cEeprom, SpiFlash

CONSTANTS Rigs,       \* the benches
          Lines(_)    \* the command lines tried at one

VARIABLE i2cSet       \* main's i2c_controller points to a controller

sessionVars == <<procVars, eepromVars, ddcVars, spiVars, i2cSet>>

Labels == {"none", "idle", "i2c_open", "spi_open", "ddc_parse", "ddc_i2c", "ddc_mstar",
           "ddc_end", "opcode", "data", "release", "ee_action", "ee_read", "ee_write",
           "ee_sleep", "ee_erase", "cleanup", "exit0", "exit1"}

Commands == Protocols \cup {"none", "op"}

I2cControllers == {"i2cdev", "ch341a"}
SpiControllers == {"ch341a", "mstarddc"}

(* A command line as typed: -E and -p with a name that is known or not, -c *)
(* with a string that is good, has no address or names no controller.      *)
LineType ==
  [help: BOOLEAN, list: BOOLEAN, eeprom: {"none", "known", "unknown"},
   prog: {"none", "unknown"} \cup I2cControllers \cup SpiControllers,
   conn: {"unset", "good", "noat", "badname"}, ops: SUBSET Ops, file: BOOLEAN,
   verify: BOOLEAN, ignoreecc: BOOLEAN, disableecc: BOOLEAN,
   haveAddr: BOOLEAN, addr: 0 .. WordSize - 1, haveLen: BOOLEAN, len: 0 .. WordSize - 1]

ASSUME SessionAssumption ==
  \A r \in Rigs : /\ r.part \in Parts /\ r.eeprom \in BOOLEAN /\ r.mangle \in BOOLEAN
                  /\ Lines(r) \subseteq LineType
                  /\ \A line \in Lines(r) : line.haveLen /\ line.file => line.len <= FileMax

NoRequest == [eeprom |-> FALSE, prog |-> "none", conn |-> "unset", op |-> "none",
              addr |-> 0, haveLen |-> FALSE, len |-> 0]

NoFile == [k \in FileByte |-> "zero"]

ProcessInit ==
  /\ pc = "idle" /\ cmd = "none" /\ req = NoRequest /\ i = 0 /\ ret = "ok"
  /\ handles = {} /\ i2cSet = FALSE /\ fault = NoFault
  /\ rbuf = NoFile /\ nak = FALSE /\ idle0 = FALSE
  /\ id = <<0, 0>> /\ heard = FALSE /\ found = NoPart /\ spiChanged = FALSE

Init ==
  /\ rig \in Rigs
  /\ ee = [c \in EeCell |-> "old"] /\ eeBusy = FALSE
  /\ isp = FALSE /\ csHeld = FALSE
  /\ ProcessInit

(* The process is gone; the bench stays, and its devices as they are. *)
EndProcess ==
  /\ pc' = "idle" /\ cmd' = "none" /\ req' = NoRequest /\ i' = 0 /\ ret' = "ok"
  /\ handles' = {} /\ i2cSet' = FALSE /\ fault' = NoFault
  /\ rbuf' = NoFile /\ nak' = FALSE /\ idle0' = FALSE
  /\ id' = <<0, 0>> /\ heard' = FALSE /\ found' = NoPart /\ spiChanged' = FALSE
  /\ UNCHANGED rig

Quit == EndProcess /\ UNCHANGED <<partVars, ddcVars>>

-----------------------------------------------------------------------------
(* The command line.                                                       *)

Asks(line, op) == line.ops = {op}

HasRange(line) == ~Asks(line, "identify")

NeedsFile(line) == Asks(line, "read") \/ Asks(line, "write")

MutProgrammerOk(line) ==
  IF line.eeprom = "known" THEN line.prog \in I2cControllers ELSE line.prog \in SpiControllers

ProgrammerOk(line) ==
  IF line.eeprom = "known" THEN line.prog \in I2cControllers
  ELSE line.prog \in SpiControllers /\ (line.prog = "mstarddc" => line.conn # "unset")

OptionsOk(line) ==
  /\ \E op \in Ops : Asks(line, op)
  /\ line.eeprom = "known" => ~Asks(line, "identify")
  /\ line.ignoreecc => Asks(line, "read")
  /\ line.verify => Asks(line, "write")
  /\ line.disableecc => NeedsFile(line)
  /\ line.file = NeedsFile(line)
  /\ line.haveAddr \/ line.haveLen => HasRange(line)

Accepted(line) == line.eeprom # "unknown" /\ ProgrammerOk(line) /\ OptionsOk(line)

(* The connection string is only kept for a SPI controller that needs one. *)
ui_handle_cmdline(line) ==
  [eeprom |-> line.eeprom = "known", prog |-> line.prog,
   conn |-> IF line.eeprom = "none" /\ line.prog = "mstarddc" THEN line.conn ELSE "unset",
   op |-> CHOOSE op \in Ops : Asks(line, op),
   addr |-> IF line.haveAddr THEN line.addr ELSE 0,
   haveLen |-> line.haveLen, len |-> IF line.haveLen THEN line.len ELSE 0]

-----------------------------------------------------------------------------
(* main().                                                                 *)

Start(line) ==
  /\ pc = "idle"
  /\ \/ (line.help \/ line.list) /\ Goto("exit0") /\ UNCHANGED req
     \/ ~line.help /\ ~line.list /\ ~Accepted(line) /\ Goto("exit1") /\ UNCHANGED req
     \/ /\ ~line.help /\ ~line.list /\ Accepted(line)
        /\ req' = ui_handle_cmdline(line)
        /\ Goto(IF line.eeprom = "known" THEN "i2c_open" ELSE "spi_open")
  /\ idle0' = ~eeBusy
  /\ UNCHANGED <<rig, i, ret, handles, fault, partVars, rbuf, nak, ddcVars, spiVars, i2cSet>>

(* A bug: no return after the EEPROM was found.                            *)
MutInitEeprom ==
  /\ pc = "i2c_open"
  /\ \E ok \in BOOLEAN :
       /\ IF req.prog = "i2cdev" THEN ~ok /\ UNCHANGED fault ELSE Opened(ok)
       /\ Goto("spi_open")
       /\ handles' = IF ok THEN handles \cup {"i2c"} ELSE handles
  /\ i2cSet' = TRUE
  /\ UNCHANGED <<rig, req, i, ret, eepromVars, ddcVars, spiVars>>

(* Opening i2cdev takes the connection string, which an EEPROM's command   *)
(* line leaves uninitialised: it fails, or ends the process.  Whatever     *)
(* fails, main goes on in SPI mode.                                        *)
init_eeprom ==
  /\ pc = "i2c_open"
  /\ \E ok \in BOOLEAN :
       /\ IF req.prog = "i2cdev" THEN ~ok /\ UNCHANGED fault ELSE Opened(ok)
       /\ Goto(IF ok THEN "ee_action" ELSE "spi_open")
       /\ handles' = IF ok THEN handles \cup {"i2c"} ELSE handles
  /\ i2cSet' = TRUE
  /\ UNCHANGED <<rig, req, i, ret, eepromVars, ddcVars, spiVars>>

spi_controller_open ==
  /\ pc = "spi_open"
  /\ \/ /\ req.prog \notin SpiControllers
        /\ Goto("exit1") /\ UNCHANGED <<handles, fault>>
     \/ /\ req.prog = "mstarddc"
        /\ Goto("ddc_parse") /\ UNCHANGED <<handles, fault>>
     \/ /\ req.prog = "ch341a"
        /\ \/ Opened(TRUE) /\ OpenedSpi
           \/ Opened(FALSE) /\ Goto("exit1") /\ UNCHANGED handles
  /\ UNCHANGED <<rig, req, i, ret, eepromVars, ddcVars, spiVars, i2cSet>>

Ddc ==
  /\ mstarddc_parse_connstr \/ ddc_open_i2c \/ mstarddc_spi_enableisp \/ enableisp_end
  /\ UNCHANGED <<eepromVars, spiVars, i2cSet>>

spi_flash_init == (send_opcode \/ transfer_data \/ release) /\ UNCHANGED <<eepromVars, i2cSet>>

Eeprom ==
  /\ do_action \/ i2c_eeprom_read \/ i2c_eeprom_erase \/ i2c_eeprom_write \/ usleep
  /\ UNCHANGED <<ddcVars, spiVars, i2cSet>>

(* The error pointer, after the chip select was released.                  *)
spi_nor_init_dies ==
  /\ ErrorPointer
  /\ EndProcess
  /\ csHeld' = (csHeld /\ req.prog # "mstarddc")
  /\ UNCHANGED <<partVars, isp>>

(* cleanup() shuts the I2C controller down whether or not it was opened.   *)
ShutsDownClosed == pc = "cleanup" /\ i2cSet /\ "i2c" \notin handles

Dies ==
  /\ \/ pc = "i2c_open" /\ req.prog = "i2cdev"
     \/ pc = "ee_action" /\ ActionDies
     \/ FileOverrun
     \/ ShutsDownClosed
  /\ Quit

MutCleanup ==
  /\ pc = "cleanup"
  /\ handles' = handles \ {"i2c", "spi"}
  /\ Goto("exit0")
  /\ UNCHANGED <<rig, req, i, ret, fault, eepromVars, ddcVars, spiVars, i2cSet>>

cleanup ==
  /\ pc = "cleanup"
  /\ handles' = IF req.prog = "mstarddc" THEN mstarddc_spi_shutdown(handles)
                                         ELSE handles \ {"i2c", "spi"}
  /\ Goto("exit0")
  /\ UNCHANGED <<rig, req, i, ret, fault, eepromVars, ddcVars, spiVars, i2cSet>>

Exit == pc \in {"exit0", "exit1"} /\ Quit

(* SIGKILL, between any two transfers. *)
Crash == pc # "idle" /\ Quit

(* The monitor is switched off and on between two commands. *)
MonitorRestarts ==
  /\ pc = "idle" /\ isp
  /\ isp' = FALSE /\ csHeld' = FALSE
  /\ UNCHANGED <<procVars, eepromVars, spiVars, i2cSet>>

PartDone == EepromDone /\ UNCHANGED <<ddcVars, spiVars, i2cSet>>

Program ==
  \/ init_eeprom \/ spi_controller_open \/ Ddc \/ spi_flash_init \/ Eeprom
  \/ spi_nor_init_dies \/ Dies \/ cleanup \/ Exit

Next ==
  \/ \E line \in Lines(rig) : Start(line)
  \/ Program \/ Crash \/ MonitorRestarts \/ PartDone

(* WF_sessionVars(Program), with its ENABLED written out: a process that   *)
(* runs has a next step, unless it sleeps while the part writes.           *)
CanRun == pc # "idle" /\ ~(pc = "ee_sleep" /\ eeBusy)

Scheduled == []<>~CanRun \/ []<><<Program>>_sessionVars

Spec == Init /\ [][Next]_sessionVars /\ Scheduled /\ WF_sessionVars(PartDone)

-----------------------------------------------------------------------------
(* Properties.                                                             *)

RequestType ==
  [eeprom: BOOLEAN, prog: {"none", "unknown"} \cup I2cControllers \cup SpiControllers,
   conn: {"unset", "good", "noat", "badname"}, op: Ops \cup {"none"},
   addr: 0 .. WordSize - 1, haveLen: BOOLEAN, len: 0 .. WordSize - 1]

ProcessTypeOK ==
  /\ rig.eeprom \in BOOLEAN /\ rig.mangle \in BOOLEAN
  /\ pc \in Labels /\ cmd \in Commands /\ req \in RequestType /\ i \in Nat
  /\ ret \in {"ok", "fail"} /\ fault \in Labels \X Commands
  /\ handles \subseteq {"i2c", "spi", "ddc"} /\ i2cSet \in BOOLEAN

EepromTypeOK ==
  /\ ee \in [EeCell -> EeValues] /\ eeBusy \in BOOLEAN
  /\ rbuf \in [FileByte -> EeValues \cup {"zero"}] /\ nak \in BOOLEAN /\ idle0 \in BOOLEAN

SpiTypeOK ==
  /\ isp \in BOOLEAN /\ csHeld \in BOOLEAN /\ (csHeld => isp)
  /\ found \in {NoPart, rig.part} \/ found \in Parts
  /\ heard \in BOOLEAN /\ spiChanged \in BOOLEAN

(* Every variable keeps its type; the monitor holds the chip select only   *)
(* in ISP mode, and what is found is a part of the tables (TLC looks at    *)
(* the two likely ones first).                                             *)
TypeOK == ProcessTypeOK /\ EepromTypeOK /\ SpiTypeOK

(* The table entry the process works with is the part's, kind and geometry *)
(* (spi_flash_init, spi_nand_probe, spi_nor_probe): trying NAND protocols   *)
(* on a NOR part, or the wrong protocol on a NAND part, never matches an   *)
(* entry.  Only the read of the second protocol, whose result is ignored,  *)
(* can be taken for another part when it fails.  And a part of the tables  *)
(* is found unless a transfer failed.                                      *)
RightPart ==
  /\ found # NoPart => found = rig.part \/ fault = <<"data", "id2">>
  /\ pc = "exit1" /\ cmd = "rdid" => rig.part = NoPart \/ fault # NoFault

(* Every SPI command over mstarddc starts in ISP mode with the chip select *)
(* released, although processes are killed in the middle of commands and   *)
(* nobody ever leaves ISP mode (mstarddc_spi_enableisp and _end_command):  *)
(* unless the release of an earlier command of this process failed.        *)
FreshCommand ==
  pc = "opcode" /\ req.prog = "mstarddc" => isp /\ (csHeld => fault[1] = "release")

(* mstarddc_parse_connstr copies the connection string: ui_handle_cmdline  *)
(* has set it on every path that gets there, the one through a failed      *)
(* EEPROM initialisation included.                                         *)
ConnstringGiven == pc = "ddc_parse" => req.conn # "unset"

(* main() changes a SPI part only when asked to change something, and for  *)
(* a command line with -E only when opening the I2C controller failed; a   *)
(* process that exits with an error has not changed it.                    *)
SpiTouchedOnRequest ==
  spiChanged => /\ req.op \in Ops \ {"identify", "read"}
                /\ req.eeprom => fault[1] = "i2c_open"
                /\ pc # "exit1"

(* A process that ran its action exits with every controller closed, the   *)
(* one below mstarddc included, and with the chip select released unless   *)
(* that very transfer failed (cleanup of main.c).                          *)
CleanExit ==
  pc = "exit0" /\ found # NoPart =>
    handles = {} /\ (req.prog = "mstarddc" /\ csHeld => fault[1] = "release")

FromStart == req.addr = 0 /\ EeLen % EePage = 0 /\ EeLen <= EeSize

Undisturbed == rig.eeprom /\ idle0 /\ fault = NoFault

(* Where "Status: OK" of an EEPROM command is true: for whole pages from   *)
(* address 0, a read or a write of a part that was idle when the process   *)
(* began and answered, and an erase none of whose transfers were refused.  *)
DoneTo(off) ==
  \A c \in 0 .. End - 1 : c < off =>
    /\ req.op = "write" /\ Undisturbed => ee[c] = "img"
    /\ req.op = "read" /\ Undisturbed => rbuf[c] = ee[c]
    /\ req.op = "erase" /\ ~nak => ee[c] = "ff"

EepromOkIsDone ==
  pc = "cleanup" /\ "i2c" \in handles /\ ret = "ok" /\ FromStart => DoneTo(End)

(* An erase changes cells of its range, and a write whole pages that its   *)
(* range meets, and only for a command line with -E.                       *)
InRange(c) == \E k \in req.addr .. End - 1 : c = k % EeSize

PageInRange(c) == \E k \in req.addr .. End - 1 : PageOf(c) = PageOf(k % EeSize)

EepromConfinedStep ==
  \A c \in EeCell : ee'[c] # ee[c] =>
    /\ req.eeprom
    /\ req.op = "erase" => InRange(c)
    /\ req.op = "write" => PageInRange(c)

EepromConfined == [][EepromConfinedStep]_sessionVars

(* Every process ends, if the EEPROM ends its write cycles. *)
Terminates == pc # "idle" ~> pc = "idle"

-----------------------------------------------------------------------------
(* The inductive invariants behind the properties, named for what each     *)
(* part says.                                                              *)

DdcLabels == {"ddc_parse", "ddc_i2c", "ddc_mstar", "ddc_end"}
SpiLabels == {"opcode", "data", "release"}

(* Which way through main() a process takes is decided by its programmer.  *)
LineInv ==
  /\ rig \in Rigs
  /\ pc = "i2c_open" => req.prog \in I2cControllers
  /\ pc \in DdcLabels => req.prog = "mstarddc"
  /\ pc \in {"i2c_open", "spi_open"} \cup DdcLabels /\ req.prog = "mstarddc" => req.conn # "unset"
  /\ pc \in SpiLabels => req.op \in Ops /\ req.prog \in SpiControllers
  /\ pc \in {"i2c_open", "spi_open"} \cup DdcLabels => req.op \in Ops

(* The monitor is in ISP mode during SPI commands, and its chip select is  *)
(* released between them.                                                  *)
MonitorInv ==
  /\ isp \in BOOLEAN /\ csHeld \in BOOLEAN /\ (csHeld => isp)
  /\ req.prog = "mstarddc" /\ pc \in SpiLabels => isp
  /\ /\ req.prog = "mstarddc" /\ csHeld
     /\ pc = "opcode" \/ (pc \in {"cleanup", "exit0"} /\ found # NoPart)
     => fault[1] = "release"

(* What is open, and that a part was not found before it was searched.     *)
HandlesInv ==
  /\ handles \subseteq {"i2c", "spi", "ddc"}
  /\ pc = "idle" => handles = {}
  /\ "i2c" \in handles => req.prog # "mstarddc"
  /\ "ddc" \in handles => req.prog = "mstarddc"
  /\ found # NoPart => pc \in SpiLabels \cup {"cleanup", "exit0"} /\ cmd = "op"
  /\ pc = "exit0" /\ found # NoPart => handles = {}

(* The way from a failed EEPROM to a SPI part.                             *)
TouchInv ==
  /\ spiChanged => /\ cmd = "op" /\ pc \in SpiLabels \cup {"cleanup", "exit0"}
                   /\ req.op \in Ops \ {"identify", "read"}
                   /\ req.eeprom => fault[1] = "i2c_open"
  /\ pc = "spi_open" /\ req.eeprom => req.prog = "i2cdev" \/ fault[1] = "i2c_open"
  /\ pc \in DdcLabels \cup SpiLabels /\ req.eeprom => fault[1] = "i2c_open"

SessionInv == LineInv /\ MonitorInv /\ HandlesInv /\ TouchInv

(* The command of an EEPROM: which loop it is in, and that it is inside    *)
(* of its range.                                                           *)
EepromLabels == {"i2c_open", "ee_action", "ee_read", "ee_write", "ee_sleep", "ee_erase"}

LoopOf(label) ==
  CASE label = "ee_read"                 -> "read"
    [] label \in {"ee_write", "ee_sleep"} -> "write"
    [] label = "ee_erase"                -> "erase"

EepromLoopInv ==
  /\ pc \in EepromLabels => req.eeprom /\ req.op \in Ops
  /\ pc \in EepromLabels \ {"i2c_open"} => "i2c" \in handles
  /\ "i2c" \in handles => pc \in (EepromLabels \ {"i2c_open"}) \cup {"cleanup"}
  /\ pc \in EepromLabels \ {"i2c_open", "ee_action"} =>
       req.op = LoopOf(pc) /\ req.addr <= i /\ i < End

(* What it has done so far, and that the part is idle between two pages    *)
(* of a write, and in a read.                                              *)
EepromDoneInv ==
  /\ pc \in {"i2c_open", "ee_action", "ee_read", "ee_write"} /\ idle0 => ~eeBusy
  /\ FromStart /\ pc \in {"ee_write", "ee_sleep"} => i % EePage = 0
  /\ FromStart /\ pc \in {"ee_read", "ee_erase", "ee_write"} => DoneTo(i)
  /\ FromStart /\ pc = "ee_sleep" => DoneTo(i + EePage)
  /\ EepromOkIsDone

(* The search for a SPI part: the answers that an id which was read may be *)
(* made of; a part that was not addressed is silent.                       *)
MayHear == IF fault = NoFault THEN {Answer(rig.part)} ELSE {Answer(rig.part), Answer(NoPart)}

SearchInv ==
  /\ pc \notin SpiLabels \cup {"cleanup", "exit0", "exit1"} => cmd = "none"
  /\ pc \in {"data", "release"} /\ fault = NoFault => ret = "ok"
  /\ pc = "data" /\ fault = NoFault => heard
  /\ pc \in {"opcode", "data"} /\ cmd = "id3" /\ fault = NoFault => id = SecondId(Answer(rig.part))
  /\ pc = "release" =>
       /\ cmd = "id1" /\ ret = "ok" => \E x \in MayHear : id = FirstId(x)
       /\ cmd = "id2" /\ fault # <<"data", "id2">> => \E x \in MayHear : id = SecondId(x)
       /\ cmd = "id3" /\ fault # <<"data", "id2">> =>
            \/ \E x \in MayHear : id \in {FirstId(x), SecondId(x)}
            \/ LET x == Answer(rig.part) IN NotByTwo(x) /\ id \in GarbledIds(x)
       /\ cmd = "rdid" /\ ret = "ok" => \E x \in MayHear : id = JedecId(x)

(* What was tried before, when nothing failed, is not in the tables.       *)
TriedInv ==
  fault = NoFault /\ pc \in SpiLabels \cup {"exit1"} =>
    LET x == Answer(rig.part) IN
      /\ cmd \in {"id2", "id3", "rdid"} => spi_nand_probe_matchid(FirstId(x)) = 0
      /\ cmd \in {"id3", "rdid"} => spi_nand_probe_matchid(SecondId(x)) = 0
      /\ cmd = "rdid" /\ pc = "exit1" => spi_nor_match(JedecId(x)) = 0
=============================================================================
