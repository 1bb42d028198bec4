--------------------------- MODULE SessionProofs ---------------------------
(***************************************************************************)
(* Theorems about Session: for every bench, every set of command lines and *)
(* every EEPROM, the variables keep their types, the monitor is left       *)
(* usable, connection strings are there when needed, the SPI part changes  *)
(* on request only, controllers are closed, an EEPROM command that says OK *)
(* has done its work and no more, and the SPI part found is the one that   *)
(* is there.                                                               *)
(***************************************************************************)
EXTENDS Session, Arithmetic, WellFoundedInduction

-----------------------------------------------------------------------------
(* A transfer went through, with the answer the device gives, or it is the *)
(* one that failed in this process.                                        *)
LEMMA OneFailure ==
  ASSUME NEW acked \in BOOLEAN, NEW reached \in BOOLEAN, NEW ok \in BOOLEAN,
         Outcome(acked, reached, ok)
  PROVE  /\ \/ reached = acked /\ ok = acked /\ fault' = fault
            \/ fault = NoFault /\ fault' = <<pc, cmd>> /\ fault'[1] = pc /\ ~ok /\ (reached => acked)
         /\ \A step : step # "none" /\ fault[1] = step => fault'[1] = step
BY DEF Outcome, NoFault

(* The request of an accepted command line has an operation, and a         *)
(* programmer and connection string that fit.                              *)
LEMMA AcceptedRequest ==
  ASSUME NEW line \in LineType, Accepted(line)
  PROVE  /\ ui_handle_cmdline(line).op \in Ops
         /\ line.eeprom = "known" => ui_handle_cmdline(line).prog \in I2cControllers
         /\ line.eeprom # "known" /\ ui_handle_cmdline(line).prog = "mstarddc"
              => ui_handle_cmdline(line).conn # "unset"
         /\ ui_handle_cmdline(line).eeprom = (line.eeprom = "known")
  <1>1. PICK asked \in Ops : Asks(line, asked)
    BY DEF Accepted, OptionsOk
  <1>2. (CHOOSE op \in Ops : Asks(line, op)) \in Ops
    BY <1>1
  <1>3. line.eeprom \in {"none", "known"}
    BY DEF LineType, Accepted
  <1> QED
    BY <1>2, <1>3 DEF Accepted, ProgrammerOk, ui_handle_cmdline

-----------------------------------------------------------------------------
(* The invariant holds at first, and a process that ends keeps it.         *)
LEMMA InitSession == Init => SessionInv
  <1> SUFFICES ASSUME Init PROVE SessionInv
    OBVIOUS
  <1> USE DEF Init, ProcessInit
  <1>1. LineInv
    BY DEF LineInv, DdcLabels, SpiLabels
  <1>2. MonitorInv
    BY DEF MonitorInv, SpiLabels
  <1>3. HandlesInv
    BY DEF HandlesInv, SpiLabels
  <1>4. TouchInv
    BY DEF TouchInv, DdcLabels, SpiLabels
  <1> QED
    BY <1>1, <1>2, <1>3, <1>4 DEF SessionInv

(* A state without a process satisfies it, if the monitor's part does.     *)
LEMMA EndSession ==
  ASSUME SessionInv, EndProcess, isp' = isp, csHeld' \in BOOLEAN, csHeld' => csHeld
  PROVE  SessionInv'
  <1> USE DEF EndProcess
  <1>1. LineInv'
    BY DEF SessionInv, LineInv, DdcLabels, SpiLabels
  <1>2. MonitorInv'
    BY DEF SessionInv, MonitorInv, SpiLabels
  <1>3. HandlesInv'
    BY DEF HandlesInv, SpiLabels
  <1>4. TouchInv'
    BY DEF TouchInv, DdcLabels, SpiLabels
  <1> QED
    BY <1>1, <1>2, <1>3, <1>4 DEF SessionInv

(* So a killed process keeps it. *)
LEMMA QuitSession == SessionInv /\ Quit => SessionInv'
  BY EndSession DEF Quit, ddcVars, SessionInv, MonitorInv

(* A step that changes nothing of the session. *)
LEMMA StutterSession == SessionInv /\ UNCHANGED sessionVars => SessionInv'
  BY DEF SessionInv, LineInv, MonitorInv, HandlesInv, TouchInv, sessionVars, procVars, ddcVars,
         spiVars, DdcLabels, SpiLabels

-----------------------------------------------------------------------------
(* Each part of main() keeps it.                                           *)
LEMMA StartSession ==
  ASSUME SessionInv, NEW line \in Lines(rig), Start(line)
  PROVE  SessionInv'
  <1> USE DEF Start, Goto, ddcVars, spiVars
  <1>1. line \in LineType
    BY SessionAssumption DEF SessionInv, LineInv
  <1>2. CASE UNCHANGED req /\ pc' \in {"exit0", "exit1"} /\ UNCHANGED cmd
    <2>1. LineInv'
      BY <1>2 DEF SessionInv, LineInv, DdcLabels, SpiLabels
    <2>2. MonitorInv'
      BY <1>2 DEF SessionInv, MonitorInv, HandlesInv, SpiLabels
    <2>3. HandlesInv'
      BY <1>2 DEF SessionInv, HandlesInv, SpiLabels
    <2>4. TouchInv'
      BY <1>2 DEF SessionInv, TouchInv, DdcLabels, SpiLabels
    <2> QED
      BY <2>1, <2>2, <2>3, <2>4 DEF SessionInv
  <1>3. CASE /\ Accepted(line) /\ req' = ui_handle_cmdline(line)
             /\ Goto(IF line.eeprom = "known" THEN "i2c_open" ELSE "spi_open")
    <2>1. LineInv'
      BY <1>1, <1>3, AcceptedRequest
         DEF SessionInv, LineInv, DdcLabels, SpiLabels, I2cControllers
    <2>2. MonitorInv'
      BY <1>3 DEF SessionInv, MonitorInv, HandlesInv, SpiLabels
    <2>3. HandlesInv'
      BY <1>3, <1>1, AcceptedRequest DEF SessionInv, HandlesInv, SpiLabels
    <2>4. TouchInv'
      BY <1>3, <1>1, AcceptedRequest DEF SessionInv, TouchInv, DdcLabels, SpiLabels
    <2> QED
      BY <2>1, <2>2, <2>3, <2>4 DEF SessionInv
  <1> QED
    BY <1>2, <1>3

(* Opening the EEPROM's or the SPI part's controller. *)
LEMMA OpenSession ==
  ASSUME SessionInv, init_eeprom \/ spi_controller_open
  PROVE  SessionInv'
  <1> USE DEF Goto, eepromVars, ddcVars, spiVars
  <1>1. CASE init_eeprom
    <2> USE DEF init_eeprom
    <2>1. PICK ok \in BOOLEAN :
            /\ IF req.prog = "i2cdev" THEN ~ok /\ UNCHANGED fault ELSE Opened(ok)
            /\ Goto(IF ok THEN "ee_action" ELSE "spi_open")
            /\ handles' = IF ok THEN handles \cup {"i2c"} ELSE handles
      BY <1>1
    <2>2. ok \/ req.prog = "i2cdev" \/ fault'[1] = "i2c_open"
      BY <1>1, <2>1, OneFailure DEF Opened
    <2>3. LineInv'
      BY <1>1, <2>1 DEF SessionInv, LineInv, DdcLabels, SpiLabels
    <2>4. MonitorInv'
      BY <1>1, <2>1 DEF SessionInv, MonitorInv, SpiLabels
    <2>5. HandlesInv'
      BY <1>1, <2>1 DEF SessionInv, HandlesInv, LineInv, SpiLabels, I2cControllers
    <2>6. TouchInv'
      BY <1>1, <2>1, <2>2 DEF SessionInv, TouchInv, DdcLabels, SpiLabels
    <2> QED
      BY <2>3, <2>4, <2>5, <2>6 DEF SessionInv
  <1>2. CASE spi_controller_open
    <2> USE DEF spi_controller_open
    <2>1. \/ pc' = "exit1" /\ UNCHANGED <<cmd, handles>>
          \/ req.prog = "mstarddc" /\ pc' = "ddc_parse" /\ UNCHANGED <<cmd, handles, fault>>
          \/ /\ req.prog = "ch341a" /\ pc' = "opcode" /\ cmd' = "id1"
             /\ handles' = handles \cup {"spi"}
      BY <1>2 DEF OpenedSpi
    <2>2. \A step : step # "none" /\ fault[1] = step => fault'[1] = step
      BY <1>2, OneFailure DEF Opened
    <2>3. LineInv'
      BY <1>2, <2>1 DEF SessionInv, LineInv, DdcLabels, SpiLabels, SpiControllers
    <2>4. MonitorInv'
      BY <1>2, <2>1 DEF SessionInv, MonitorInv, SpiLabels
    <2>5. HandlesInv'
      BY <1>2, <2>1 DEF SessionInv, HandlesInv, SpiLabels
    <2>6. TouchInv'
      BY <1>2, <2>1, <2>2 DEF SessionInv, TouchInv, DdcLabels, SpiLabels
    <2> QED
      BY <2>3, <2>4, <2>5, <2>6 DEF SessionInv
  <1> QED
    BY <1>1, <1>2

(* The monitor refuses the word exactly when it is in ISP mode already,    *)
(* and END is sent exactly then: so commands begin with the chip select    *)
(* released.                                                               *)
LEMMA DdcSession ==
  ASSUME SessionInv, Ddc
  PROVE  SessionInv'
  <1> USE DEF Goto, eepromVars, ddcVars, spiVars
  <1>1. pc \in DdcLabels /\ req.prog = "mstarddc" /\ found = NoPart
    BY DEF Ddc, mstarddc_parse_connstr, ddc_open_i2c, mstarddc_spi_enableisp, enableisp_end,
           SessionInv, LineInv, HandlesInv, DdcLabels, SpiLabels
  <1>2. UNCHANGED <<rig, req, ret, i, eepromVars, spiVars, i2cSet>>
    BY DEF Ddc, mstarddc_parse_connstr, ddc_open_i2c, mstarddc_spi_enableisp, enableisp_end
  <1>3. \/ pc' \in DdcLabels \cup {"exit1"} /\ cmd' = cmd
           /\ handles' \in {handles, handles \cup {"ddc"}}
        \/ OpenedSpi
    BY DEF Ddc, mstarddc_parse_connstr, ddc_open_i2c, mstarddc_spi_enableisp, enableisp_end,
           DdcLabels
  <1>4. \A step : step # "none" /\ fault[1] = step => fault'[1] = step
    <2>1. CASE mstarddc_parse_connstr
      BY <2>1 DEF mstarddc_parse_connstr
    <2>2. CASE ddc_open_i2c
      BY <2>2, OneFailure DEF ddc_open_i2c, Opened
    <2>3. CASE mstarddc_spi_enableisp
      BY <2>3, OneFailure DEF mstarddc_spi_enableisp, SessionInv, MonitorInv
    <2>4. CASE enableisp_end
      BY <2>4, OneFailure DEF enableisp_end, mstarddc_spi_end_command, SessionInv, MonitorInv
    <2> QED
      BY <2>1, <2>2, <2>3, <2>4 DEF Ddc
  <1>5. /\ isp' \in BOOLEAN /\ csHeld' \in BOOLEAN /\ (csHeld' => isp')
        /\ pc' = "opcode" => isp' /\ ~csHeld'
    <2>1. CASE mstarddc_parse_connstr \/ ddc_open_i2c
      BY <2>1 DEF mstarddc_parse_connstr, ddc_open_i2c, SessionInv, MonitorInv
    <2>2. CASE mstarddc_spi_enableisp
      BY <2>2 DEF mstarddc_spi_enableisp, Outcome, OpenedSpi, SessionInv, MonitorInv
    <2>3. CASE enableisp_end
      <3>1. PICK reached \in BOOLEAN, ok \in BOOLEAN :
              /\ Outcome(isp, reached, ok)
              /\ csHeld' = (csHeld /\ ~reached) /\ isp' = isp
              /\ IF ok THEN OpenedSpi ELSE Goto("exit1") /\ UNCHANGED handles
        BY <2>3 DEF enableisp_end, mstarddc_spi_end_command
      <3>2. isp \in BOOLEAN /\ csHeld \in BOOLEAN /\ (csHeld => isp)
        BY DEF SessionInv, MonitorInv
      <3>3. ok => reached /\ isp
        BY <3>1, <3>2 DEF Outcome
      <3>4. pc' = "opcode" => ok
        BY <3>1
      <3> QED
        BY <3>1, <3>2, <3>3, <3>4
    <2> QED
      BY <2>1, <2>2, <2>3 DEF Ddc
  <1>6. LineInv'
    BY <1>1, <1>2, <1>3 DEF OpenedSpi, SessionInv, LineInv, DdcLabels, SpiLabels, SpiControllers
  <1>7. MonitorInv'
    BY <1>1, <1>2, <1>3, <1>5 DEF OpenedSpi, MonitorInv, DdcLabels, SpiLabels
  <1>8. HandlesInv'
    BY <1>1, <1>2, <1>3 DEF OpenedSpi, SessionInv, HandlesInv, DdcLabels, SpiLabels
  <1>9. TouchInv'
    BY <1>1, <1>2, <1>3, <1>4 DEF OpenedSpi, SessionInv, TouchInv, DdcLabels, SpiLabels
  <1> QED
    BY <1>6, <1>7, <1>8, <1>9 DEF SessionInv

-----------------------------------------------------------------------------
(* SPI commands.                                                           *)

(* The transfers of a SPI controller leave the monitor in ISP mode; only a *)
(* release that failed leaves its chip select held.                        *)
LEMMA SpiTransfer ==
  ASSUME SessionInv, pc \in SpiLabels, NEW reached \in BOOLEAN, NEW ok \in BOOLEAN,
         \/ spi_controller_write(reached, ok)
         \/ spi_controller_read(reached, ok)
         \/ pc = "release" /\ spi_controller_cs_release(reached, ok)
  PROVE  /\ isp' = isp /\ csHeld' \in BOOLEAN /\ (csHeld' => isp)
         /\ spi_controller_cs_release(reached, ok) /\ pc = "release" /\ req.prog = "mstarddc"
              => (csHeld' => fault'[1] = "release")
         /\ \A step : step # "none" /\ fault[1] = step => fault'[1] = step
  <1> USE DEF ddcVars
  <1>1. isp \in BOOLEAN /\ csHeld \in BOOLEAN /\ (csHeld => isp)
        /\ (req.prog = "mstarddc" => isp)
    BY DEF SessionInv, MonitorInv
  <1>2. Outcome(isp, reached, ok) \/ Outcome(TRUE, reached, ok)
    BY DEF spi_controller_write, spi_controller_read, spi_controller_cs_release,
           mstarddc_spi_write, mstarddc_spi_read, mstarddc_spi_end_command
  <1>3. isp' = isp /\ csHeld' \in BOOLEAN /\ (csHeld' => isp)
    BY <1>1 DEF spi_controller_write, spi_controller_read, spi_controller_cs_release,
           mstarddc_spi_write, mstarddc_spi_read, mstarddc_spi_end_command
  <1>4. ASSUME spi_controller_cs_release(reached, ok), pc = "release", req.prog = "mstarddc", csHeld'
        PROVE  fault'[1] = "release"
    <2>1. Outcome(isp, reached, ok) /\ csHeld' = (csHeld /\ ~reached)
      BY <1>4 DEF spi_controller_cs_release, mstarddc_spi_end_command
    <2>2. isp /\ ~reached
      BY <1>1, <1>4, <2>1
    <2>3. isp = TRUE /\ reached = FALSE
      BY <2>2, <1>1
    <2> QED
      BY <1>1, <1>4, <2>1, <2>3, OneFailure
  <1>5. \A step : step # "none" /\ fault[1] = step => fault'[1] = step
    BY <1>1, <1>2, OneFailure
  <1> QED
    BY <1>3, <1>4, <1>5

(* The opcode of a SPI command. *)
LEMMA OpcodeSession ==
  ASSUME SessionInv, send_opcode, UNCHANGED <<eepromVars, i2cSet>>
  PROVE  SessionInv'
  <1> USE DEF send_opcode, Goto
  <1>1. PICK reached \in BOOLEAN, ok \in BOOLEAN : spi_controller_write(reached, ok)
    OBVIOUS
  <1>2. /\ isp' = isp /\ csHeld' \in BOOLEAN /\ (csHeld' => isp)
        /\ \A step : step # "none" /\ fault[1] = step => fault'[1] = step
    BY <1>1, SpiTransfer DEF SpiLabels
  <1>3. pc = "opcode" /\ pc' \in {"data", "release"} /\ cmd' = cmd
        /\ UNCHANGED <<rig, req, handles, found, spiChanged>>
    OBVIOUS
  <1> HIDE DEF send_opcode, Goto
  <1>4. LineInv'
    BY <1>3 DEF SessionInv, LineInv, DdcLabels, SpiLabels
  <1>5. MonitorInv'
    BY <1>2, <1>3 DEF SessionInv, MonitorInv, SpiLabels
  <1>6. HandlesInv'
    BY <1>3 DEF SessionInv, HandlesInv, SpiLabels
  <1>7. TouchInv'
    BY <1>2, <1>3 DEF SessionInv, TouchInv, DdcLabels, SpiLabels
  <1> QED
    BY <1>4, <1>5, <1>6, <1>7 DEF SessionInv

(* The data of a SPI command, and the answer of a part that is probed. *)
LEMMA DataSession ==
  ASSUME SessionInv, transfer_data, UNCHANGED <<eepromVars, i2cSet>>
  PROVE  SessionInv'
  <1> USE DEF transfer_data, Goto
  <1>1. PICK reached \in BOOLEAN, ok \in BOOLEAN :
          /\ spi_controller_read(reached, ok)
          /\ spiChanged' = (spiChanged \/ (cmd = "op" /\ req.op \notin {"identify", "read"} /\ reached))
    OBVIOUS
  <1>2. /\ isp' = isp /\ csHeld' \in BOOLEAN /\ (csHeld' => isp)
        /\ \A step : step # "none" /\ fault[1] = step => fault'[1] = step
    BY <1>1, SpiTransfer DEF SpiLabels
  <1>3. /\ pc = "data" /\ pc' = "release" /\ cmd' = cmd
        /\ UNCHANGED <<rig, req, handles, found>>
        /\ spiChanged' => spiChanged \/ (cmd = "op" /\ req.op \notin {"identify", "read"})
    BY <1>1
  <1> HIDE DEF transfer_data, Goto
  <1>4. LineInv'
    BY <1>3 DEF SessionInv, LineInv, DdcLabels, SpiLabels
  <1>5. MonitorInv'
    BY <1>2, <1>3 DEF SessionInv, MonitorInv, SpiLabels
  <1>6. HandlesInv'
    BY <1>3 DEF SessionInv, HandlesInv, SpiLabels
  <1>7. TouchInv'
    BY <1>2, <1>3 DEF SessionInv, TouchInv, LineInv, DdcLabels, SpiLabels
  <1> QED
    BY <1>4, <1>5, <1>6, <1>7 DEF SessionInv

(* After the release of a command: the next one, the action, or the end.   *)
LEMMA ReleaseSession ==
  ASSUME SessionInv, release, UNCHANGED <<eepromVars, i2cSet>>
  PROVE  SessionInv'
  <1> USE DEF release
  <1>1. pc = "release" /\ UNCHANGED <<rig, req, handles, spiChanged>>
    OBVIOUS
  <1>2. PICK reached \in BOOLEAN, ok \in BOOLEAN : spi_controller_cs_release(reached, ok)
    OBVIOUS
  <1>3. /\ isp' = isp /\ csHeld' \in BOOLEAN /\ (csHeld' => isp)
        /\ req.prog = "mstarddc" => (csHeld' => fault'[1] = "release")
        /\ \A step : step # "none" /\ fault[1] = step => fault'[1] = step
    BY <1>1, <1>2, SpiTransfer DEF SpiLabels
  <1>4. \/ cmd # "op" /\ pc' = "opcode" /\ (found' # found => cmd' = "op")
        \/ cmd # "op" /\ pc' = "exit1" /\ UNCHANGED <<cmd, found>>
        \/ cmd = "op" /\ cmd' = "op" /\ pc' \in {"opcode", "cleanup"} /\ UNCHANGED found
    BY DEF AfterCommand, AfterProtocol, Command, Found, MatchNand, Goto
  <1> HIDE DEF release
  <1>5. LineInv'
    BY <1>1, <1>4 DEF SessionInv, LineInv, DdcLabels, SpiLabels
  <1>6. MonitorInv'
    BY <1>1, <1>3, <1>4 DEF SessionInv, MonitorInv, SpiLabels
  <1>7. HandlesInv'
    BY <1>1, <1>4 DEF SessionInv, HandlesInv, SpiLabels
  <1>8. TouchInv'
    BY <1>1, <1>3, <1>4 DEF SessionInv, TouchInv, DdcLabels, SpiLabels
  <1> QED
    BY <1>5, <1>6, <1>7, <1>8 DEF SessionInv

-----------------------------------------------------------------------------
(* The EEPROM, the end, and what goes on outside of a process.             *)
LEMMA EepromSession ==
  ASSUME SessionInv, Eeprom
  PROVE  SessionInv'
  <1> USE DEF Goto, Continue, ddcVars, spiVars
  <1> DEFINE EeLabels == {"ee_action", "ee_read", "ee_write", "ee_sleep", "ee_erase"}
  <1>1. /\ pc \in EeLabels /\ pc' \in EeLabels \cup {"cleanup"} /\ cmd' = cmd
        /\ UNCHANGED <<rig, req, handles, isp, csHeld, found, spiChanged>>
    BY DEF Eeprom, do_action, i2c_eeprom_read, i2c_eeprom_erase, i2c_eeprom_write, usleep
  <1>2. ~spiChanged /\ found = NoPart
    BY <1>1 DEF SessionInv, HandlesInv, TouchInv, SpiLabels
  <1>3. LineInv'
    BY <1>1 DEF SessionInv, LineInv, DdcLabels, SpiLabels
  <1>4. MonitorInv'
    BY <1>1, <1>2 DEF SessionInv, MonitorInv, SpiLabels
  <1>5. HandlesInv'
    BY <1>1, <1>2 DEF SessionInv, HandlesInv
  <1>6. TouchInv'
    BY <1>1, <1>2 DEF TouchInv, DdcLabels, SpiLabels
  <1> QED
    BY <1>3, <1>4, <1>5, <1>6 DEF SessionInv

(* Both controllers below a process are closed: it has one of "i2c" and    *)
(* "ddc", never both.                                                      *)
LEMMA CleanupSession ==
  ASSUME SessionInv, cleanup
  PROVE  SessionInv'
  <1> USE DEF cleanup, Goto, eepromVars, ddcVars, spiVars
  <1>1. handles' = {}
    <2>1. handles \subseteq {"i2c", "spi", "ddc"}
          /\ ("i2c" \in handles => req.prog # "mstarddc")
          /\ ("ddc" \in handles => req.prog = "mstarddc")
      BY DEF SessionInv, HandlesInv
    <2>2. handles' = IF req.prog = "mstarddc" THEN handles \ {"spi", "ddc"}
                                              ELSE handles \ {"i2c", "spi"}
      BY DEF mstarddc_spi_shutdown
    <2> QED
      BY <2>1, <2>2
  <1>2. LineInv'
    BY DEF SessionInv, LineInv, DdcLabels, SpiLabels
  <1>3. MonitorInv'
    BY DEF SessionInv, MonitorInv, SpiLabels
  <1>4. HandlesInv'
    BY <1>1 DEF SessionInv, HandlesInv, SpiLabels
  <1>5. TouchInv'
    BY DEF SessionInv, TouchInv, DdcLabels, SpiLabels
  <1> QED
    BY <1>2, <1>3, <1>4, <1>5 DEF SessionInv

(* The EEPROM's write cycle ends, or the bench is changed. *)
LEMMA BenchSession ==
  ASSUME SessionInv, MonitorRestarts \/ PartDone
  PROVE  SessionInv'
  <1> USE DEF eepromVars, ddcVars, spiVars, procVars
  <1>1. /\ UNCHANGED <<rig, pc, cmd, req, handles, fault, found, spiChanged>>
        /\ \/ UNCHANGED <<isp, csHeld>>
           \/ pc = "idle" /\ isp' = FALSE /\ csHeld' = FALSE
    BY DEF MonitorRestarts, PartDone, EepromDone
  <1>2. LineInv'
    BY <1>1 DEF SessionInv, LineInv, DdcLabels, SpiLabels
  <1>3. MonitorInv'
    <2>1. CASE UNCHANGED <<isp, csHeld>>
      BY <1>1, <2>1 DEF SessionInv, MonitorInv, SpiLabels
    <2>2. CASE pc = "idle" /\ isp' = FALSE /\ csHeld' = FALSE
      BY <1>1, <2>2 DEF MonitorInv, SpiLabels
    <2> QED
      BY <1>1, <2>1, <2>2
  <1>4. HandlesInv'
    BY <1>1 DEF SessionInv, HandlesInv, SpiLabels
  <1>5. TouchInv'
    BY <1>1 DEF SessionInv, TouchInv, DdcLabels, SpiLabels
  <1> QED
    BY <1>2, <1>3, <1>4, <1>5 DEF SessionInv

(* Every step keeps the invariant. *)
LEMMA NextSession == SessionInv /\ [Next]_sessionVars => SessionInv'
  <1> SUFFICES ASSUME SessionInv, [Next]_sessionVars PROVE SessionInv'
    OBVIOUS
  <1>1. CASE \E line \in Lines(rig) : Start(line)
    BY <1>1, StartSession
  <1>2. CASE init_eeprom \/ spi_controller_open
    BY <1>2, OpenSession
  <1>3. CASE Ddc
    BY <1>3, DdcSession
  <1>4. CASE spi_flash_init
    BY <1>4, OpcodeSession, DataSession, ReleaseSession DEF spi_flash_init
  <1>5. CASE Eeprom
    BY <1>5, EepromSession
  <1>6. CASE spi_nor_init_dies
    BY <1>6, EndSession DEF spi_nor_init_dies, SessionInv, MonitorInv
  <1>7. CASE cleanup
    BY <1>7, CleanupSession
  <1>8. CASE Dies \/ Exit \/ Crash
    BY <1>8, QuitSession DEF Dies, Exit, Crash
  <1>9. CASE MonitorRestarts \/ PartDone
    BY <1>9, BenchSession
  <1>10. CASE UNCHANGED sessionVars
    BY <1>10, StutterSession
  <1> QED
    BY <1>1, <1>2, <1>3, <1>4, <1>5, <1>6, <1>7, <1>8, <1>9, <1>10 DEF Next, Program

(* So it holds in every run. *)
LEMMA SessionInvariant == Spec => []SessionInv
  BY InitSession, NextSession, PTL DEF Spec

-----------------------------------------------------------------------------
(* Types.                                                                  *)

(* A set of natural numbers that is not empty has a least element.         *)
LEMMA LeastIndex ==
  ASSUME NEW I \in SUBSET Nat, I # {}
  PROVE  Min(I) \in I
  <1> DEFINE R == OpToRel(<, Nat)
  <1>1. \E x \in I : \A y \in I : ~ (<<y, x>> \in R)
    <2>1. IsWellFoundedOn(R, Nat)
      BY NatLessThanWellFounded
    <2> HIDE DEF R
    <2> QED
      BY <2>1, WFMin
  <1>2. \A x, y \in Nat : y < x => <<y, x>> \in R
    BY DEF R, OpToRel
  <1> HIDE DEF R
  <1>3. \E x \in I : \A y \in I : x <= y
    <2>1. PICK x \in I : \A y \in I : ~ (<<y, x>> \in R)
      BY <1>1
    <2>2. \A y \in I : ~ (y < x)
      BY <1>2, <2>1
    <2> QED
      BY <2>2
  <1> QED
    BY <1>3 DEF Min

(* A table entry that matches an id is in the table, and has that id.      *)
LEMMA NandMatch ==
  ASSUME NEW answer, spi_nand_probe_matchid(answer) # 0
  PROVE  LET part == spi_nand_flash_tables[spi_nand_probe_matchid(answer)]
         IN  part \in NandParts /\ answer = <<part.mfr_id, part.dev_id>>
  <1> DEFINE t == spi_nand_flash_tables
             I == {k \in 1 .. Len(t) : answer = <<t[k].mfr_id, t[k].dev_id>>}
  <1>1. t \in Seq(NandType)
    BY NandTable
  <1> HIDE DEF t
  <1>2. I # {} /\ spi_nand_probe_matchid(answer) = Min(I)
    BY DEF spi_nand_probe_matchid, SelectInSeq, t
  <1>3. Min(I) \in I
    <2>1. I \subseteq Nat
      BY <1>1
    <2> HIDE DEF I
    <2> QED
      BY <1>2, <2>1, LeastIndex
  <1>4. t[Min(I)] \in NandParts
    <2>1. NandParts = {t[k] : k \in DOMAIN t}
      BY DEF NandParts, ToSet, t
    <2>2. DOMAIN t = 1 .. Len(t)
      BY <1>1
    <2> QED
      BY <1>3, <2>1, <2>2
  <1> QED
    BY <1>2, <1>3, <1>4 DEF t

LEMMA NorMatch ==
  ASSUME NEW answer, spi_nor_match(answer) # 0
  PROVE  LET part == chips_data[spi_nor_match(answer)]
         IN  part \in NorParts /\ answer = <<part.id, part.jedec>>
  <1> DEFINE t == chips_data
             I == {k \in 1 .. Len(t) : answer = <<t[k].id, t[k].jedec>>}
  <1>1. t \in Seq(NorType)
    BY NorTable
  <1> HIDE DEF t
  <1>2. I # {} /\ spi_nor_match(answer) = Min(I)
    BY DEF spi_nor_match, SelectInSeq, t
  <1>3. Min(I) \in I
    <2>1. I \subseteq Nat
      BY <1>1
    <2> HIDE DEF I
    <2> QED
      BY <1>2, <2>1, LeastIndex
  <1>4. t[Min(I)] \in NorParts
    <2>1. NorParts = {t[k] : k \in DOMAIN t}
      BY DEF NorParts, ToSet, t
    <2>2. DOMAIN t = 1 .. Len(t)
      BY <1>1
    <2> QED
      BY <1>3, <2>1, <2>2
  <1> QED
    BY <1>2, <1>3, <1>4 DEF t

(* The numbers of the EEPROM. *)
LEMMA EepromNumbers ==
  /\ EeSize \in Nat \ {0} /\ EePage \in Nat \ {0} /\ MaxTransfer \in Nat \ {0}
  /\ FileMax \in Nat /\ WordSize \in Nat \ {0} /\ EeSize <= FileMax /\ FileMax < WordSize
  BY EepromAssumption

(* The request of an accepted command line, and of no command line. *)
LEMMA RequestOfLine ==
  /\ NoRequest \in RequestType
  /\ \A line \in LineType : Accepted(line) => ui_handle_cmdline(line) \in RequestType
  <1>1. 0 \in 0 .. WordSize - 1
    BY EepromNumbers
  <1>2. NoRequest \in RequestType
    BY <1>1 DEF NoRequest, RequestType
  <1>3. ASSUME NEW line \in LineType, Accepted(line)
        PROVE  ui_handle_cmdline(line) \in RequestType
    <2> DEFINE r == ui_handle_cmdline(line)
    <2>1. r.op \in Ops
      BY <1>3, AcceptedRequest
    <2>2. r.eeprom \in BOOLEAN
      BY DEF ui_handle_cmdline
    <2>3. r.prog \in {"none", "unknown"} \cup I2cControllers \cup SpiControllers
      BY DEF ui_handle_cmdline, LineType
    <2>4. r.conn \in {"unset", "good", "noat", "badname"}
      BY DEF ui_handle_cmdline, LineType
    <2>5. r.addr \in 0 .. WordSize - 1 /\ r.len \in 0 .. WordSize - 1 /\ r.haveLen \in BOOLEAN
      BY <1>1 DEF ui_handle_cmdline, LineType
    <2>6. r = [eeprom |-> r.eeprom, prog |-> r.prog, conn |-> r.conn, op |-> r.op,
               addr |-> r.addr, haveLen |-> r.haveLen, len |-> r.len]
      BY DEF ui_handle_cmdline
    <2> HIDE DEF r
    <2>7. r \in RequestType
      BY <2>1, <2>2, <2>3, <2>4, <2>5, <2>6 DEF RequestType
    <2> QED
      BY <2>7 DEF r
  <1> QED
    BY <1>2, <1>3

(* A transfer that fails is remembered by its step.                        *)
LEMMA FaultType ==
  ASSUME pc \in Labels, cmd \in Commands, fault \in Labels \X Commands,
         NEW acked, NEW reached, NEW ok, Outcome(acked, reached, ok)
  PROVE  fault' \in Labels \X Commands
  BY DEF Outcome

(* What EndProcess sets. *)
LEMMA EndTypes ==
  ASSUME TypeOK, EndProcess
  PROVE  ProcessTypeOK'
  <1>1. NoRequest \in RequestType /\ NoFault \in Labels \X Commands
    BY RequestOfLine DEF NoFault, Labels, Commands
  <1>2. req' \in RequestType /\ fault' \in Labels \X Commands
    BY <1>1 DEF EndProcess
  <1>3. rig'.eeprom \in BOOLEAN /\ rig'.mangle \in BOOLEAN
    BY DEF EndProcess, TypeOK, ProcessTypeOK
  <1>4. pc' \in Labels /\ cmd' \in Commands /\ i' \in Nat /\ ret' \in {"ok", "fail"}
        /\ handles' \subseteq {"i2c", "spi", "ddc"} /\ i2cSet' \in BOOLEAN
    BY DEF EndProcess, Labels, Commands
  <1> QED
    BY <1>2, <1>3, <1>4 DEF ProcessTypeOK

LEMMA EndEepromTypes ==
  ASSUME ee \in [EeCell -> EeValues], eeBusy \in BOOLEAN, EndProcess, UNCHANGED partVars
  PROVE  EepromTypeOK'
  <1>1. NoFile \in [FileByte -> EeValues \cup {"zero"}]
    BY DEF NoFile
  <1> QED
    BY <1>1 DEF EndProcess, partVars, EepromTypeOK

(* The state at first, and after a step. *)
LEMMA TypeInit == Init => TypeOK
  <1> SUFFICES ASSUME Init PROVE TypeOK
    OBVIOUS
  <1> USE DEF Init, ProcessInit
  <1>1. ProcessTypeOK
    <2>1. NoRequest \in RequestType /\ NoFault \in Labels \X Commands
      BY RequestOfLine DEF NoFault, Labels, Commands
    <2>2. rig.eeprom \in BOOLEAN /\ rig.mangle \in BOOLEAN
      BY SessionAssumption
    <2> QED
      BY <2>1, <2>2 DEF ProcessTypeOK, Labels, Commands
  <1>2. EepromTypeOK
    BY DEF EepromTypeOK, EeValues, NoFile
  <1>3. SpiTypeOK
    BY DEF SpiTypeOK, Parts
  <1> QED
    BY <1>1, <1>2, <1>3 DEF TypeOK

(* The process. *)
LEMMA ProcessTypeStep == TypeOK /\ SessionInv /\ [Next]_sessionVars => ProcessTypeOK'
  <1> SUFFICES ASSUME TypeOK, SessionInv, [Next]_sessionVars PROVE ProcessTypeOK'
    OBVIOUS
  <1> USE DEF TypeOK, ProcessTypeOK, Goto, Labels, Commands, Protocols
  <1>1. ASSUME NEW line \in Lines(rig), Start(line) PROVE ProcessTypeOK'
    <2>1. line \in LineType
      BY SessionAssumption DEF SessionInv, LineInv
    <2> QED
      BY <1>1, <2>1, RequestOfLine DEF Start
  <1>2. CASE init_eeprom
    <2>1. fault' \in Labels \X Commands
      BY <1>2, FaultType DEF init_eeprom, Opened
    <2> QED
      BY <1>2, <2>1 DEF init_eeprom
  <1>3. CASE spi_controller_open
    <2>1. fault' \in Labels \X Commands
      BY <1>3, FaultType DEF spi_controller_open, Opened
    <2> QED
      BY <1>3, <2>1 DEF spi_controller_open, OpenedSpi
  <1>4. CASE Ddc
    <2>1. fault' \in Labels \X Commands
      BY <1>4, FaultType DEF Ddc, mstarddc_parse_connstr, ddc_open_i2c, mstarddc_spi_enableisp,
         enableisp_end, mstarddc_spi_end_command, Opened
    <2>2. /\ UNCHANGED <<rig, req, i, ret, i2cSet>> /\ handles' \subseteq {"i2c", "spi", "ddc"}
          /\ pc' \in Labels /\ cmd' \in Commands
      BY <1>4 DEF Ddc, mstarddc_parse_connstr, ddc_open_i2c, mstarddc_spi_enableisp,
         enableisp_end, OpenedSpi
    <2> QED
      BY <2>1, <2>2
  <1>5. CASE spi_flash_init
    <2>1. fault' \in Labels \X Commands
      BY <1>5, FaultType DEF spi_flash_init, send_opcode, transfer_data, release,
         spi_controller_write, spi_controller_read, spi_controller_cs_release,
         mstarddc_spi_write, mstarddc_spi_read, mstarddc_spi_end_command
    <2>2. /\ UNCHANGED <<rig, req, handles, i2cSet>> /\ ret' \in {"ok", "fail"}
          /\ pc' \in Labels /\ cmd' \in Commands /\ i' \in Nat
      <3>1. CASE send_opcode \/ transfer_data
        BY <1>5, <3>1 DEF spi_flash_init, send_opcode, transfer_data, Result
      <3>2. CASE release
        BY <1>5, <3>2 DEF spi_flash_init, release, AfterCommand, AfterProtocol, Command, Found, MatchNand
      <3> QED
        BY <1>5, <3>1, <3>2 DEF spi_flash_init
    <2> QED
      BY <2>1, <2>2
  <1>6. CASE Eeprom
    <2>1. fault' \in Labels \X Commands
      BY <1>6, FaultType DEF Eeprom, do_action, i2c_eeprom_read, i2c_eeprom_erase,
         i2c_eeprom_write, usleep, EeTransfer
    <2>2. req.addr \in Nat /\ ReadChunk \in Nat
      BY EepromNumbers DEF RequestType, ReadChunk
    <2>3. UNCHANGED <<rig, req, handles, i2cSet, cmd>>
      BY <1>6 DEF Eeprom, do_action, i2c_eeprom_read, i2c_eeprom_erase, i2c_eeprom_write, usleep,
         Continue
    <2>4. ret' \in {"ok", "fail"} /\ pc' \in Labels
      BY <1>6 DEF Eeprom, do_action, i2c_eeprom_read, i2c_eeprom_erase, i2c_eeprom_write, usleep,
         Continue
    <2>5. i' \in {req.addr, i, i + ReadChunk, i + 1, i + EePage}
      BY <1>6 DEF Eeprom, do_action, i2c_eeprom_read, i2c_eeprom_erase, i2c_eeprom_write, usleep,
         Continue
    <2>6. i' \in Nat
      BY <2>2, <2>5, EepromNumbers
    <2> QED
      BY <2>1, <2>3, <2>4, <2>6
  <1>7. CASE spi_nor_init_dies \/ Dies \/ Exit \/ Crash
    BY <1>7, EndTypes DEF spi_nor_init_dies, Dies, Exit, Crash, Quit
  <1>8. CASE cleanup
    BY <1>8 DEF cleanup, mstarddc_spi_shutdown
  <1>9. CASE MonitorRestarts \/ PartDone
    BY <1>9 DEF MonitorRestarts, PartDone, EepromDone, procVars
  <1>10. CASE UNCHANGED sessionVars
    BY <1>10 DEF sessionVars, procVars
  <1> QED
    BY <1>1, <1>2, <1>3, <1>4, <1>5, <1>6, <1>7, <1>8, <1>9, <1>10 DEF Next, Program

(* The EEPROM. *)
LEMMA EepromTypeStep == TypeOK /\ [Next]_sessionVars => EepromTypeOK'
  <1> SUFFICES ASSUME TypeOK, [Next]_sessionVars PROVE EepromTypeOK'
    OBVIOUS
  <1> USE DEF TypeOK, EepromTypeOK
  <1>1. CASE UNCHANGED <<ee, eeBusy, rbuf, nak>> /\ idle0' \in {idle0, ~eeBusy}
    BY <1>1
  <1>2. CASE i2c_eeprom_read
    <2>1. PICK reached \in BOOLEAN :
            /\ nak' \in BOOLEAN
            /\ rbuf' = [k \in FileByte |-> IF reached /\ k \in i .. i + ReadLen - 1 /\ k < EeLen
                                           THEN ee[k % EeSize] ELSE rbuf[k]]
      BY <1>2 DEF i2c_eeprom_read, EeTransfer
    <2>2. \A k \in FileByte : k % EeSize \in EeCell
      BY EepromNumbers DEF FileByte, EeCell
    <2>3. rbuf' \in [FileByte -> EeValues \cup {"zero"}]
      BY <2>1, <2>2
    <2> QED
      BY <1>2, <2>1, <2>3 DEF i2c_eeprom_read, partVars
  <1>3. CASE i2c_eeprom_erase
    BY <1>3 DEF i2c_eeprom_erase, EeTransfer, Changes, partVars, EeValues
  <1>4. CASE i2c_eeprom_write
    BY <1>4 DEF i2c_eeprom_write, EeTransfer, Changes, partVars, EeValues
  <1>5. CASE PartDone
    BY <1>5 DEF PartDone, EepromDone
  <1>6. CASE EndProcess /\ UNCHANGED partVars
    BY <1>6, EndEepromTypes
  <1> QED
    BY <1>1, <1>2, <1>3, <1>4, <1>5, <1>6
       DEF Next, Program, Start, init_eeprom, spi_controller_open, Ddc, spi_flash_init, Eeprom,
           do_action, usleep, spi_nor_init_dies, Dies, Exit, Crash, Quit, cleanup, MonitorRestarts,
           eepromVars, partVars, sessionVars

(* What is known of the SPI side. *)
LEMMA SpiTypeStep == TypeOK /\ SessionInv /\ SessionInv' /\ [Next]_sessionVars => SpiTypeOK'
  <1> SUFFICES ASSUME TypeOK, SessionInv, SessionInv', [Next]_sessionVars PROVE SpiTypeOK'
    OBVIOUS
  <1>1. isp' \in BOOLEAN /\ csHeld' \in BOOLEAN /\ (csHeld' => isp')
    BY DEF SessionInv, MonitorInv
  <1>2. found' \in Parts /\ heard' \in BOOLEAN /\ spiChanged' \in BOOLEAN
    <2>0. found \in Parts /\ heard \in BOOLEAN /\ spiChanged \in BOOLEAN
      <3>1. rig.part \in Parts
        BY SessionAssumption DEF SessionInv, LineInv
      <3> QED
        BY <3>1 DEF TypeOK, SpiTypeOK, Parts
    <2>1. CASE UNCHANGED <<found, heard, spiChanged>>
      BY <2>0, <2>1
    <2>2. CASE send_opcode
      BY <2>0, <2>2 DEF send_opcode
    <2>3. CASE transfer_data
      BY <2>0, <2>3 DEF transfer_data
    <2>4. CASE release
      <3>1. \/ found' = found
            \/ /\ spi_nand_probe_matchid(id) # 0
               /\ found' = spi_nand_flash_tables[spi_nand_probe_matchid(id)]
            \/ /\ spi_nor_match(id) # 0
               /\ found' = chips_data[spi_nor_match(id)]
        BY <2>4 DEF release, AfterCommand, AfterProtocol, Command, Found, MatchNand
      <3> QED
        BY <2>0, <2>4, <3>1, NandMatch, NorMatch DEF release, Parts
    <2>5. CASE EndProcess
      BY <2>5 DEF EndProcess, Parts
    <2> QED
      BY <2>1, <2>2, <2>3, <2>4, <2>5
         DEF Next, Program, Start, init_eeprom, spi_controller_open, Ddc, spi_flash_init, Eeprom,
             mstarddc_parse_connstr, ddc_open_i2c, mstarddc_spi_enableisp, enableisp_end,
             spi_nor_init_dies, Dies, Exit, Crash, Quit, cleanup, MonitorRestarts,
             PartDone, spiVars, sessionVars
  <1> QED
    BY <1>1, <1>2 DEF SpiTypeOK

(* Every variable keeps its type.                                          *)
THEOREM SessionTypeCorrect == Spec => []TypeOK
  <1>1. TypeOK /\ SessionInv /\ SessionInv' /\ [Next]_sessionVars => TypeOK'
    BY ProcessTypeStep, EepromTypeStep, SpiTypeStep DEF TypeOK
  <1> QED
    BY <1>1, TypeInit, SessionInvariant, PTL DEF Spec

-----------------------------------------------------------------------------
(* The EEPROM's commands.                                                  *)

(* The numbers of a request. *)
LEMMA RangeNumbers ==
  ASSUME TypeOK
  PROVE  /\ req.addr \in Nat /\ EeLen \in Nat /\ End \in Nat /\ i \in Nat /\ ReadChunk \in Nat \ {0}
         /\ FromStart => End = EeLen /\ End <= EeSize
  <1>1. req.addr \in 0 .. WordSize - 1 /\ req.len \in 0 .. WordSize - 1 /\ i \in Nat
    BY DEF TypeOK, ProcessTypeOK, RequestType
  <1>2. EeLen \in Nat
    BY <1>1, EepromNumbers DEF EeLen
  <1>3. End \in Nat
    BY <1>1, <1>2, EepromNumbers DEF End
  <1>4. ASSUME FromStart PROVE End = EeLen
    <2>1. req.addr = 0 /\ EeLen < WordSize
      BY <1>2, <1>4, EepromNumbers DEF FromStart
    <2>2. End = EeLen % WordSize
      BY <1>2, <2>1 DEF End
    <2> QED
      BY <1>2, <2>1, <2>2, EepromNumbers
  <1>5. ReadChunk \in Nat \ {0}
    BY EepromNumbers DEF ReadChunk
  <1> QED
    BY <1>1, <1>2, <1>3, <1>4, <1>5 DEF FromStart

(* A range does not move during a command. *)
LEMMA SameRange == UNCHANGED req => EeLen' = EeLen /\ End' = End /\ FromStart' = FromStart
  BY DEF EeLen, End, FromStart

(* Each loop stays inside its range. *)
LEMMA EepromLoopStep ==
  ASSUME TypeOK, SessionInv, EepromLoopInv, [Next]_sessionVars
  PROVE  EepromLoopInv'
  <1> USE DEF EepromLoopInv, EepromLabels, LoopOf, Goto
  <1>1. ASSUME NEW line \in Lines(rig), Start(line) PROVE EepromLoopInv'
    <2>1. line \in LineType
      BY SessionAssumption DEF SessionInv, LineInv
    <2>2. handles' = {}
      BY <1>1 DEF Start, SessionInv, HandlesInv
    <2>3. pc' = "i2c_open" => req'.eeprom /\ req'.op \in Ops
      BY <1>1, <2>1, AcceptedRequest DEF Start
    <2>4. pc' \in {"exit0", "exit1", "i2c_open", "spi_open"}
      BY <1>1 DEF Start
    <2> QED
      BY <2>2, <2>3, <2>4
  <1>2. CASE init_eeprom
    BY <1>2 DEF init_eeprom
  <1>3. CASE spi_controller_open
    BY <1>3 DEF spi_controller_open, OpenedSpi
  <1>4. CASE Ddc
    <2>1. pc \notin EepromLabels \cup {"cleanup"} /\ pc' \notin EepromLabels
          /\ handles' \subseteq handles \cup {"spi", "ddc"}
      BY <1>4 DEF Ddc, mstarddc_parse_connstr, ddc_open_i2c, mstarddc_spi_enableisp, enableisp_end,
         OpenedSpi
    <2> QED
      BY <2>1
  <1>5. CASE spi_flash_init
    <2>1. pc \notin EepromLabels \cup {"cleanup"} /\ pc' \notin EepromLabels /\ handles' = handles
      BY <1>5 DEF spi_flash_init, send_opcode, transfer_data, release, AfterCommand, AfterProtocol,
         Command, Found, MatchNand
    <2> QED
      BY <2>1
  <1>6. CASE Eeprom
    <2>1. UNCHANGED <<req, handles>> /\ End' = End /\ "i2c" \in handles /\ req.eeprom /\ req.op \in Ops
      BY <1>6, SameRange DEF Eeprom, do_action, i2c_eeprom_read, i2c_eeprom_erase, i2c_eeprom_write,
         usleep
    <2>2. req.addr \in Nat /\ i \in Nat /\ ReadChunk \in Nat /\ EePage \in Nat
      BY RangeNumbers, EepromNumbers
    <2>3. pc' \in {"ee_read", "ee_write", "ee_sleep", "ee_erase", "cleanup"}
      BY <1>6 DEF Eeprom, do_action, i2c_eeprom_read, i2c_eeprom_erase, i2c_eeprom_write, usleep,
         Continue
    <2>4. pc' # "cleanup" => req.op = LoopOf(pc') /\ req.addr <= i' /\ i' < End
      <3> USE DEF Continue
      <3>1. CASE do_action
        BY <2>2, <3>1 DEF do_action
      <3>2. CASE i2c_eeprom_read
        BY <2>2, <3>2 DEF i2c_eeprom_read
      <3>3. CASE i2c_eeprom_erase
        <4>1. pc = "ee_erase" /\ Continue(i + 1, "ee_erase")
          BY <3>3 DEF i2c_eeprom_erase
        <4> QED
          BY <2>2, <4>1
      <3>4. CASE i2c_eeprom_write
        BY <2>2, <3>4 DEF i2c_eeprom_write
      <3>5. CASE usleep
        BY <2>2, <3>5 DEF usleep
      <3> QED
        BY <1>6, <3>1, <3>2, <3>3, <3>4, <3>5 DEF Eeprom
    <2> QED
      BY <2>1, <2>3, <2>4
  <1>7. CASE cleanup
    BY <1>7 DEF cleanup, mstarddc_spi_shutdown, SessionInv, HandlesInv
  <1>8. CASE spi_nor_init_dies \/ Dies \/ Exit \/ Crash
    BY <1>8 DEF spi_nor_init_dies, Dies, Exit, Crash, Quit, EndProcess
  <1>9. CASE UNCHANGED <<pc, req, i, handles>>
    BY <1>9, SameRange
  <1> QED
    BY <1>1, <1>2, <1>3, <1>4, <1>5, <1>6, <1>7, <1>8, <1>9
       DEF Next, Program, MonitorRestarts, PartDone, EepromDone, procVars, sessionVars

(* A loop goes on where it is done, or ends.                               *)
LEMMA LoopContinues ==
  ASSUME TypeOK, TypeOK', UNCHANGED <<req, idle0>>, FromStart => DoneTo(i)',
         NEW again \in {"ee_read", "ee_write", "ee_erase"}, NEW off, Continue(off, again),
         again = "ee_write" => (FromStart => i' % EePage = 0),
         again \in {"ee_read", "ee_write"} => (idle0 => ~eeBusy')
  PROVE  EepromDoneInv'
  <1>1. FromStart' = FromStart /\ i' = off /\ End' = End
    BY SameRange DEF Continue
  <1>2. pc' = again \/ (pc' = "cleanup" /\ ~(i' < End'))
    BY <1>1 DEF Continue, Goto
  <1>3. ASSUME FromStart', ~(i' < End') PROVE DoneTo(End)'
    <2>1. i' \in Nat /\ End' \in Nat
      BY <1>1, RangeNumbers DEF TypeOK, ProcessTypeOK
    <2> HIDE DEF End
    <2>2. \A m, n \in Nat : ~(m < n) => \A c \in 0 .. n - 1 : c < m
      OBVIOUS
    <2>3. \A c \in 0 .. End' - 1 : c < i'
      BY <1>3, <2>1, <2>2
    <2> QED
      BY <1>1, <1>3, <2>3 DEF DoneTo
  <1>4. EepromOkIsDone'
    BY <1>2, <1>3 DEF EepromOkIsDone
  <1> QED
    BY <1>1, <1>2, <1>4 DEF EepromDoneInv

(* A chunk of a read, into the file.                                       *)
LEMMA ReadDone ==
  ASSUME TypeOK, EepromLoopInv, EepromDoneInv, i2c_eeprom_read, FromStart
  PROVE  DoneTo(i)'
  <1> USE DEF i2c_eeprom_read
  <1>1. req.op = "read" /\ UNCHANGED <<rig, req, idle0, ee, eeBusy>> /\ i' = i + ReadChunk /\ End' = End
    BY SameRange DEF EepromLoopInv, EepromLabels, LoopOf, partVars, Continue
  <1> SUFFICES ASSUME NEW c \in 0 .. End - 1, c < i + ReadChunk, Undisturbed' PROVE rbuf'[c] = ee[c]
    BY <1>1 DEF DoneTo
  <1>2. PICK reached \in BOOLEAN :
          /\ EeTransfer(reached)
          /\ rbuf' = [k \in FileByte |-> IF reached /\ k \in i .. i + ReadLen - 1 /\ k < EeLen
                                         THEN ee[k % EeSize] ELSE rbuf[k]]
    OBVIOUS
  <1>3. reached /\ Undisturbed
    <2>1. ~eeBusy /\ rig.eeprom /\ fault' = NoFault /\ idle0
      BY <1>1 DEF EepromDoneInv, Undisturbed
    <2>2. PICK ok \in BOOLEAN : Outcome(rig.eeprom /\ ~eeBusy, reached, ok)
      BY <1>2 DEF EeTransfer
    <2>3. rig.eeprom \in BOOLEAN /\ eeBusy \in BOOLEAN
      BY DEF TypeOK, ProcessTypeOK, EepromTypeOK
    <2>4. fault' = fault /\ reached = (rig.eeprom /\ ~eeBusy)
      BY <1>1, <2>1, <2>2 DEF Outcome, NoFault
    <2> QED
      BY <2>1, <2>3, <2>4 DEF Undisturbed
  <1>4. End = EeLen /\ End <= EeSize /\ End \in Nat /\ i \in Nat /\ ReadChunk \in Nat
    BY RangeNumbers
  <1>5. c \in FileByte /\ c % EeSize = c /\ c < EeLen
    BY <1>4, EepromNumbers DEF FileByte
  <1>6. CASE c < i
    <2>1. rbuf'[c] = rbuf[c]
      BY <1>2, <1>4, <1>5, <1>6
    <2> QED
      BY <1>1, <1>3, <1>6, <2>1 DEF EepromDoneInv, DoneTo
  <1>7. CASE ~(c < i)
    <2>1. c \in i .. i + ReadLen - 1
      BY <1>4, <1>7 DEF ReadLen, Least
    <2> QED
      BY <1>2, <1>3, <1>5, <2>1
  <1> QED
    BY <1>6, <1>7

(* A byte of an erase. *)
LEMMA EraseDone ==
  ASSUME TypeOK, EepromLoopInv, EepromDoneInv, i2c_eeprom_erase, FromStart
  PROVE  DoneTo(i)'
  <1>1. /\ pc = "ee_erase" /\ req.op = "erase" /\ UNCHANGED req /\ i' = i + 1 /\ End' = End
        /\ i < End
    BY SameRange DEF i2c_eeprom_erase, EepromLoopInv, EepromLabels, LoopOf, Continue
  <1> SUFFICES ASSUME NEW c \in 0 .. End - 1, c < i + 1, ~nak' PROVE ee'[c] = "ff"
    BY <1>1 DEF DoneTo
  <1>2. PICK reached \in BOOLEAN :
          /\ EeTransfer(reached)
          /\ reached => ee' = [k \in EeCell |-> IF k \in {i % EeSize} THEN "ff" ELSE ee[k]]
    BY DEF i2c_eeprom_erase, Changes
  <1>3. reached /\ ~nak
    BY <1>2 DEF EeTransfer, Outcome, TypeOK, ProcessTypeOK, EepromTypeOK
  <1>4. End <= EeSize /\ End \in Nat /\ i \in Nat
    BY RangeNumbers
  <1>5. i % EeSize = i /\ c \in EeCell
    BY <1>1, <1>4, EepromNumbers DEF EeCell
  <1>6. ee' = [k \in EeCell |-> IF k \in {i} THEN "ff" ELSE ee[k]]
    BY <1>2, <1>3, <1>5
  <1>7. c < i => ee[c] = "ff"
    BY <1>1, <1>3 DEF EepromDoneInv, DoneTo
  <1> QED
    BY <1>4, <1>5, <1>6, <1>7

(* The byte of the file that goes to a cell of the page is the one meant.  *)
LEMMA PageCells ==
  ASSUME TypeOK, i % EePage = 0, i < EeSize, NEW c \in EeCell
  PROVE  /\ PageOf(c) = PageOf(i % EeSize) <=> i <= c /\ c < i + EePage
         /\ i <= c /\ c < i + EePage => FileByteFor(c) = c
  <1> DEFINE q == i \div EePage
  <1>1. i \in Nat /\ EePage \in Nat \ {0} /\ c \in Nat /\ i % EeSize = i
    BY RangeNumbers, EepromNumbers DEF EeCell
  <1>2. q \in Nat /\ i = q * EePage
    <2>1. q \in Nat /\ i = q * EePage + (i % EePage)
      BY <1>1, DivMod
    <2> HIDE DEF q
    <2>2. q * EePage \in Nat
      BY <1>1, <2>1
    <2> QED
      BY <2>1, <2>2
  <1> HIDE DEF q
  <1>3. \A k \in Nat : k \div EePage = q <=> i <= k /\ k < i + EePage
    BY <1>1, <1>2, QuotientInterval
  <1>4. PageOf(c) = PageOf(i % EeSize) <=> i <= c /\ c < i + EePage
    BY <1>1, <1>3 DEF PageOf, q
  <1>5. ASSUME i <= c, c < i + EePage PROVE FileByteFor(c) = c
    <2>1. \A k \in i .. i + EePage - 1 : k % EePage = c % EePage => k = c
      <3> SUFFICES ASSUME NEW k \in i .. i + EePage - 1, k % EePage = c % EePage PROVE k = c
        OBVIOUS
      <3>1. k \in Nat /\ i <= k /\ k < i + EePage
        BY <1>1
      <3>2. k \div EePage = q /\ c \div EePage = q
        BY <1>1, <1>3, <1>5, <3>1
      <3>3. k = q * EePage + (k % EePage) /\ c = q * EePage + (c % EePage)
        BY <1>1, <3>1, <3>2, DivMod
      <3>4. q * EePage \in Nat
        BY <1>1, <1>2
      <3> QED
        BY <1>1, <3>1, <3>3, <3>4
    <2>2. c \in i .. i + EePage - 1
      BY <1>1, <1>5
    <2> QED
      BY <2>1, <2>2 DEF FileByteFor
  <1> QED
    BY <1>4, <1>5

(* A page of a write. *)
LEMMA WriteDone ==
  ASSUME TypeOK, EepromLoopInv, EepromDoneInv, i2c_eeprom_write, FromStart
  PROVE  DoneTo(i + EePage)'
  <1>1. /\ pc = "ee_write" /\ req.op = "write" /\ UNCHANGED <<rig, req, idle0, i>> /\ End' = End
        /\ i < End /\ i % EePage = 0
    BY SameRange DEF i2c_eeprom_write, EepromLoopInv, EepromDoneInv, EepromLabels, LoopOf
  <1> SUFFICES ASSUME NEW c \in 0 .. End - 1, c < i + EePage, Undisturbed' PROVE ee'[c] = "img"
    BY <1>1 DEF DoneTo
  <1>2. PICK reached \in BOOLEAN :
          /\ EeTransfer(reached)
          /\ reached => ee' = [k \in EeCell |->
                                  IF k \in {d \in EeCell : PageOf(d) = PageOf(i % EeSize)}
                                  THEN IF Meant(k) THEN "img" ELSE "bad" ELSE ee[k]]
    BY DEF i2c_eeprom_write, Changes
  <1>3. reached /\ Undisturbed
    <2>1. ~eeBusy /\ rig.eeprom /\ fault' = NoFault /\ idle0
      BY <1>1 DEF EepromDoneInv, Undisturbed
    <2>2. PICK ok \in BOOLEAN : Outcome(rig.eeprom /\ ~eeBusy, reached, ok)
      BY <1>2 DEF EeTransfer
    <2>3. rig.eeprom \in BOOLEAN /\ eeBusy \in BOOLEAN
      BY DEF TypeOK, ProcessTypeOK, EepromTypeOK
    <2>4. fault' = fault /\ reached = (rig.eeprom /\ ~eeBusy)
      BY <1>1, <2>1, <2>2 DEF Outcome, NoFault
    <2> QED
      BY <2>1, <2>3, <2>4 DEF Undisturbed
  <1>4. End = EeLen /\ End <= EeSize /\ End \in Nat /\ i \in Nat
    BY RangeNumbers
  <1>5. c \in EeCell /\ c < EeLen /\ i < EeSize
    BY <1>1, <1>4, EepromNumbers DEF EeCell
  <1>6. ee'[c] = IF PageOf(c) = PageOf(i % EeSize) THEN IF Meant(c) THEN "img" ELSE "bad"
                 ELSE ee[c]
    BY <1>2, <1>3, <1>5
  <1>7. CASE i <= c
    <2>1. PageOf(c) = PageOf(i % EeSize) /\ FileByteFor(c) = c
      BY <1>1, <1>5, <1>7, PageCells
    <2>2. Meant(c)
      BY <1>5, <2>1 DEF Meant, FromStart
    <2> QED
      BY <1>6, <2>1, <2>2
  <1>8. CASE c < i
    <2>1. PageOf(c) # PageOf(i % EeSize)
      BY <1>1, <1>4, <1>5, <1>8, PageCells DEF EeCell
    <2> QED
      BY <1>1, <1>3, <1>6, <1>8, <2>1 DEF EepromDoneInv, DoneTo
  <1> QED
    BY <1>4, <1>7, <1>8

(* What the EEPROM's loops have done, step by step.                        *)
LEMMA EepromDoneStep ==
  ASSUME TypeOK, TypeOK', SessionInv, EepromLoopInv, EepromLoopInv', EepromDoneInv,
         [Next]_sessionVars
  PROVE  EepromDoneInv'
  <1> USE DEF Goto
  <1>1. CASE do_action /\ UNCHANGED <<ddcVars, spiVars, i2cSet>>
    <2>1. UNCHANGED <<req, idle0, eeBusy>> /\ i' = req.addr
      BY <1>1 DEF do_action, Continue, eepromVars
    <2>2. FromStart => i' = 0 /\ i' % EePage = 0
      BY <2>1, ZeroMultiple, EepromNumbers DEF FromStart
    <2>3. FromStart => DoneTo(i)'
      <3>1. End' \in Nat
        BY <2>1, SameRange, RangeNumbers
      <3> QED
        BY <2>2, <3>1 DEF DoneTo
    <2>4. idle0 => ~eeBusy'
      BY <1>1, <2>1 DEF do_action, EepromDoneInv
    <2>5. CASE \E again \in {"ee_read", "ee_write", "ee_erase"} : Continue(req.addr, again)
      BY <2>1, <2>2, <2>3, <2>4, <2>5, LoopContinues
    <2>6. CASE pc' = "cleanup" /\ ret' = "fail"
      BY <2>6 DEF EepromDoneInv, EepromOkIsDone
    <2> QED
      BY <1>1, <2>5, <2>6 DEF do_action
  <1>2. CASE i2c_eeprom_read
    <2>1. UNCHANGED <<req, idle0, eeBusy>> /\ Continue(i + ReadChunk, "ee_read")
      BY <1>2 DEF i2c_eeprom_read, partVars
    <2>2. idle0 => ~eeBusy'
      BY <1>2, <2>1 DEF i2c_eeprom_read, EepromDoneInv
    <2> QED
      BY <1>2, <2>1, <2>2, ReadDone, LoopContinues
  <1>3. CASE i2c_eeprom_erase
    <2>1. UNCHANGED <<req, idle0>> /\ Continue(i + 1, "ee_erase")
      BY <1>3 DEF i2c_eeprom_erase
    <2> QED
      BY <1>3, <2>1, EraseDone, LoopContinues
  <1>4. CASE i2c_eeprom_write
    <2>1. pc = "ee_write" /\ pc' = "ee_sleep" /\ UNCHANGED <<req, i>>
      BY <1>4 DEF i2c_eeprom_write
    <2> QED
      BY <1>4, <2>1, WriteDone, SameRange DEF EepromDoneInv, EepromOkIsDone
  <1>5. CASE usleep
    <2>1. /\ pc = "ee_sleep" /\ ~eeBusy /\ UNCHANGED <<rig, req, fault, ee, eeBusy, rbuf, nak, idle0>>
          /\ Continue(i + EePage, "ee_write") /\ i' = i + EePage
      BY <1>5 DEF usleep, eepromVars, Continue
    <2>2. FromStart => i' % EePage = 0
      BY <2>1, NextMultiple, RangeNumbers, EepromNumbers DEF EepromDoneInv
    <2>3. FromStart => DoneTo(i)'
      BY <2>1, SameRange DEF EepromDoneInv, DoneTo, Undisturbed
    <2> QED
      BY <2>1, <2>2, <2>3, LoopContinues
  <1>6. CASE PartDone
    BY <1>6, SameRange DEF PartDone, EepromDone, procVars, EepromDoneInv, EepromOkIsDone, DoneTo,
       Undisturbed
  <1>7. CASE EndProcess
    BY <1>7 DEF EndProcess, EepromDoneInv, EepromOkIsDone
  <1>8. ASSUME NEW line \in Lines(rig), Start(line) PROVE EepromDoneInv'
    <2>1. pc' \in {"exit0", "exit1", "i2c_open", "spi_open"} /\ idle0' = ~eeBusy /\ eeBusy' = eeBusy
      BY <1>8 DEF Start, partVars
    <2> QED
      BY <2>1 DEF EepromDoneInv, EepromOkIsDone
  <1>9. CASE init_eeprom
    <2>1. pc = "i2c_open" /\ pc' \in {"ee_action", "spi_open"} /\ UNCHANGED <<eeBusy, idle0>>
      BY <1>9 DEF init_eeprom, eepromVars
    <2> QED
      BY <2>1 DEF EepromDoneInv, EepromOkIsDone
  <1>10. CASE spi_controller_open \/ Ddc \/ spi_flash_init \/ cleanup
    <2>1. pc' \notin EepromLabels /\ (pc' = "cleanup" => "i2c" \notin handles')
      <3>1. CASE spi_controller_open
        BY <3>1 DEF spi_controller_open, OpenedSpi, EepromLabels
      <3>2. CASE Ddc
        BY <3>2 DEF Ddc, mstarddc_parse_connstr, ddc_open_i2c, mstarddc_spi_enableisp,
           enableisp_end, OpenedSpi, EepromLabels
      <3>3. CASE spi_flash_init
        <4>1. pc \in SpiLabels /\ handles' = handles /\ pc' \notin EepromLabels
          BY <3>3 DEF spi_flash_init, send_opcode, transfer_data, release, AfterCommand,
             AfterProtocol, Command, Found, MatchNand, EepromLabels, SpiLabels
        <4> QED
          BY <4>1 DEF EepromLoopInv, EepromLabels, SpiLabels
      <3>4. CASE cleanup
        BY <3>4 DEF cleanup, EepromLabels
      <3> QED
        BY <1>10, <3>1, <3>2, <3>3, <3>4
    <2> QED
      BY <2>1 DEF EepromDoneInv, EepromOkIsDone, EepromLabels
  <1>11. CASE UNCHANGED <<procVars, eepromVars>>
    BY <1>11, SameRange DEF procVars, eepromVars, EepromDoneInv, EepromOkIsDone, DoneTo, Undisturbed
  <1> QED
    BY <1>1, <1>2, <1>3, <1>4, <1>5, <1>6, <1>7, <1>8, <1>9, <1>10, <1>11
       DEF Next, Program, Eeprom, spi_nor_init_dies, Dies, Exit, Crash, Quit, MonitorRestarts,
           sessionVars

(* Every invariant of a session. *)
LEMMA EepromInvariants == Spec => [](TypeOK /\ SessionInv /\ EepromLoopInv /\ EepromDoneInv)
  <1>1. Init => EepromLoopInv /\ EepromDoneInv
    BY DEF Init, ProcessInit, EepromLoopInv, EepromLabels, EepromDoneInv, EepromOkIsDone
  <1>2. /\ TypeOK /\ TypeOK' /\ SessionInv /\ EepromLoopInv /\ EepromDoneInv /\ [Next]_sessionVars
        => EepromLoopInv' /\ EepromDoneInv'
    BY EepromLoopStep, EepromDoneStep
  <1> QED
    BY <1>1, <1>2, SessionTypeCorrect, SessionInvariant, PTL DEF Spec

(* "Status: OK" of an EEPROM command is true: for whole pages from address *)
(* 0, a read or write of an idle part that answers, and an erase of which  *)
(* nothing was refused (i2c_eeprom_read, _erase and _write).               *)
THEOREM EepromCorrect == Spec => []EepromOkIsDone
  <1>1. EepromDoneInv => EepromOkIsDone
    BY DEF EepromDoneInv
  <1> QED
    BY <1>1, EepromInvariants, PTL

(* No step changes a cell outside of the range of an erase, or of the      *)
(* pages a write meets, nor any without -E.                                *)
THEOREM EepromConfines == Spec => EepromConfined
  <1>1. TypeOK /\ EepromLoopInv /\ [Next]_sessionVars => EepromConfinedStep
    <2> SUFFICES ASSUME TypeOK, EepromLoopInv, [Next]_sessionVars, NEW c \in EeCell, ee'[c] # ee[c]
                 PROVE  /\ req.eeprom
                        /\ req.op = "erase" => InRange(c)
                        /\ req.op = "write" => PageInRange(c)
      BY DEF EepromConfinedStep
    <2>1. i2c_eeprom_erase \/ i2c_eeprom_write
      BY DEF Next, Program, Start, init_eeprom, spi_controller_open, Ddc, spi_flash_init, Eeprom,
             do_action, i2c_eeprom_read, usleep, spi_nor_init_dies, Dies, Exit, Crash, Quit,
             cleanup, MonitorRestarts, PartDone, EepromDone, eepromVars, partVars, sessionVars
    <2>2. req.eeprom /\ req.addr <= i /\ i < End
      BY <2>1 DEF i2c_eeprom_erase, i2c_eeprom_write, EepromLoopInv, EepromLabels
    <2>3. i \in req.addr .. End - 1
      BY <2>2, RangeNumbers
    <2>4. CASE i2c_eeprom_erase
      <3>1. req.op = "erase" /\ c = i % EeSize
        BY <2>4 DEF i2c_eeprom_erase, Changes, partVars, EepromLoopInv, EepromLabels, LoopOf
      <3> QED
        BY <2>2, <2>3, <3>1 DEF InRange
    <2>5. CASE i2c_eeprom_write
      <3>1. req.op = "write" /\ PageOf(c) = PageOf(i % EeSize)
        BY <2>5 DEF i2c_eeprom_write, Changes, partVars, EepromLoopInv, EepromLabels, LoopOf
      <3> QED
        BY <2>2, <2>3, <3>1 DEF PageInRange
    <2> QED
      BY <2>1, <2>4, <2>5
  <1> QED
    BY <1>1, EepromInvariants, PTL DEF Spec, EepromConfined

-----------------------------------------------------------------------------
(* The search for a SPI part.  What PartsTold says of the tables is used   *)
(* here and nowhere else; the answers stay opaque.                         *)
SearchFacts == SessionInv /\ SearchInv /\ TriedInv /\ RightPart

(* A SPI transfer of a process in which nothing failed reached the part.   *)
LEMMA GoodTransfer ==
  ASSUME SessionInv, pc \in SpiLabels, NEW reached \in BOOLEAN, NEW ok \in BOOLEAN,
         \/ spi_controller_write(reached, ok)
         \/ spi_controller_read(reached, ok)
         \/ spi_controller_cs_release(reached, ok)
  PROVE  \/ fault' = fault /\ reached = TRUE /\ ok = TRUE
         \/ fault = NoFault /\ fault' # NoFault /\ fault' = <<pc, cmd>> /\ ok = FALSE
  <1>1. isp \in BOOLEAN /\ (req.prog = "mstarddc" => isp)
    BY DEF SessionInv, MonitorInv
  <1>2. Outcome(TRUE, reached, ok)
    <2>1. isp => isp = TRUE
      BY <1>1
    <2> QED
      BY <1>1, <2>1 DEF spi_controller_write, spi_controller_read, spi_controller_cs_release,
         mstarddc_spi_write, mstarddc_spi_read, mstarddc_spi_end_command
  <1> QED
    BY <1>2 DEF Outcome, NoFault, SpiLabels

(* The opcode of a command of the search, or of the action. *)
LEMMA OpcodeSearch ==
  ASSUME SearchFacts, send_opcode
  PROVE  SearchInv' /\ TriedInv' /\ RightPart'
  <1>1. /\ pc = "opcode" /\ pc' \in {"data", "release"}
        /\ UNCHANGED <<rig, cmd, id, found>>
        /\ pc' = "release" => ret' = "fail" /\ cmd \in {"id1", "rdid"}
    BY DEF send_opcode, Goto, Result
  <1>2. PICK reached \in BOOLEAN, ok \in BOOLEAN :
          spi_controller_write(reached, ok) /\ heard' = (reached /\ Fresh) /\ ret' = Result(ok)
    BY DEF send_opcode
  <1>3. \/ fault' = fault /\ reached = TRUE /\ ok = TRUE
        \/ fault = NoFault /\ fault' # NoFault /\ fault' = <<pc, cmd>> /\ ok = FALSE
    BY <1>1, <1>2, GoodTransfer DEF SearchFacts, SpiLabels
  <1>4. fault' = NoFault => fault = NoFault /\ heard' /\ ret' = "ok"
    <2> SUFFICES ASSUME fault' = NoFault PROVE fault = NoFault /\ heard' /\ ret' = "ok"
      OBVIOUS
    <2>1. fault = NoFault /\ reached = TRUE /\ ok = TRUE
      BY <1>3
    <2>2. Fresh
      BY <1>1, <2>1 DEF SearchFacts, SessionInv, MonitorInv, Fresh, NoFault
    <2> QED
      BY <1>2, <2>1, <2>2 DEF Result
  <1>5. SearchInv'
    BY <1>1, <1>4 DEF SearchFacts, SearchInv, SpiLabels
  <1>6. TriedInv'
    BY <1>1, <1>4 DEF SearchFacts, TriedInv, SpiLabels
  <1>7. RightPart'
    BY <1>1, <1>3 DEF SearchFacts, RightPart, NoFault
  <1> QED
    BY <1>5, <1>6, <1>7

(* What is read of a part's identification. *)
LEMMA DataSearch ==
  ASSUME SearchFacts, transfer_data
  PROVE  SearchInv' /\ TriedInv' /\ RightPart'
  <1>1. pc = "data" /\ pc' = "release" /\ UNCHANGED <<rig, cmd, heard, found>>
    BY DEF transfer_data, Goto
  <1>2. PICK reached \in BOOLEAN, ok \in BOOLEAN :
          spi_controller_read(reached, ok) /\ id' \in ReadBytes(ok) /\ ret' = Result(ok)
    BY DEF transfer_data
  <1>3. \/ fault' = fault /\ ok = TRUE
        \/ fault = NoFault /\ fault' # NoFault /\ fault' = <<pc, cmd>> /\ ok = FALSE
    BY <1>1, <1>2, GoodTransfer DEF SearchFacts, SpiLabels
  <1>4. fault = NoFault => Heard = Answer(rig.part)
    BY <1>1 DEF SearchFacts, SearchInv, Heard
  <1>5. Heard \in MayHear'
    BY <1>1, <1>3, <1>4 DEF MayHear, Heard
  <1>6. ok = TRUE => /\ cmd = "id1" => id' = FirstId(Heard)
                     /\ cmd = "id2" => id' = SecondId(Heard)
                     /\ cmd = "id3" => id' = FirstId(Heard)
                     /\ cmd = "rdid" => id' = JedecId(Heard)
    BY <1>2 DEF ReadBytes, spi_nand_protocol_read_id, spi_nand_protocol_read_id_2,
                spi_nand_protocol_read_id_3, spi_nor_read_devid
  <1>7. ASSUME cmd = "id3", ok = FALSE
        PROVE  LET x == Answer(rig.part) IN NotByTwo(x) /\ id' \in GarbledIds(x) \cup {SecondId(x)}
    <2>1. fault = NoFault /\ Heard = Answer(rig.part)
      BY <1>3, <1>4, <1>7
    <2>2. NotByTwo(Heard) /\ id = SecondId(Heard)
      BY <1>1, <1>7, <2>1 DEF SearchFacts, SearchInv, TriedInv, SpiLabels, NotByTwo
    <2>3. id' \in {SecondId(Heard), <<id[1], Heard[2]>>, <<id[1], Heard[3]>>,
                   <<Heard[2], Heard[2]>>, <<Heard[2], id[2]>>}
      BY <1>2, <1>7 DEF ReadBytes, spi_nand_protocol_read_id_3
    <2>4. id[1] = Heard[1] /\ id[2] = Heard[2]
      BY <2>2 DEF SecondId
    <2>5. id' \in GarbledIds(Heard) \cup {SecondId(Heard)}
      BY <2>3, <2>4 DEF GarbledIds, SecondId
    <2> QED
      BY <2>1, <2>2, <2>5
  <1>8. SearchInv'
    <2>1. fault' = NoFault => ret' = "ok"
      BY <1>2, <1>3 DEF Result
    <2>2. cmd = "id1" /\ ret' = "ok" => \E x \in MayHear' : id' = FirstId(x)
      BY <1>2, <1>5, <1>6 DEF Result
    <2>3. cmd = "id2" /\ fault' # <<"data", "id2">> => \E x \in MayHear' : id' = SecondId(x)
      BY <1>1, <1>3, <1>5, <1>6
    <2>4. cmd = "id3" => \/ \E x \in MayHear' : id' \in {FirstId(x), SecondId(x)}
                         \/ LET x == Answer(rig.part) IN NotByTwo(x) /\ id' \in GarbledIds(x)
      <3>1. CASE ok = TRUE
        BY <1>5, <1>6, <3>1
      <3>2. CASE ok = FALSE
        <4>1. Answer(rig.part) \in MayHear'
          BY <1>1 DEF MayHear
        <4> QED
          BY <1>7, <3>2, <4>1
      <3> QED
        BY <3>1, <3>2
    <2>5. cmd = "rdid" /\ ret' = "ok" => \E x \in MayHear' : id' = JedecId(x)
      BY <1>2, <1>5, <1>6 DEF Result
    <2> QED
      BY <1>1, <2>1, <2>2, <2>3, <2>4, <2>5 DEF SearchInv, SpiLabels
  <1>9. TriedInv'
    BY <1>1, <1>3 DEF SearchFacts, TriedInv, SpiLabels
  <1>10. RightPart'
    BY <1>1, <1>3 DEF SearchFacts, RightPart, NoFault
  <1> QED
    BY <1>8, <1>9, <1>10

(* An id that a protocol made of an answer finds the part, or nothing.     *)
LEMMA FoundPart ==
  ASSUME NEW part \in Parts, NEW told, NEW x \in {Answer(part), Answer(NoPart)},
         \/ told \in {FirstId(x), SecondId(x)}
         \/ NotByTwo(Answer(part)) /\ told \in GarbledIds(Answer(part))
  PROVE  spi_nand_probe_matchid(told) # 0
           => spi_nand_flash_tables[spi_nand_probe_matchid(told)] \in {part, NoPart}
  <1>1. NoPart \in Parts
    BY DEF Parts
  <1> QED
    BY <1>1, PartsTold DEF NandFinds

LEMMA FoundNorPart ==
  ASSUME NEW part \in Parts, NEW x \in {Answer(part), Answer(NoPart)}
  PROVE  spi_nor_match(JedecId(x)) # 0 => chips_data[spi_nor_match(JedecId(x))] \in {part, NoPart}
  <1>1. NoPart \in Parts
    BY DEF Parts
  <1> QED
    BY <1>1, PartsTold DEF NorFinds

(* The end of a command of the search: an entry matches, or the next one   *)
(* begins, or the tables have nothing.                                     *)
LEMMA ReleaseSearch ==
  ASSUME SearchFacts, release
  PROVE  SearchInv' /\ TriedInv' /\ RightPart'
  <1> DEFINE a == Answer(rig.part)
  <1>1. pc = "release" /\ UNCHANGED <<rig, id, ret>>
    BY DEF release
  <1>2. PICK reached \in BOOLEAN, ok \in BOOLEAN : spi_controller_cs_release(reached, ok)
    BY DEF release
  <1>3. fault' = fault \/ (fault = NoFault /\ fault' # NoFault)
    BY <1>1, <1>2, GoodTransfer DEF SearchFacts, SpiLabels
  <1>4. rig.part \in Parts
    BY SessionAssumption DEF SearchFacts, SessionInv, LineInv
  <1>5. MayHear \subseteq {a, Answer(NoPart)} /\ (fault = NoFault => MayHear = {a})
    BY DEF MayHear
  <1>6. \/ cmd = "op" /\ cmd' = "op" /\ pc' \in {"opcode", "cleanup"} /\ found' = found
        \/ cmd = "id1" /\ ret = "fail" /\ Command("rdid")
        \/ cmd = "id1" /\ ret = "ok" /\ MatchNand("id2")
        \/ cmd = "id2" /\ MatchNand("id3")
        \/ cmd = "id3" /\ MatchNand("rdid")
        \/ /\ cmd = "rdid" /\ ret = "ok"
           /\ \/ spi_nor_match(id) # 0 /\ Found(chips_data[spi_nor_match(id)])
              \/ spi_nor_match(id) = 0 /\ pc' = "exit1" /\ cmd' = cmd /\ found' = found
    BY DEF release, AfterCommand, AfterProtocol, Command, Goto
  <1>7. \A next : MatchNand(next) <=>
          \/ /\ spi_nand_probe_matchid(id) # 0
             /\ Found(spi_nand_flash_tables[spi_nand_probe_matchid(id)])
          \/ spi_nand_probe_matchid(id) = 0 /\ Command(next)
    BY DEF MatchNand
  <1>8. ASSUME fault' = NoFault
        PROVE  /\ fault = NoFault /\ ret = "ok"
               /\ cmd = "id1" => id = FirstId(a)
               /\ cmd = "id2" => id = SecondId(a)
               /\ cmd = "rdid" => id = JedecId(a)
    <2>1. fault = NoFault
      BY <1>3, <1>8
    <2> QED
      BY <1>1, <1>5, <2>1 DEF SearchFacts, SearchInv, NoFault
  <1>9. SearchInv'
    BY <1>1, <1>6, <1>7, <1>8 DEF SearchInv, Command, Found, SpiLabels
  <1>10. TriedInv'
    <2> SUFFICES ASSUME fault' = NoFault, pc' \in SpiLabels \cup {"exit1"}
                 PROVE  /\ cmd' \in {"id2", "id3", "rdid"} => spi_nand_probe_matchid(FirstId(a)) = 0
                        /\ cmd' \in {"id3", "rdid"} => spi_nand_probe_matchid(SecondId(a)) = 0
                        /\ cmd' = "rdid" /\ pc' = "exit1" => spi_nor_match(JedecId(a)) = 0
      BY <1>1 DEF TriedInv, SpiLabels
    <2>1. /\ cmd \in {"id2", "id3", "rdid"} => spi_nand_probe_matchid(FirstId(a)) = 0
          /\ cmd \in {"id3", "rdid"} => spi_nand_probe_matchid(SecondId(a)) = 0
      BY <1>1, <1>8 DEF SearchFacts, TriedInv, SpiLabels
    <2> QED
      BY <1>6, <1>7, <1>8, <2>1 DEF Command, Found
  <1>11. found' # NoPart => found' = rig.part \/ fault' = <<"data", "id2">>
    <2> SUFFICES ASSUME found' # NoPart, fault' # <<"data", "id2">> PROVE found' = rig.part
      OBVIOUS
    <2>1. fault # <<"data", "id2">>
      BY <1>3 DEF NoFault
    <2>2. CASE found' = found
      BY <2>1, <2>2 DEF SearchFacts, RightPart
    <2>3. CASE cmd \in {"id1", "id2", "id3"} /\ spi_nand_probe_matchid(id) # 0
               /\ found' = spi_nand_flash_tables[spi_nand_probe_matchid(id)]
               /\ (cmd = "id1" => ret = "ok")
      <3>1. \/ \E x \in MayHear : id \in {FirstId(x), SecondId(x)}
            \/ NotByTwo(a) /\ id \in GarbledIds(a)
        BY <1>1, <2>1, <2>3 DEF SearchFacts, SearchInv
      <3>2. \E x \in {a, Answer(NoPart)} :
              \/ id \in {FirstId(x), SecondId(x)}
              \/ NotByTwo(a) /\ id \in GarbledIds(a)
        BY <1>5, <3>1
      <3>3. spi_nand_flash_tables[spi_nand_probe_matchid(id)] \in {rig.part, NoPart}
        BY <1>4, <2>3, <3>2, FoundPart
      <3> QED
        BY <2>3, <3>3
    <2>4. CASE cmd = "rdid" /\ ret = "ok" /\ spi_nor_match(id) # 0
               /\ found' = chips_data[spi_nor_match(id)]
      <3>1. PICK x \in {a, Answer(NoPart)} : id = JedecId(x)
        BY <1>1, <1>5, <2>4 DEF SearchFacts, SearchInv
      <3> QED
        BY <1>4, <2>4, <3>1, FoundNorPart
    <2> QED
      BY <1>6, <1>7, <2>2, <2>3, <2>4 DEF Command, Found
  <1>12. pc' = "exit1" /\ cmd' = "rdid" => rig.part = NoPart \/ fault' # NoFault
    <2> SUFFICES ASSUME pc' = "exit1", cmd' = "rdid", fault' = NoFault PROVE rig.part = NoPart
      OBVIOUS
    <2>1. NotByTwo(a) /\ spi_nor_match(JedecId(a)) = 0
      BY <1>1, <1>10 DEF TriedInv, NotByTwo
    <2> QED
      BY <1>4, <2>1, PartsTold
  <1> QED
    BY <1>1, <1>9, <1>10, <1>11, <1>12 DEF RightPart

(* Everything else: the search begins, is over, or is not what goes on.    *)
LEMMA OtherSearch ==
  ASSUME SearchFacts, [Next]_sessionVars, ~spi_flash_init
  PROVE  SearchInv' /\ TriedInv' /\ RightPart'
  <1>1. \/ /\ UNCHANGED <<rig, found>> /\ pc' \notin {"data", "release"}
           /\ pc' \notin {"opcode", "cleanup", "exit0", "exit1"} => cmd' = "none"
           /\ pc' = "exit1" => cmd' = "none"
           /\ pc' = "opcode" => cmd' = "id1"
           /\ found # NoPart => fault' = fault
        \/ pc' = "idle" /\ cmd' = "none" /\ found' = NoPart
        \/ UNCHANGED <<rig, pc, cmd, id, heard, ret, fault, found>>
    <2> USE DEF SearchFacts, SearchInv, SessionInv, HandlesInv, SpiLabels
    <2>1. ASSUME NEW line \in Lines(rig), Start(line) PROVE <1>1!1
      BY <2>1 DEF Start, Goto, spiVars
    <2>2. CASE init_eeprom \/ spi_controller_open \/ cleanup
      BY <2>2 DEF init_eeprom, spi_controller_open, cleanup, Goto, OpenedSpi, spiVars
    <2>3. CASE Ddc
      BY <2>3 DEF Ddc, mstarddc_parse_connstr, ddc_open_i2c, mstarddc_spi_enableisp,
                  enableisp_end, Goto, OpenedSpi, spiVars
    <2>4. CASE Eeprom
      BY <2>4 DEF Eeprom, do_action, i2c_eeprom_read, i2c_eeprom_erase, i2c_eeprom_write, usleep,
                  Continue, Goto, spiVars
    <2>5. CASE EndProcess
      BY <2>5 DEF EndProcess
    <2>6. CASE MonitorRestarts \/ PartDone \/ UNCHANGED sessionVars
      BY <2>6 DEF MonitorRestarts, PartDone, EepromDone, procVars, spiVars, sessionVars
    <2> QED
      BY <2>1, <2>2, <2>3, <2>4, <2>5, <2>6
         DEF Next, Program, spi_nor_init_dies, Dies, Exit, Crash, Quit
  <1> QED
    BY <1>1 DEF SearchFacts, SearchInv, TriedInv, RightPart, SpiLabels, MayHear

(* The table entry a process works with is the one of its part, unless the *)
(* read whose result is ignored failed, and a part of the tables is found  *)
(* unless a transfer failed (spi_flash_init).                              *)
THEOREM RightPartFound == Spec => []RightPart
  <1>1. Init => SearchInv /\ TriedInv /\ RightPart
    BY DEF Init, ProcessInit, SearchInv, TriedInv, RightPart, SpiLabels
  <1>2. SearchFacts /\ [Next]_sessionVars => SearchInv' /\ TriedInv' /\ RightPart'
    BY OpcodeSearch, DataSearch, ReleaseSearch, OtherSearch DEF spi_flash_init
  <1> QED
    BY <1>1, <1>2, SessionInvariant, PTL DEF Spec, SearchFacts

-----------------------------------------------------------------------------
(* Every SPI command over mstarddc starts in ISP mode and with the chip    *)
(* select released, whatever processes were killed before: unless a        *)
(* release of this process failed (mstarddc_spi_enableisp).                *)
THEOREM FreshCommands == Spec => []FreshCommand
  <1>1. SessionInv => FreshCommand
    BY DEF SessionInv, MonitorInv, FreshCommand, SpiLabels
  <1> QED
    BY <1>1, SessionInvariant, PTL

(* A connection string is there whenever mstarddc_parse_connstr reads it.  *)
THEOREM ConnstringsGiven == Spec => []ConnstringGiven
  <1>1. SessionInv => ConnstringGiven
    BY DEF SessionInv, LineInv, ConnstringGiven, DdcLabels
  <1> QED
    BY <1>1, SessionInvariant, PTL

(* main() changes a SPI part only for a command that asks for it.          *)
THEOREM TouchedOnRequest == Spec => []SpiTouchedOnRequest
  <1>1. SessionInv => SpiTouchedOnRequest
    BY DEF SessionInv, TouchInv, SpiTouchedOnRequest, SpiLabels
  <1> QED
    BY <1>1, SessionInvariant, PTL

(* A process that ran its action on a SPI part closes every controller.    *)
THEOREM CleanExits == Spec => []CleanExit
  <1>1. SessionInv => CleanExit
    BY DEF SessionInv, MonitorInv, HandlesInv, CleanExit
  <1> QED
    BY <1>1, SessionInvariant, PTL
=============================================================================
