------------------------------ MODULE MstarDdc ------------------------------
(***************************************************************************)
(* src/src/mstarddc_spi.c: a SPI controller inside a monitor, reached over *)
(* the I2C lines of its video connector.  The monitor (external) accepts   *)
(* the word MSTAR while it is not in ISP mode, the SPI commands while it   *)
(* is, and holds the chip select from the first SPI write to the command   *)
(* END.  It keeps its mode when the process that asked for it is gone.     *)
(***************************************************************************)
EXTENDS Process

VARIABLES isp,     \* the monitor is in ISP mode
          csHeld   \* the chip select of its flash is low

ddcVars == <<isp, csHeld>>

(* mstarddc_parse_connstr, then the lookup of the I2C controller it names. *)
mstarddc_parse_connstr ==
  /\ pc = "ddc_parse"
  /\ Goto(IF req.conn = "good" THEN "ddc_i2c" ELSE "exit1")
  /\ UNCHANGED <<rig, req, i, ret, handles, fault, ddcVars>>

ddc_open_i2c ==
  /\ pc = "ddc_i2c"
  /\ \E ok \in BOOLEAN :
       /\ Opened(ok)
       /\ Goto(IF ok THEN "ddc_mstar" ELSE "exit1")
       /\ handles' = IF ok THEN handles \cup {"ddc"} ELSE handles
  /\ UNCHANGED <<rig, req, i, ret, ddcVars>>

OpenedSpi ==
  /\ pc' = "opcode" /\ cmd' = "id1"
  /\ handles' = handles \cup {"spi"}

(* A bug: a monitor that refuses the word is taken to be in ISP mode.      *)
MutEnableisp ==
  /\ pc = "ddc_mstar"
  /\ \E reached, ok \in BOOLEAN : Outcome(~isp, reached, ok) /\ isp' = (isp \/ reached)
  /\ OpenedSpi
  /\ UNCHANGED <<rig, req, i, ret, csHeld>>

(* The word that enables ISP mode; only when it fails the END command is   *)
(* sent, and the result of that one counts.                                *)
mstarddc_spi_enableisp ==
  /\ pc = "ddc_mstar"
  /\ \E reached, ok \in BOOLEAN :
       /\ Outcome(~isp, reached, ok)
       /\ isp' = (isp \/ reached)
       /\ IF ok THEN OpenedSpi ELSE Goto("ddc_end") /\ UNCHANGED handles
  /\ UNCHANGED <<rig, req, i, ret, csHeld>>

mstarddc_spi_end_command(reached, ok) ==
  /\ Outcome(isp, reached, ok)
  /\ csHeld' = (csHeld /\ ~reached)
  /\ UNCHANGED isp

enableisp_end ==
  /\ pc = "ddc_end"
  /\ \E reached, ok \in BOOLEAN :
       /\ mstarddc_spi_end_command(reached, ok)
       /\ IF ok THEN OpenedSpi ELSE Goto("exit1") /\ UNCHANGED handles
  /\ UNCHANGED <<rig, req, i, ret>>

(* mstarddc_spi_send_command: a write, or a read.                          *)
mstarddc_spi_write(reached, ok) ==
  /\ Outcome(isp, reached, ok)
  /\ csHeld' = (csHeld \/ reached)
  /\ UNCHANGED isp

mstarddc_spi_read(reached, ok) ==
  Outcome(isp, reached, ok) /\ UNCHANGED ddcVars

(* The I2C controller is closed; nobody takes the monitor out of ISP mode. *)
mstarddc_spi_shutdown(open) == open \ {"spi", "ddc"}
=============================================================================
