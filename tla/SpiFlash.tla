------------------------------ MODULE SpiFlash ------------------------------
(***************************************************************************)
(* How the part behind a SPI controller is found: spi_flash_init of        *)
(* src/src/spi_flash.c tries three ways to read a NAND id and then the one *)
(* to read a NOR id, each a SPI command of an opcode, the rest of it and   *)
(* the release of the chip select.  The commands of the action follow      *)
(* ("op"); they are abstracted here to a few commands that may change the  *)
(* part, and modelled in full by SpiNor and SpiNand.                       *)
(*                                                                         *)
(* The controller is a CH341A (external), or mstarddc.                     *)
(***************************************************************************)
EXTENDS MstarDdc, SpiNandIds, SpiNorIds

CONSTANTS Floating,      \* the byte read from a line nobody drives
          Garbage,       \* what may be where nobody initialised an id
          MaxCommands    \* commands of an action, at most

ASSUME SpiFlashAssumption ==
  /\ Floating \in 0 .. 255
  /\ Garbage \subseteq (0 .. 255) \X (0 .. 255)
  /\ MaxCommands \in Nat

VARIABLES
  id,          \* the identification read last: mfr_id and dev_id, or RDID's answer
  heard,       \* did the part take the opcode of this command?
  found,       \* the table entry the process chose
  spiChanged   \* history: the process changed the part

spiVars == <<id, heard, found, spiChanged>>

Protocols == {"id1", "id2", "id3", "rdid"}

NoPart == [kind |-> "none"]
Parts  == NandParts \cup NorParts \cup {NoPart}

-----------------------------------------------------------------------------
(* The bytes a part answers to 9Fh.  Most NAND parts take an address byte, *)
(* or clock out a byte of nothing, before the id; the parts with PREPEND   *)
(* dummy bytes answer at once, and then repeat.                            *)
Answer(part) ==
  CASE part.kind = "none" -> <<Floating, Floating, Floating>>
    [] part.kind = "nor"  -> <<part.id, part.jedec \div 256, part.jedec % 256>>
    [] part.kind = "nand" -> IF part.dummy_mode = "prepend"
                             THEN <<part.mfr_id, part.dev_id, part.mfr_id>>
                             ELSE <<Floating, part.mfr_id, part.dev_id>>

Heard == Answer(IF heard THEN rig.part ELSE NoPart)

(* What the protocols take of an answer.                                   *)
FirstId(x)  == <<x[2], x[3]>>
SecondId(x) == <<x[1], x[2]>>
JedecId(x)  == <<x[1], 256 * x[2] + x[3]>>

MutReadId2(ok) == IF ok THEN {<<Heard[1], Heard[3]>>} ELSE Garbage

(* The three protocols.  The address byte of the first takes the place of  *)
(* the first byte of the answer; it leaves the id alone when it fails.     *)
spi_nand_protocol_read_id(ok) == IF ok THEN {FirstId(Heard)} ELSE {id}

(* The second does not look at results: its buffer may be uninitialised.   *)
spi_nand_protocol_read_id_2(ok) == IF ok THEN {SecondId(Heard)} ELSE Garbage

(* Nor does the third, which reads byte after byte: each one read may be   *)
(* missing, and what follows comes one byte early.                         *)
spi_nand_protocol_read_id_3(ok) ==
  IF ok THEN {FirstId(Heard)}
        ELSE {SecondId(Heard), <<id[1], Heard[2]>>, <<id[1], Heard[3]>>,
              <<Heard[2], Heard[2]>>, <<Heard[2], id[2]>>}

spi_nor_read_devid(ok) == IF ok THEN {JedecId(Heard)} ELSE {id}

ReadBytes(ok) ==
  CASE cmd = "id1"  -> spi_nand_protocol_read_id(ok)
    [] cmd = "id2"  -> spi_nand_protocol_read_id_2(ok)
    [] cmd = "id3"  -> spi_nand_protocol_read_id_3(ok)
    [] cmd = "rdid" -> spi_nor_read_devid(ok)
    [] cmd = "op"   -> {id}

-----------------------------------------------------------------------------
(* What the tables must be for the search to work, whatever the process    *)
(* does: no id that a protocol can make of a part's answer is the one of   *)
(* an entry that differs from the part, and each part has an id that is.   *)
(* The third protocol, of whose reads one failed, is only reached with a   *)
(* part that neither of the others found.                                  *)
NandFinds(told, part) ==
  LET k == spi_nand_probe_matchid(told) IN k # 0 => spi_nand_flash_tables[k] = part

NorFinds(told, part) ==
  LET k == spi_nor_match(told) IN k # 0 => chips_data[k] = part

NotByTwo(x) ==
  spi_nand_probe_matchid(FirstId(x)) = 0 /\ spi_nand_probe_matchid(SecondId(x)) = 0

GarbledIds(x) == {<<x[1], x[3]>>, <<x[2], x[2]>>}

ASSUME PartsTold ==
  \A part \in Parts :
    LET x == Answer(part) IN
      /\ NandFinds(FirstId(x), part) /\ NandFinds(SecondId(x), part) /\ NorFinds(JedecId(x), part)
      /\ NotByTwo(x) => \A told \in GarbledIds(x) : NandFinds(told, part)
      /\ part # NoPart /\ NotByTwo(x) => spi_nor_match(JedecId(x)) # 0

-----------------------------------------------------------------------------
(* The SPI controller of this process.                                     *)
spi_controller_write(reached, ok) ==
  IF req.prog = "mstarddc" THEN mstarddc_spi_write(reached, ok)
                           ELSE Outcome(TRUE, reached, ok) /\ UNCHANGED ddcVars

spi_controller_read(reached, ok) ==
  IF req.prog = "mstarddc" THEN mstarddc_spi_read(reached, ok)
                           ELSE Outcome(TRUE, reached, ok) /\ UNCHANGED ddcVars

spi_controller_cs_release(reached, ok) ==
  IF req.prog = "mstarddc" THEN mstarddc_spi_end_command(reached, ok)
                           ELSE Outcome(TRUE, reached, ok) /\ UNCHANGED ddcVars

(* An opcode sent while the last command is still open is data to the part. *)
Fresh == ~(req.prog = "mstarddc" /\ csHeld)

(* Two of the protocols skip the rest of the command when the opcode fails. *)
send_opcode ==
  /\ pc = "opcode"
  /\ \E reached, ok \in BOOLEAN :
       /\ spi_controller_write(reached, ok)
       /\ heard' = (reached /\ Fresh)
       /\ ret' = Result(ok)
       /\ Goto(IF ~ok /\ cmd \in {"id1", "rdid"} THEN "release" ELSE "data")
  /\ UNCHANGED <<rig, req, i, handles, id, found, spiChanged>>

transfer_data ==
  /\ pc = "data"
  /\ \E reached, ok \in BOOLEAN :
       /\ spi_controller_read(reached, ok)
       /\ id' \in ReadBytes(ok)
       /\ ret' = Result(ok)
       /\ spiChanged' = (spiChanged \/ (cmd = "op" /\ req.op \notin {"identify", "read"} /\ reached))
  /\ Goto("release")
  /\ UNCHANGED <<rig, req, i, handles, heard, found>>

Command(next) == pc' = "opcode" /\ cmd' = next /\ UNCHANGED found

Found(part) == pc' = "opcode" /\ cmd' = "op" /\ found' = part

MatchNand(next) ==
  LET k == spi_nand_probe_matchid(id) IN
    IF k # 0 THEN Found(spi_nand_flash_tables[k]) ELSE Command(next)

(* A first id that cannot be read ends the search for a NAND part, and a   *)
(* RDID that cannot be read ends the process: its error pointer is taken   *)
(* for a chip.                                                             *)
AfterProtocol ==
  \/ cmd = "id1" /\ ret = "fail" /\ Command("rdid")
  \/ cmd = "id1" /\ ret = "ok" /\ MatchNand("id2")
  \/ cmd = "id2" /\ MatchNand("id3")
  \/ cmd = "id3" /\ MatchNand("rdid")
  \/ /\ cmd = "rdid" /\ ret = "ok"
     /\ LET k == spi_nor_match(id) IN
          IF k # 0 THEN Found(chips_data[k]) ELSE Goto("exit1") /\ UNCHANGED found

AfterCommand ==
  /\ cmd = "op" /\ i' = i + 1
  /\ \/ i' < MaxCommands /\ Command("op")
     \/ Goto("cleanup") /\ UNCHANGED found

ErrorPointer == pc = "release" /\ cmd = "rdid" /\ ret = "fail"

release ==
  /\ pc = "release" /\ ~ErrorPointer
  /\ \E reached, ok \in BOOLEAN : spi_controller_cs_release(reached, ok)
  /\ AfterCommand \/ (AfterProtocol /\ UNCHANGED i)
  /\ UNCHANGED <<rig, req, ret, handles, id, heard, spiChanged>>
=============================================================================
