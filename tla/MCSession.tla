----------------------------- MODULE MCSession -----------------------------
(***************************************************************************)
(* Benches and command lines for TLC.                                      *)
(***************************************************************************)
EXTENDS Session

Rig(part, bus, eeprom, mangle) ==
  [part |-> part, bus |-> bus, eeprom |-> eeprom, mangle |-> mangle]

ANor  == chips_data[1]
ANand == spi_nand_flash_tables[3]

(* Uninitialised memory: zeros, or the id of some part.                    *)
GarbageIds == {<<0, 0>>, <<spi_nand_flash_tables[2].mfr_id, spi_nand_flash_tables[2].dev_id>>}

(* Each part of the tables on a CH341A, to be identified; an EEPROM with a *)
(* NOR part beside it; nothing at all; and a NAND part in a monitor.       *)
Benches ==
  {Rig(part, "alone", FALSE, TRUE) : part \in Parts}
    \cup {Rig(ANor, "ch341a", TRUE, TRUE), Rig(ANor, "ch341a", TRUE, FALSE),
          Rig(NoPart, "ch341a", FALSE, TRUE)}
    \cup {Rig(part, "monitor", FALSE, TRUE) : part \in {ANand, ANor, NoPart}}

Plain == [help |-> FALSE, list |-> FALSE, eeprom |-> "none", prog |-> "ch341a",
          conn |-> "unset", ops |-> {"identify"}, file |-> FALSE, verify |-> FALSE,
          ignoreecc |-> FALSE, disableecc |-> FALSE, haveAddr |-> FALSE, addr |-> 0,
          haveLen |-> FALSE, len |-> 0]

(* Command lines with an EEPROM: whole part, from address 0 and not, whole *)
(* pages and not, past the end, from beyond it, and of no length.          *)
Ee(op) == [Plain EXCEPT !.eeprom = "known", !.ops = {op}, !.file = op \in {"read", "write"}]

EeRange(op, addr, len) ==
  [Ee(op) EXCEPT !.haveAddr = addr # 0, !.addr = addr, !.haveLen = TRUE, !.len = len]

EepromLines ==
  {Ee("read"), Ee("erase"), Ee("lock"), Ee("unlock"), EeRange("write", 0, 4),
   EeRange("write", 0, 3), EeRange("write", 2, 2), EeRange("write", 3, 3), EeRange("erase", 2, 2),
   EeRange("erase", 0, 3), EeRange("read", 2, 2), EeRange("read", 0, 5), EeRange("write", 0, 0),
   [Ee("erase") EXCEPT !.haveAddr = TRUE, !.addr = 6],
   [Ee("write") EXCEPT !.prog = "i2cdev", !.haveLen = TRUE, !.len = 4],
   [Ee("read") EXCEPT !.prog = "mstarddc", !.conn = "good"],
   [Ee("erase") EXCEPT !.eeprom = "unknown"], Ee("identify")}

RejectedLines ==
  {[Plain EXCEPT !.help = TRUE], [Plain EXCEPT !.list = TRUE], [Plain EXCEPT !.prog = "none"],
   [Plain EXCEPT !.prog = "i2cdev"], [Plain EXCEPT !.ops = {}], [Plain EXCEPT !.verify = TRUE],
   [Plain EXCEPT !.ops = {"read", "erase"}], [Plain EXCEPT !.haveLen = TRUE],
   [Plain EXCEPT !.file = TRUE], [Plain EXCEPT !.ignoreecc = TRUE],
   [Plain EXCEPT !.disableecc = TRUE], [Plain EXCEPT !.prog = "unknown"]}

MonitorLines ==
  {[Plain EXCEPT !.prog = "mstarddc", !.conn = conn, !.ops = {op}, !.file = op = "read"] :
     conn \in {"unset", "good", "noat", "badname"}, op \in {"identify", "erase", "read"}}

BenchLines(r) ==
  CASE r.bus = "alone"   -> {Plain}
    [] r.bus = "ch341a"  -> EepromLines \cup RejectedLines \cup
                            {Plain, [Plain EXCEPT !.ops = {"erase"}]}
    [] r.bus = "monitor" -> MonitorLines
=============================================================================
