------------------------------ MODULE MCSpiNor ------------------------------
(***************************************************************************)
(* Finite command lines for TLC.                                           *)
(***************************************************************************)
EXTENDS SpiNorCommand

Cmd(op, addr, len, verify) ==
  [op |-> op, addr |-> addr, haveLen |-> TRUE, len |-> len, verify |-> verify]

Whole(op) == [op |-> op, addr |-> 0, haveLen |-> FALSE, len |-> 0, verify |-> FALSE]

(* Four one-page sectors of two cells, protected top down. *)
BpRequests ==
  {Whole("identify"), Whole("lock"), Whole("unlock"), Whole("read"), Whole("erase"),
   Cmd("lock", 6, 2, FALSE), Cmd("lock", 0, 4, FALSE), Cmd("unlock", 4, 4, FALSE),
   Cmd("erase", 0, 4, FALSE), Cmd("erase", 0, 3, FALSE),
   Cmd("write", 2, 4, FALSE), Cmd("write", 0, 8, FALSE), Cmd("write", 5, 2, FALSE),
   Cmd("write", 6, 4, FALSE), Cmd("write", 15, 3, FALSE), Cmd("write", 0, 0, FALSE),
   Cmd("read", 2, 0, FALSE), [Whole("erase") EXCEPT !.addr = 8]}

(* Two sectors of two pages behind four byte addresses. *)
FourByteRequests ==
  {Whole("identify"), Whole("lock"), Whole("unlock"), Whole("read"), Whole("erase"),
   Cmd("erase", 0, 4, FALSE), Cmd("write", 2, 4, TRUE), Cmd("write", 0, 8, FALSE),
   Cmd("erase", 4, 8, FALSE), Cmd("read", 4, 4, FALSE)}

(* The second half of that device, to be erased. *)
OffsetEraseRequests == {Cmd("erase", 4, 4, FALSE)}
=============================================================================
