------------------------------ MODULE MCSpiNand -----------------------------
(***************************************************************************)
(* Finite command lines for TLC.                                           *)
(***************************************************************************)
EXTENDS SpiNand

Whole(op) == [NoRequest EXCEPT !.op = op]

Cmd(op, addr, len) == [Whole(op) EXCEPT !.addr = addr, !.haveLen = TRUE, !.len = len]

Verified(r) == [r EXCEPT !.verify = TRUE]
DisableEcc(r) == [r EXCEPT !.ecc_disable = TRUE]
IgnoreEcc(r) == [r EXCEPT !.ecc_ignore = TRUE]

(* One die of two blocks of two pages of two cells. *)
SingleRequests ==
  {Whole("identify"), Whole("unlock"), Whole("erase"),
   Cmd("erase", 4, 4), Cmd("erase", 4, 3), Cmd("erase", 2, 4), Cmd("erase", 4, 0),
   DisableEcc(Whole("read")), IgnoreEcc(Cmd("read", 2, 4)), Cmd("read", 1, 2),
   Verified(Cmd("write", 4, 3)), Verified(Cmd("write", 2, 4)), Cmd("write", 6, 4),
   Cmd("write", 1, 2), Cmd("write", 0, 0)}

(* Two dies of one block of one one-cell page. *)
DieRequests ==
  {Whole("identify"), Whole("lock"), Whole("erase"), Verified(Cmd("write", 0, 2)),
   DisableEcc(Cmd("read", 0, 1)), Cmd("erase", 1, 1)}

(* The first of two dies of one page, after an erase. *)
FirstDieRequests == {Whole("erase"), Verified(Cmd("write", 0, 2))}

EccRequests == {Whole("read")}

PartialPageRequests == {Cmd("write", 0, 1)}
=============================================================================
