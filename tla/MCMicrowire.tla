---------------------------- MODULE MCMicrowire ----------------------------
(***************************************************************************)
(* Parts of two and of four words, as a smaller 93c06 would be, and calls  *)
(* for TLC.                                                                *)
(***************************************************************************)
EXTENDS Microwire

Parts ==
  {[size |-> 4, org |-> 1, fix |-> 0, bits |-> 6], [size |-> 4, org |-> 0, fix |-> 6, bits |-> 6]}

(* The whole part; half words; past its end; and nothing.                  *)
Calls ==
  {[op |-> op, from |-> 0, len |-> 4] : op \in {"read", "erase", "write"}} \cup
  {[op |-> "write", from |-> 1, len |-> 2], [op |-> "erase", from |-> 2, len |-> 3],
   [op |-> "write", from |-> 0, len |-> 0]}
=============================================================================
