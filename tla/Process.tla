------------------------------ MODULE Process ------------------------------
(***************************************************************************)
(* What the drivers of a snander process share: the bench it runs at, the  *)
(* process itself, and the transfers it makes through the controller       *)
(* libraries (external): a transfer is acknowledged or not, and one        *)
(* transfer of a process may fail, having reached the device or not.       *)
(***************************************************************************)
EXTENDS Integers, Sequences

CONSTANT Faults      \* may a transfer fail?

ASSUME ProcessAssumption == Faults \in BOOLEAN

VARIABLES
  rig,       \* the bench: what is connected, and how
  pc, cmd,   \* the next step, and the SPI command it is a step of
  req,       \* struct ui_parsed_cmdline
  i,         \* the loop offset of the operation
  ret,       \* the result of the last protocol or operation
  handles,   \* controllers that are open: "i2c", "spi", "ddc" (below mstarddc)
  fault      \* history: the step whose transfer failed

procVars == <<rig, pc, cmd, req, i, ret, handles, fault>>

Ops == {"identify", "unlock", "lock", "erase", "read", "write"}

NoFault == <<"none", "none">>

Goto(label) == pc' = label /\ UNCHANGED cmd

Result(ok) == IF ok THEN "ok" ELSE "fail"

(* A transfer to a device that would acknowledge it or not: did it reach   *)
(* the device, and what does the caller see?                               *)
Outcome(acked, reached, ok) ==
  \/ reached = acked /\ ok = acked /\ UNCHANGED fault
  \/ /\ Faults /\ fault = NoFault /\ fault' = <<pc, cmd>>
     /\ (reached => acked) /\ ~ok

(* i2c_controller_open() and the like: no such device, or no permission.   *)
Opened(ok) == Outcome(TRUE, ok, ok)
=============================================================================
