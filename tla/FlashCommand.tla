---------------------------- MODULE FlashCommand ----------------------------
(***************************************************************************)
(* What a user may expect of the commands on a flash part (the operations  *)
(* of struct flash_ops, src/src/flash.h), whatever the driver does to get  *)
(* there: a command changes each cell it is about once and no other, and   *)
(* says OK when it has changed them all.                                   *)
(*                                                                         *)
(* A command that is told to stop, or that ran out of patience, may leave  *)
(* cells out ("halting"); one that lost a transfer, or that asked for a    *)
(* range nothing is promised for, may do anything ("loose").               *)
(***************************************************************************)
CONSTANT Cell

VARIABLES content,   \* the cells
          phase,     \* of the command
          op,        \* the command
          left       \* the cells it has not got to

vars == <<content, phase, op, left>>

Value == {"ff", "img", "old", "bad"}

(* Erasing a cell, and writing the image's byte to it: only bits that are  *)
(* set can be cleared.                                                     *)
Changed(value) ==
  CASE op = "erase" -> "ff"
    [] op # "erase" -> IF value \in {"ff", "img"} THEN "img" ELSE "bad"

Init ==
  /\ content = [c \in Cell |-> "old"]
  /\ phase = "idle" /\ op = "none" /\ left = {}

Begin(command) ==
  /\ phase = "idle"
  /\ \/ /\ phase' = "running"
        /\ left' \in IF command \in {"erase", "write"} THEN SUBSET Cell ELSE {{}}
     \/ phase' = "loose" /\ left' = {}
  /\ op' = command
  /\ UNCHANGED content

(* Cells the command gets to are changed, but when halting some may stay.  *)
Work ==
  /\ phase \in {"running", "halting"}
  /\ left' \in SUBSET left /\ left' # left
  /\ content' \in [Cell -> Value]
  /\ \A c \in Cell :
       content'[c] \in
         IF c \in left \ left'
         THEN {Changed(content[c])} \cup (IF phase = "halting" THEN {content[c]} ELSE {})
         ELSE {content[c]}
  /\ UNCHANGED <<phase, op>>

Upset == phase = "running" /\ phase' = "halting" /\ UNCHANGED <<content, op, left>>

(* What a loose command does is visible only in the cells.                 *)
Loosen ==
  /\ phase \in {"running", "halting", "loose"} /\ phase' = "loose"
  /\ left' = {} /\ content' \in [Cell -> Value]
  /\ UNCHANGED op

Succeed == phase = "running" /\ left = {} /\ phase' = "ok" /\ UNCHANGED <<content, op, left>>

GiveUp ==
  /\ phase \in {"running", "halting", "loose"} /\ phase' = "over"
  /\ left' = {}
  /\ UNCHANGED <<content, op>>

(* The command is over, or was killed.                                     *)
End ==
  /\ phase # "idle" /\ phase' = "idle"
  /\ op' = "none" /\ left' = {}
  /\ UNCHANGED content

Next ==
  \/ \E command \in {"identify", "unlock", "lock", "erase", "read", "write"} : Begin(command)
  \/ Work \/ Upset \/ Loosen \/ Succeed \/ GiveUp \/ End

Spec == Init /\ [][Next]_vars
=============================================================================
