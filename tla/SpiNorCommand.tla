--------------------------- MODULE SpiNorCommand ---------------------------
(***************************************************************************)
(* A command of the SPI NOR driver is a FlashCommand: the labels of SpiNor *)
(* tell how far it got.                                                    *)
(***************************************************************************)
EXTENDS SpiNor

(* Requests something is promised for: inside the device, of a part that   *)
(* is not protected, whole pages to write and an erase from the start.     *)
Covered ==
  req.op \in {"write", "erase"} =>
    InDevice /\ bpNext = 0 /\ IF req.op = "write" THEN PageAligned ELSE req.addr = 0

Phase ==
  CASE pc = "idle" -> "idle"
    [] pc = "exit" -> IF ret = "ok" /\ Covered /\ Undisturbed THEN "ok" ELSE "over"
    [] OTHER -> IF fault \/ ~Covered THEN "loose"
                ELSE IF killed \/ late THEN "halting" ELSE "running"

(* Labels reached after the chunk at i was sent, and after the last one.   *)
ChunkSent ==
  \/ At({"se_done", "se_next", "wr_page"})
  \/ WaitsFor({"se_done", "wr_page"})
  \/ SwitchesFor({"se_next"})

AllSent ==
  \/ At({"be_wrdi", "wr_wrdi", "rd_ready", "rd_chunk", "rd_end"})
  \/ WaitsFor({"be_wrdi", "rd_ready"})
  \/ SwitchesFor({"wr_wrdi", "rd_chunk", "rd_end"})

Chunk == IF req.op = "erase" THEN RegionSize ELSE PageSize

(* The first cell of the request that the loop has not got to. *)
From == req.addr + i + (IF ChunkSent THEN Chunk ELSE 0)

Left ==
  IF Phase \notin {"running", "halting"} \/ req.op \notin {"erase", "write"} \/ AllSent THEN {}
  ELSE {c \in Range : c >= From}

(* What an undisturbed command has got to is done. *)
DoneInv ==
  Phase \in {"running", "ok"} =>
    \A c \in Range \ Left :
      /\ req.op = "erase" => mem[c] = "ff"
      /\ req.op = "write" => mem[c] \in {"img", "bad"}

Command == INSTANCE FlashCommand
  WITH content <- mem, phase <- Phase, left <- Left,
       op <- IF pc = "idle" THEN "none" ELSE req.op

(* Each command of the driver, from the probe to the exit, changes every   *)
(* cell it was asked to once, and no other, and ends with "Status: OK" and *)
(* undisturbed only when it has changed them all: with ^C, waits that give *)
(* up, transfers that fail and kills anywhere between (do_erase, do_write, *)
(* spi_nor_erase and spi_nor_write).                                       *)
ImplementsFlashCommand == Command!Spec
=============================================================================
