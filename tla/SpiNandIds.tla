----------------------------- MODULE SpiNandIds -----------------------------
(***************************************************************************)
(* The table of SPI NAND parts of src/src/spi_nand_ids.c, in its order: the *)
(* two identification bytes, sizes (device in MiB, page in KiB, spare area  *)
(* in bytes, block in KiB), and what the driver branches on.  Names and the *)
(* layouts of the spare area are left out, so parts that the driver cannot *)
(* tell apart are one record.                                              *)
(***************************************************************************)
EXTENDS Integers, Sequences, SequencesExt

Features == {"none", "plane", "die1", "plane_die2"}

Nand(mfr, dev, size, page, oob, block, feature, dummy) ==
  [kind |-> "nand", mfr_id |-> mfr, dev_id |-> dev, device_size |-> size, page_size |-> page,
   oob_size |-> oob, erase_size |-> block, feature |-> feature, dummy_mode |-> dummy]

Gigadevice ==
  <<Nand(\hC8, \hF1, 128, 2, 64, 128, "none", "append"),
    Nand(\hC8, \hD1, 128, 2, 128, 128, "none", "append"),
    Nand(\hC8, \hB1, 128, 2, 128, 128, "none", "prepend"),
    Nand(\hC8, \hD3, 128, 2, 128, 128, "none", "append"),
    Nand(\hC8, \hD2, 256, 2, 128, 128, "none", "append"),
    Nand(\hC8, \hD5, 256, 2, 128, 128, "none", "append"),
    Nand(\hC8, \hB2, 256, 2, 128, 128, "none", "prepend"),
    Nand(\hC8, \hD4, 512, 4, 256, 256, "none", "append"),
    Nand(\hC8, \hB4, 512, 4, 256, 256, "none", "prepend")>>

Esmt ==
  <<Nand(\hC8, \h20, 64, 2, 64, 128, "none", "append"),
    Nand(\hC8, \h21, 128, 2, 64, 128, "none", "append"),
    Nand(\hC8, \h01, 128, 2, 64, 128, "none", "append"),
    Nand(\hC8, \h0A, 256, 2, 64, 128, "die1", "append")>>

Winbond ==
  <<Nand(\hEF, \hAA, 128, 2, 64, 128, "none", "append"),
    Nand(\hEF, \hAB, 256, 2, 64, 128, "die1", "append")>>

Mxic ==
  <<Nand(\hC2, \h12, 128, 2, 64, 128, "none", "append"),
    Nand(\hC2, \h22, 256, 2, 64, 128, "plane", "append")>>

Zentel ==
  <<Nand(\hC8, \h20, 64, 2, 64, 128, "none", "append"),
    Nand(\hC8, \h21, 128, 2, 64, 128, "none", "append")>>

Etron1 ==
  <<Nand(\hD5, \h11, 128, 2, 128, 128, "none", "append"),
    Nand(\hD5, \h1D, 128, 2, 64, 128, "none", "append"),
    Nand(\hD5, \h09, 128, 2, 128, 128, "none", "append"),
    Nand(\hD5, \h18, 128, 2, 64, 128, "none", "append"),
    Nand(\hD5, \h1C, 128, 2, 64, 128, "none", "append"),
    Nand(\hD5, \h13, 256, 2, 128, 128, "none", "append")>>

Etron2 ==
  <<Nand(\hD5, \h14, 256, 2, 64, 128, "none", "append"),
    Nand(\hD5, \h17, 256, 2, 128, 128, "none", "append"),
    Nand(\hD5, \h1F, 256, 2, 64, 128, "none", "append"),
    Nand(\hD5, \h1B, 256, 2, 64, 128, "none", "append"),
    Nand(\hD5, \h12, 256, 2, 128, 128, "none", "append"),
    Nand(\hD5, \h0A, 256, 2, 128, 128, "none", "append"),
    Nand(\hD5, \h1E, 256, 2, 64, 128, "none", "append"),
    Nand(\hD5, \h10, 256, 2, 128, 128, "none", "append"),
    Nand(\hD5, \h03, 512, 4, 256, 256, "none", "append")>>

Toshiba ==
  <<Nand(\h98, \hC2, 128, 2, 64, 128, "none", "append"),
    Nand(\h98, \hCB, 256, 2, 64, 128, "none", "append"),
    Nand(\h98, \hCD, 512, 4, 128, 256, "none", "append"),
    Nand(\h98, \hED, 512, 4, 128, 256, "none", "append")>>

Micron ==
  <<Nand(\h2C, \h14, 128, 2, 128, 128, "none", "append"),
    Nand(\h2C, \h24, 256, 2, 128, 128, "plane", "append"),
    Nand(\h2C, \h36, 512, 2, 128, 128, "plane_die2", "append")>>

Heyang ==
  <<Nand(\hC9, \h51, 128, 2, 128, 128, "none", "append"),
    Nand(\hC9, \h52, 256, 2, 128, 128, "none", "append"),
    Nand(\hC9, \h5A, 256, 2, 128, 128, "none", "append"),
    Nand(\hC9, \h21, 128, 2, 64, 128, "none", "append"),
    Nand(\hC9, \h22, 256, 2, 64, 128, "none", "append")>>

PnAndAto ==
  <<Nand(\hA1, \hE1, 128, 2, 128, 128, "none", "append"),
    Nand(\hA1, \hE2, 256, 2, 128, 128, "none", "append"),
    Nand(\h9B, \h12, 128, 2, 64, 128, "none", "append"),
    Nand(\h9B, \hF1, 256, 2, 64, 128, "none", "append"),
    Nand(\hAD, \hDA, 256, 2, 128, 128, "none", "append")>>

Fm ==
  <<Nand(\hA1, \hA1, 128, 2, 128, 128, "none", "append"),
    Nand(\hA1, \hE4, 128, 2, 64, 128, "none", "append"),
    Nand(\hA1, \hD1, 128, 2, 128, 128, "none", "append"),
    Nand(\hA1, \hD2, 256, 2, 128, 128, "none", "append"),
    Nand(\hA1, \h92, 256, 2, 64, 128, "none", "append"),
    Nand(\hA1, \hF2, 256, 2, 64, 128, "none", "append")>>

XtxAndMira ==
  <<Nand(\h0B, \hF2, 256, 2, 64, 128, "none", "append"),
    Nand(\h0B, \hE1, 128, 2, 64, 128, "none", "append"),
    Nand(\h0B, \hE2, 256, 2, 64, 128, "none", "append"),
    Nand(\hC8, \h21, 128, 2, 64, 128, "none", "append")>>

Biwin ==
  <<Nand(\hBC, \hB1, 256, 2, 64, 128, "none", "append"),
    Nand(\hBC, \hB2, 256, 2, 128, 128, "none", "append")>>

Foresee ==
  <<Nand(\hCD, \hA1, 128, 2, 64, 128, "none", "append"),
    Nand(\hCD, \hB1, 128, 2, 64, 128, "none", "append"),
    Nand(\hCD, \hA2, 256, 2, 128, 128, "none", "append"),
    Nand(\hCD, \hB2, 256, 2, 128, 128, "none", "append"),
    Nand(\hCD, \hEB, 256, 2, 64, 128, "none", "append"),
    Nand(\hCD, \hEC, 512, 2, 64, 128, "none", "append"),
    Nand(\hCD, \hEA, 128, 2, 64, 128, "none", "append")>>

DsAndFison ==
  <<Nand(\hE5, \h72, 256, 2, 64, 128, "plane", "append"),
    Nand(\hE5, \h71, 128, 2, 64, 128, "none", "append"),
    Nand(\h6B, \h00, 128, 2, 64, 128, "none", "append"),
    Nand(\h6B, \h01, 256, 2, 64, 128, "none", "append"),
    Nand(\h6B, \h10, 128, 2, 64, 128, "none", "append")>>

TymAndXincun ==
  <<Nand(\h19, \h01, 256, 2, 64, 128, "none", "append"),
    Nand(\h19, \h02, 256, 2, 64, 128, "none", "append"),
    Nand(\h19, \h03, 128, 2, 64, 128, "none", "append"),
    Nand(\h9C, \h01, 128, 2, 128, 128, "none", "append")>>

spi_nand_flash_tables ==
  FlattenSeq(<<Gigadevice, Esmt, Winbond, Mxic, Zentel, Etron1,
               Etron2, Toshiba, Micron, Heyang, PnAndAto, Fm,
               XtxAndMira, Biwin, Foresee, DsAndFison, TymAndXincun>>)

NandParts == ToSet(spi_nand_flash_tables)

NandType ==
  [kind: {"nand"}, mfr_id: 0 .. 255, dev_id: 0 .. 255, device_size: Nat, page_size: Nat,
   oob_size: Nat, erase_size: Nat, feature: Features, dummy_mode: {"append", "prepend"}]

ASSUME NandTable == spi_nand_flash_tables \in Seq(NandType)

(* The first entry that spi_nand_probe_matchid accepts; 0 if there is none. *)
spi_nand_probe_matchid(id) ==
  SelectInSeq(spi_nand_flash_tables, LAMBDA part : id = <<part.mfr_id, part.dev_id>>)

(* Every part has whole pages in a block and whole blocks in the device.   *)
ASSUME NandGeometry ==
  \A part \in NandParts : /\ part.erase_size % part.page_size = 0
                          /\ (part.device_size * 1024) % part.erase_size = 0
=============================================================================
