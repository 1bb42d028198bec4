----------------------------- MODULE SpiNorIds ------------------------------
(***************************************************************************)
(* The table of SPI NOR parts of src/src/spi_nor_ids.c, in its order: the   *)
(* first byte of the answer to RDID, the upper half of jedec_id (the lower  *)
(* half never decides a match), the number of sectors, all of 64 KiB,       *)
(* whether addresses have four bytes and whether the entry has callbacks    *)
(* for block protection.                                                    *)
(***************************************************************************)
EXTENDS Integers, Sequences, SequencesExt

NorBp(id, jedec, sectors, addr4b, bp) ==
  [kind |-> "nor", id |-> id, jedec |-> jedec, n_sectors |-> sectors, addr4b |-> addr4b = 1,
   bp |-> bp]

Nor(id, jedec, sectors, addr4b) == NorBp(id, jedec, sectors, addr4b, FALSE)

AtmelToMxic ==
  <<Nor(\h1F, \h4700, 64, 0), Nor(\h1F, \h4600, 32, 0),
    Nor(\h8C, \h2115, 32, 0), Nor(\h8C, \h4115, 32, 0), Nor(\h8C, \h2116, 64, 0),
    Nor(\h8C, \h4116, 64, 0), Nor(\h8C, \h2117, 128, 0), Nor(\h8C, \h4117, 128, 0),
    Nor(\hC8, \h4015, 32, 0), Nor(\hC8, \h4016, 64, 0), Nor(\hC8, \h4017, 128, 0),
    Nor(\hC8, \h4018, 256, 0), Nor(\hC8, \h4019, 512, 1),
    Nor(\hC2, \h2015, 32, 0), Nor(\hC2, \h2016, 64, 0), Nor(\hC2, \h2017, 128, 0),
    NorBp(\hC2, \h2018, 256, 0, TRUE), Nor(\hC2, \h2019, 512, 1), Nor(\hC2, \h201A, 1024, 1)>>

SpansionToEon ==
  <<Nor(\h01, \h0214, 32, 0), Nor(\h01, \h0216, 128, 0), Nor(\h01, \h0215, 64, 0),
    Nor(\h01, \h0216, 128, 0), Nor(\h01, \h2018, 256, 0), Nor(\h01, \h2018, 256, 0),
    Nor(\h01, \h0219, 512, 1), Nor(\h01, \h4015, 32, 0), Nor(\h01, \h4016, 64, 0),
    Nor(\h01, \h4017, 128, 0),
    Nor(\h1C, \h3115, 32, 0), Nor(\h1C, \h3015, 32, 0), Nor(\h1C, \h7015, 32, 0),
    Nor(\h1C, \h3016, 64, 0), Nor(\h1C, \h3116, 64, 0), Nor(\h1C, \h2017, 128, 0),
    Nor(\h1C, \h3017, 128, 0), Nor(\h1C, \h6017, 128, 0), Nor(\h1C, \h7017, 128, 0),
    Nor(\h1C, \h3018, 256, 0), Nor(\h1C, \h6018, 256, 0), Nor(\h1C, \h7018, 256, 0)>>

WinbondToMicron ==
  <<Nor(\hEF, \h3010, 1, 0), Nor(\hEF, \h3011, 2, 0), Nor(\hEF, \h3012, 4, 0),
    Nor(\hEF, \h3013, 8, 0), Nor(\hEF, \h3014, 16, 0), Nor(\hEF, \h3015, 32, 0),
    Nor(\hEF, \h3016, 64, 0), Nor(\hEF, \h3017, 128, 0), Nor(\hEF, \h4012, 4, 0),
    Nor(\hEF, \h5012, 4, 0), Nor(\hEF, \h6012, 4, 0), Nor(\hEF, \h5014, 16, 0),
    Nor(\hEF, \h4014, 16, 0), Nor(\hEF, \h4015, 32, 0), Nor(\hEF, \h7015, 32, 0),
    Nor(\hEF, \h4016, 64, 0), Nor(\hEF, \h6016, 64, 0), Nor(\hEF, \h4017, 128, 0),
    Nor(\hEF, \h6017, 128, 0), Nor(\hEF, \h4018, 256, 0), Nor(\hEF, \h6018, 256, 0),
    Nor(\hEF, \h4019, 512, 1), Nor(\hEF, \h7119, 1024, 1),
    Nor(\h20, \h2015, 32, 0), Nor(\h20, \hBA16, 64, 0), Nor(\h20, \hBA17, 128, 0),
    Nor(\h20, \h2018, 256, 0), Nor(\h20, \hBA18, 256, 0), Nor(\h20, \h4016, 64, 0),
    Nor(\h20, \h7016, 64, 0), Nor(\h20, \h7017, 128, 0), Nor(\h20, \h7018, 256, 0),
    Nor(\h20, \hBA19, 512, 1), Nor(\h20, \hBA20, 1024, 1)>>

OtherVendors ==
  <<Nor(\h5E, \h4015, 32, 0), Nor(\h5E, \h4016, 64, 0), Nor(\h5E, \h4017, 128, 0),
    Nor(\h5E, \h4018, 256, 0),
    Nor(\h68, \h4015, 32, 0), Nor(\h68, \h4016, 64, 0), Nor(\h68, \h4017, 128, 0),
    Nor(\h68, \h4018, 256, 0),
    Nor(\h0B, \h4015, 32, 0), Nor(\h0B, \h4016, 64, 0), Nor(\h0B, \h4017, 128, 0),
    Nor(\h0B, \h4018, 256, 0),
    Nor(\h7F, \h9D45, 32, 0), Nor(\h7F, \h9D46, 64, 0), Nor(\h7F, \h9D47, 128, 0),
    Nor(\h7F, \h9D48, 256, 0),
    Nor(\h9D, \h6015, 32, 0), Nor(\h9D, \h6016, 64, 0), Nor(\h9D, \h6017, 128, 0),
    Nor(\h9D, \h6018, 256, 0),
    Nor(\hA1, \h4015, 32, 0), Nor(\hA1, \h4016, 64, 0), Nor(\hA1, \h4017, 128, 0),
    Nor(\hA1, \h4018, 256, 0), Nor(\hA1, \h2815, 32, 0), Nor(\hA1, \h2816, 64, 0),
    Nor(\hA1, \h2817, 128, 0), Nor(\hA1, \h2818, 256, 0),
    Nor(\hF8, \h3215, 32, 0), Nor(\hF8, \h3216, 64, 0), Nor(\hF8, \h3217, 128, 0),
    Nor(\hF8, \h3218, 256, 0),
    Nor(\hE0, \h4015, 32, 0), Nor(\hE0, \h4016, 64, 0), Nor(\hE0, \h4017, 128, 0),
    Nor(\hE0, \h4018, 256, 0),
    Nor(\h85, \h6015, 32, 0), Nor(\h85, \h6016, 64, 0), Nor(\h85, \h6017, 128, 0),
    Nor(\h85, \h6018, 256, 0)>>

chips_data == FlattenSeq(<<AtmelToMxic, SpansionToEon, WinbondToMicron, OtherVendors>>)

NorParts == ToSet(chips_data)

NorType ==
  [kind: {"nor"}, id: 0 .. 255, jedec: 0 .. 65535, n_sectors: Nat, addr4b: BOOLEAN, bp: BOOLEAN]

ASSUME NorTable == chips_data \in Seq(NorType)

(* The first entry whose id is the first byte of the answer and whose upper *)
(* jedec half is the next two; 0 if there is none.                          *)
spi_nor_match(id) == SelectInSeq(chips_data, LAMBDA chip : id = <<chip.id, chip.jedec>>)

(* Three address bytes reach 256 sectors of 64 KiB: the entries that need a *)
(* fourth are the ones that have it.                                        *)
ASSUME NorAddressable == \A chip \in NorParts : chip.addr4b <=> chip.n_sectors > 256
=============================================================================
