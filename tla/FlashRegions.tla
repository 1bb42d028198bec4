---------------------------- MODULE FlashRegions ----------------------------
(***************************************************************************)
(* The block protection bookkeeping of src/src/flash.h and the callbacks   *)
(* of src/src/spi_nor_ids.c that translate between the BP bits of a NOR    *)
(* status register and the flash_status regions.                           *)
(*                                                                         *)
(* flash_status->regions[] is a set of functions over Region, one per flag *)
(* (locked, want_to_lock, want_to_unlock); a region's addresses follow     *)
(* from its index because every region is one sector.  Addresses are       *)
(* uint32_t in the code: arithmetic on them is modulo WordSize.            *)
(***************************************************************************)
EXTENDS Integers

CONSTANTS NumRegions,   \* flash_status->num_regions, the sectors of the part
          RegionSize,   \* addressable cells in a sector
          WordSize      \* 2^32 in the code: the modulus of uint32_t

ASSUME RegionsAssumption ==
  /\ NumRegions \in Nat \ {0}
  /\ RegionSize \in Nat \ {0}
  /\ WordSize \in Nat \ {0}
  /\ NumRegions * RegionSize < WordSize

Region == 0 .. NumRegions - 1
Word   == 0 .. WordSize - 1
Bp     == 0 .. 15                       \* bits 5..2 of the status register

DeviceSize == NumRegions * RegionSize   \* flash->org.device_size

AddrStart(i) == i * RegionSize
AddrEnd(i)   == i * RegionSize + (RegionSize - 1)

(* offset + len, in uint32_t. *)
EndOf(offset, len) == (offset + len) % WordSize

(***************************************************************************)
(* flash.h                                                                 *)
(***************************************************************************)

(* Is the whole of region i inside the request? *)
flash_range_contains_region(i, offset, len) ==
  /\ AddrStart(i) >= offset /\ AddrStart(i) < EndOf(offset, len)
  /\ AddrEnd(i) >= offset /\ AddrEnd(i) < EndOf(offset, len)

(* Is either end of the request inside region i?  "end" is one past the    *)
(* last cell of the request, and is compared inclusively.                  *)
flash_region_contains(i, offset, len) ==
  \/ AddrStart(i) <= offset /\ offset <= AddrEnd(i)
  \/ AddrStart(i) <= EndOf(offset, len) /\ EndOf(offset, len) <= AddrEnd(i)

(* The start of the request only. *)
MutContainsProtectedBlocks(locked, offset, len) ==
  \E i \in Region : locked[i] /\ AddrStart(i) <= offset /\ offset <= AddrEnd(i)

flash_contains_protected_blocks(locked, offset, len) ==
  \E i \in Region : locked[i] /\ flash_region_contains(i, offset, len)

(* want_to_unlock and want_to_lock of every region after the mark calls. *)
flash_mark_unlock(locked, offset, len) ==
  [i \in Region |-> locked[i] /\ flash_range_contains_region(i, offset, len)]

flash_mark_lock(locked, offset, len) ==
  [i \in Region |-> ~locked[i] /\ flash_range_contains_region(i, offset, len)]

(***************************************************************************)
(* spi_nor_ids.c                                                           *)
(***************************************************************************)

(* How many sectors, counted from the top, a BP value protects: none, a    *)
(* fraction for 1..8, everything above.                                    *)
Fraction == <<256, 128, 64, 32, 16, 8, 4, 2>>

ProtectedRegions(b) ==
  CASE b = 0      -> 0
    [] b \in 1..8 -> NumRegions \div Fraction[b]
    [] OTHER      -> NumRegions

(* region->locked of every region, filled from the register. *)
spi_nor_bp_bit2_to_bit5_top_down(b) ==
  [i \in Region |-> i >= NumRegions - ProtectedRegions(b)]

(* Would region i be locked once the marks are applied? *)
WantedLocked(i, locked, want_to_lock, want_to_unlock) ==
  want_to_lock[i] \/ (locked[i] /\ ~want_to_unlock[i])

(* The mask of bits 6..2. *)
MutSetBp(b, locked, want_to_lock, want_to_unlock) ==
  IF \A i \in Region : WantedLocked(i, locked, want_to_lock, want_to_unlock) THEN 31 ELSE b

(* All of the device as soon as one region is wanted. *)
MutAnyLocked(b, locked, want_to_lock, want_to_unlock) ==
  IF \E i \in Region : WantedLocked(i, locked, want_to_lock, want_to_unlock) THEN 15 ELSE 0

(* The BP bits to write.  Only "everything" and "nothing" are encoded; for *)
(* any other wish the register value is left as it was read (a locked      *)
(* sector below an unlocked one gives -EINVAL, which the caller ignores).  *)
spi_nor_set_bit2_to_bit5_top_down(b, locked, want_to_lock, want_to_unlock) ==
  IF \A i \in Region : WantedLocked(i, locked, want_to_lock, want_to_unlock) THEN 15
  ELSE IF \A i \in Region : ~WantedLocked(i, locked, want_to_lock, want_to_unlock) THEN 0
  ELSE b
=============================================================================
