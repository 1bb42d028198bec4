# snander electric boogaloo: TLA+ models and proofs

The program (`src/`) reads, writes, erases, locks and identifies SPI NOR, SPI
NAND and I2C EEPROM parts through a programmer. One process executes one
command line and exits; the part keeps its state and goes on working while no
process runs. This directory models the drivers, the main program that chooses
between them and the devices they talk to, checks them with TLC and proves
theorems about the NOR and NAND drivers, the main program with the EEPROM driver
and the search for a SPI part, and the Microwire driver with TLAPS.

## Inventory

| Component | State | Operations | Interacts with | What makes it correct |
|---|---|---|---|---|
| Flash layer (`flash.h`, `spi_nor_ids.c`) | `flash_status`: per region locked, want_to_lock, want_to_unlock | mark lock/unlock, overlap tests, fill flags from the BP bits and back | called by main and both drivers | a write of a protected region is refused; the flags are the chip's |
| SPI NOR driver (`spi_nor_flash.c`) | chip table entry; everything else is in the chip | probe, init, identify, read, write, verify, erase, lock, unlock; wait_ready and 4-byte mode inside them | SPI controller, `should_abort()`, flash layer | no command to a busy chip; addresses in the right mode; only the range changes; success means done; stops soon after ^C |
| SPI NAND driver (`spi_nand_flash.c`, `spi_nand_ids.c`) | `_die_id`, `page_buffer`, flags ecc_disable/ecc_ignore | probe, on-die ECC, identify (OTP), read, write, verify, erase, lock, unlock | the same | the right die; verified means in the array; failures of part and ECC reported; spare areas kept |
| Main flow (`main.c`) | cmdline, `killed`, controller handles | choose EEPROM or SPI, one action, cleanup; SIGINT handler | everything | cleanup on every path; ^C only asks for an abort |
| SPI flash / controllers (`spi_flash.c`, `spi_controller.c`) | - | NAND probe, then NOR; lookup by name | drivers | a NOR part is never driven as NAND |
| I2C EEPROM (`i2c_eeprom.c`) | - | read, write, erase in transfers | I2C controller | range and buffer offsets, write cycles, errors |
| MStar DDC (`mstarddc_spi.c`) | I2C handle, address | enable ISP, send command, end command, shutdown | I2C controller | a SPI command never starts inside one that was left open |
| Microwire (`mw_eeprom.c`, `bitbang_microwire.c`; not built) | globals | read, read-erase-write | GPIO | nothing outside the range lost |
| UI, files, timer | - | parsing, printing, mmap of the image | main | - |

Hard behaviours: the chip is a second, slower actor, so its operations end at
any moment or not at all; ^C sets a flag the driver polls in some loops only;
a process can be killed between two transactions and leaves the part busy,
write enabled, in 4-byte mode or in OTP mode for the next one; a transfer can
fail and its result is mostly ignored; status values are cached (region flags,
`_die_id`) and used later. `PROJECT.json` lists the hazards line by line.

## Modules

| Module | Models |
|---|---|
| `FlashRegions` | `flash.h` regions and the BP callbacks of `spi_nor_ids.c`, as operators over any number of regions and a uint32_t of `WordSize` values |
| `NorChip` | the NOR part (external): array, WIP, WEL, address mode, BP bits |
| `SpiNor` | processes of `main.c` around `spi_nor_flash.c`; properties and inductive invariants |
| `SpiNorProofs` | theorems about `SpiNor`: types, busy chip, address mode, protection |
| `SpiNorOutcomeProofs` | theorems about how an operation of `SpiNor` ends |
| `SpiNorArrayProofs` | theorems about what `SpiNor` does to the array, and that it implements `FlashCommand` |
| `FlashCommand` | abstract: what a user may expect of a command on a part, cell by cell |
| `SpiNorCommand` | `SpiNor` as a `FlashCommand` (refinement mapping) |
| `NandChip` | the NAND part (external): dies, pages with spare area, cache register, OIP, fail and ECC bits, BP, OTP mode, worn blocks and weak pages |
| `SpiNand` | processes of `main.c` around `spi_nand_flash.c` and the callbacks of `spi_nand_ids.c`; properties and inductive invariants |
| `Arithmetic` | lemmas about products, quotients and remainders of natural numbers |
| `SpiNandProofs` | theorems about what `SpiNand` sends: types, busy chip, ^C, die, ECC, OTP mode |
| `SpiNandDataProofs` | theorems about what `SpiNand` does to the array: erase, read, verify, confinement |
| `Process` | what the modules below share: bench, process, transfers that may fail |
| `I2cEeprom` | `i2c_eeprom.c` and the EEPROM (external) with its write cycle |
| `MstarDdc` | `mstarddc_spi.c` and the monitor (external) with ISP mode and chip select |
| `SpiNandIds`, `SpiNorIds` | the tables of parts and their lookup, entry by entry |
| `SpiFlash` | `spi_flash.c`: three NAND protocols and RDID, then the commands of the action |
| `Session` | command line, `main.c` from start to exit; composes `I2cEeprom`, `MstarDdc`, `SpiFlash` |
| `SessionProofs` | theorems about `Session`: types, monitor, controllers, EEPROM commands, the search for a SPI part |
| `Microwire` | `mw_eeprom.c` and `bitbang_microwire.c` and the part (external), instruction by instruction |
| `MicrowireProofs` | theorems about `Microwire`: types, busy part, what a call does to the part |
| `MCSpiNor`, `MCSpiNand`, `MCSession`, `MCMicrowire` | benches and command lines for TLC |

`SpiNor` extends `NorChip`, `SpiNand` extends `NandChip`, and both chips extend
`FlashRegions`. `Session` extends `I2cEeprom` and `SpiFlash`, which extends
`MstarDdc` and the two tables; all stand on `Process`.

In every driver `pc` is the next transaction or decision, named with a prefix
for the operation (`wr_` write, `er_`/`se_` erase, `ee_` EEPROM, `ddc_`
monitor), and an action is one transaction together with what the code does up
to the next one. Shared subroutines (`spi_nor_wait_ready`, `snor_4byte_mode`,
`spi_nand_read_page`) are modelled once and return to a label. The definitions
carry the names of the functions; `map` in `PROJECT.json` gives the lines.
`killed` and `_die_id` are the statics they are in the code, `ret` is what
`ui_op_status` prints, `i` is the loop offset, `handles` is what is open.
History variables (`fault`, `late`, `afterKill`, `selected`, `uncorrectable`,
`misread`, `verified`, `nak`, `idle0`, `spiChanged`, `before`, `busy0`) are
read by no guard of the program, except that `fault` limits failures to one.

`Session` and the driver modules overlap on purpose. `Session` has the whole
way from the command line to exit, with the part of every table entry; a
command of the action on a SPI part is reduced there to a few SPI commands that
may change the part ("op"). `SpiNor` and `SpiNand` start when their part was
found and have all of the action.

Abstractions:
- A cell is a byte or a run of bytes, and its value is told by what the
  properties compare: erased, old, the image's byte for this cell, anything
  else. Programming clears bits: erased becomes the new value, any other
  mixture is "anything else".
- A part applies a change when it accepts the command and is then busy for as
  long as it likes. It ignores commands while busy, except a status read; it
  does not answer a READ ID. Power loss is not modelled.
- At most one transfer of a process fails, having reached the part or not. A
  command reaches the part whole or not at all. A read that fails leaves the
  variable as it was or uninitialised (any value; in `Session` one of
  `Garbage`). Controllers are assumed to report errors as negative numbers.
  Where the code looks at one transfer of a command only, a failure of the
  others goes on as if nothing had happened: `spi_nor_wait_ready` may take any
  status for the chip's when the RDSR opcode was lost (`spi_nor_flash.c:279`,
  history variable `misread`), and a NOR page whose opcode or address was lost
  is waited for all the same.
- A crash is SIGKILL or a failed `assert` between two transactions. An access
  to memory that does not exist (an error pointer, a buffer's end) ends the
  process; where the build may also survive it, both are possible.
- Opening and mapping the image succeeds, except for an empty one.
- The loop variables of the code are `int`: requests past 2^31 are outside.
- NAND: die select 1 and 2 differ only in the transfer used; the plane bit is
  set from the page number right before each use. The ECC bit is in the
  feature register, or for PN, FM, FORESEE and one XTX part in another one
  (`spi_nand_flash.c:1424`) that is read and written back in the same way: one
  bit per die stands for either. `SpiNand` has the features
  of a table entry the code branches on. `want_to_lock` and `want_to_unlock`
  are only printed there.
- The tables keep identification and geometry of an entry, which is what its
  lookup and `org` use; names, layouts and callbacks are in the modules above.
- EEPROM: the part takes two address bytes and has no more cells than those
  reach. The 10 ms after a page outlast its write cycle.
- Monitor: the word that enables ISP mode is refused in ISP mode, everything
  else outside of it; switching the monitor off and on leaves the mode.
- Microwire: GPIO calls do not fail; `i` counts looks at the ready line up to
  `PollLimit` for 10000.

## Runs

| Run | Shows |
|---|---|
| `nor_protect` (pass) | part with block protection: what lock and unlock may change, refused writes, confinement, ^C |
| `nor_fourbyte` (pass) | part with 4-byte addresses: mode switching, verify, a failed transfer, termination, refinement of `FlashCommand` |
| `nand_single` (pass) | one die, worn block, weak page, blank page, protection: verify, erase, read, confinement, ^C, OTP mode |
| `nand_dies` (pass) | two dies: die selection, ECC on every die all through an action, identify and `--disableecc` among the commands, termination, a failed transfer |
| `session` (pass) | command lines from start to exit: the right part found, controllers closed, monitor left usable, EEPROM commands |
| `microwire` (pass) | read-erase-write of a Microwire part: what success means, what a kill can cost, polls and write enable |
| `nor_erase_at_offset` (violation) | a partial erase starts at 0 whatever `-a` says |
| `nor_protected_tail` (violation) | a write that reaches the end of the device crosses protected sectors |
| `nor_bp3_is_epe` (violation) | once locked, the part never looks ready: BP3 is taken for EPE |
| `nand_die_select` (violation) | initialisation leaves the last die selected; a verified write of the first lands in the last |
| `nand_ecc_swallowed` (violation) | an uncorrectable page is read with success |
| `nand_oob_zeroed` (violation) | a write of part of a page zeroes its spare area |

### The refinement

`FlashCommand` knows cells, the command and the set of cells it has not got to
(`left`): working on a command takes cells out of `left` and changes them once;
success needs `left` empty. A command that was told to stop, or whose wait gave
up, may leave cells out and its phase ends as "over", never as "ok"; one that
lost a transfer, or asked for a range nothing can be promised for, is "loose".
These are phases of the abstract command, not what is printed: the code prints
"Status: OK" for an interrupted write as well, and the mapping makes "ok" of
that only when the process was not disturbed. `SpiNorCommand`
maps `left` to the cells of the request from the loop offset on, or from the
chunk after it once the current one was sent. `nor_fourbyte` checks that every
step of the driver, the chip, the user and a crash is a step of `FlashCommand`
or changes nothing in it. Where the mapping says "loose" follows the findings:
an erase from an address other than 0 (`nor_erase_at_offset`), and writes that
are not whole pages.

### What `session` shows

- `RightPart`: trying three NAND protocols on a NOR part, or the wrong one on a
  NAND part, never finds an entry by accident, for all entries of both tables:
  entries with the same identification have the same geometry. It fails only
  where the result of the second protocol is ignored and the transfer failed.
- `FreshCommand`: a process killed in a SPI command leaves the chip select of
  the monitor held and nobody leaves ISP mode, so the next process's word is
  refused, and only therefore it sends the END command that releases it. The
  odd order in `mstarddc_spi_enableisp` is what makes this work.
- `SpiTouchedOnRequest`, `ConnstringGiven`, `CleanExit`: the ways through
  `main`, including the one from a failed EEPROM initialisation into SPI mode.
- `EepromOkIsDone`, `EepromConfined`: where "Status: OK" of an EEPROM command is
  true, and what it changes.

### Bounds, and why they are enough

- Processes follow one another without limit: the state space is finite
  because the history is reset with each process.
- NOR: four one-page sectors, or two sectors of two pages. The BP values
  taken select none, part and all of the device; four sectors are the fewest
  in which a fraction (1/2 for BP 8, and 1/4 for BP 7) protects a proper part. Requests
  include whole device, a partial range, one that abuts the protected sectors,
  one that crosses them, one past the end, one that wraps in uint32_t, an
  unaligned one and length 0. `PollLimit = 2` distinguishes a first, a further
  and a last poll. `Faults` is FALSE in `nor_protect`, where it would multiply
  the states; `nor_fourbyte` has it TRUE.
  Locks are of the whole device, of its last sector and of its lower half, the
  one that has to be dropped.
- NAND: two blocks of two pages of two cells distinguish block from page and
  page from cell; a partial page, a write that spans two blocks, a blank page,
  a worn block, an uncorrectable page and BP values between none and all
  occur. `nand_dies` has one page per die, the least in which an operation
  goes from one die to the next and verify comes back.
- Session: both tables are whole. An EEPROM of two pages of two bytes, and a
  controller that transfers three bytes at once, have a transfer across a page,
  a range that ends in a page, one past the end and one that wraps.
  `MaxCommands = 2` commands of an action are one that is followed by another
  and one that is not. `Garbage` is zeroes and the identification of some
  part, `FileMax = 5` is the longest request, one more than
  the EEPROM has, and `WordSize = 16` its uint32_t.
- Microwire: parts of four bytes, as two words and as four; a first, a middle
  and a last one. The address bits of the real sizes are checked by the
  assumption `EveryWordAddressable`. Ranges beyond the 4096 bytes of the
  driver's copy are left out: what they do to the process is undefined.
- `WordSize = 16` is the uint32_t; `afterKill` stops at 2, where it is wrong.

### Fairness

`SpiNor`: weak fairness of the program's own steps only. A process is one
thread that is never blocked: every transfer returns and every wait has a
limit. The chip may stay busy for ever and `Terminates` still holds.
`SpiNand`: also weak fairness of `ChipStep`, because the polls of the NAND
driver have no limit; parts specify a maximal program and erase time. There
`Terminates` says that the program ends if the part does.
`Session` and `Microwire` state the same weak fairness of the program with its
enabling condition written out (`Scheduled`: infinitely often the program
cannot run, or infinitely often it takes a step), which TLC evaluates much
faster than ENABLED of their `Program`. In `Session` the program waits only in
`usleep`, which lasts longer than the part's write cycle (`WF(PartDone)`).
No fairness is assumed of the user, of crashes or of failing transfers.

### Findings

The six violation runs are disagreements between the code and what a comment
or the help text says; `PROJECT.json` quotes each. Two have a passing
counterpart that says what does hold: `AcceptedWriteUnprotected` (writes that
end before the last cell), and `RightDie` (every die but the first, and the
first once a die was selected).

Two more contradict the help text. Both are a single assignment, plain in the
code, so no run is spent on them; the models have them:

- `--disableecc` is "disable internal ECC, read and write will be in page + OOB
  units" (`ui.c:168`). `spi_nand_enable_ondie_ecc` turns the ECC on whatever the
  option says (`ECC_fcheck = 1`, `spi_nand_flash.c:1389` and below), and the
  flag only makes the page longer. `EccOnEveryDie` therefore speaks of command
  lines without the option.
- A lock of a NAND part writes BP bits of 0, which unlocks it
  (`spi_nand_ids.c:53`); `ui.c:158` says "Lock areas of the device".

What else the code does that its user would not expect, where no text of the
repository says otherwise; each is in the model, and the property named says
how far the code is right:

- A NOR write that ^C, a wait that gave up or a failed transfer stopped in the
  middle prints "Status: OK" (`spi_nor_flash.c:525`): `ReportedOkIsDone` and
  `ImplementsFlashCommand` claim something for writes that nothing disturbed.
- A NOR lock of part of the device is dropped without a word
  (`spi_nor_ids.c:90`): `LockAsAsked` says that it changes nothing it was not
  asked to, not that it does what it was asked to.
- A verification that ^C stops returns 0 (`spi_nand_flash.c:1556`):
  `VerifiedIsWritten` says that it holds for the pages it got to.
- A NAND erase from a misaligned address is refused with a positive code that
  `ui_op_status` prints as "Status: OK" (`ui.c:514`); `Confined` says that the
  array stays as it was.

- A failed EEPROM initialisation goes on in SPI mode with the same action: with
  `-E`, an erase can reach the NOR part of the same CH341A
  (`SpiTouchedOnRequest` allows it only then, `main.c:262`).
- `-E` with `-p i2cdev` opens the controller with a connection string that is an
  uninitialised pointer (`ui.c:261`); the process ends there in the model.
- EEPROM reads and writes from an address other than 0 use `buf + off`
  (`i2c_eeprom.c:51`, `:126`), a write always sends whole pages, and erase does
  not wait for the write cycles (`i2c_eeprom.c:95`): `EepromOkIsDone` speaks of
  whole pages from address 0, and of an erase none of whose transfers were
  refused. A part that does not answer is read and written with "OK" too; the
  property says nothing of a part busy at the start or a transfer that failed.
- The EEPROM operations return the length, which `do_write` takes for a failure
  when it decides whether to verify (`main.c:173`): `-v` does nothing on an EEPROM.
- `cleanup` shuts down an I2C controller that was never opened (`main.c:193`):
  `ShutsDownClosed`, where the process may end.
- An erase of a Microwire part that runs out of polls goes on as if it were
  done, and a call that is killed loses what it had read
  (`OnlyBlanked`). A call that starts while the part is still busy with one
  that was killed reads nothing and writes it back; the properties exclude it
  (`busy0`).

## Proofs

### The NOR driver (`SpiNorProofs`, `SpiNorOutcomeProofs`, `SpiNorArrayProofs`)

For every device, sector and page size, poll limit, kind of part, set of
command lines and BP value at start, with and without failing transfers, under
`RegionsAssumption`, `ChipAssumption` and `NorAssumption` (positive sizes,
sectors of whole pages, a device smaller than the uint32_t range):

- `TypeCorrect`: `TypeOK` is inductive.
- `BusyChipSafe`: no read, program, erase, WRSR, nor the WREN before it, goes to
  a busy chip: after any ^C, kill, late wait or failed transfer but one, the
  loss of a status read's opcode, after which the code may see an idle chip
  where there is none (`misread`); for that one it is false. `BusyChipLeftAlone`
  is not inductive, since a wait may be on the way to
  such a label; `IdleChipInv` adds the labels a wait or a mode switch returns
  to, and that a wait whose result decides returned "ok" only when it saw the
  chip idle.
- `AddressModeCorrect`: unless a transfer failed the chip expects the number of address bytes
  the driver sends. `ModeInv` adds that entering the mode cannot fail after a
  wait that succeeded: such a wait saw BP3 clear, and so will the wait inside
  `snor_4byte_mode`. That is why its ignored result does no harm. Leaving the
  mode takes three commands on Winbond parts (`mode_4byte`, `write_enable`,
  `mode_ear`), between which a process can be killed.
- `ProtectionSound`: an accepted write that ends before the last cell touches
  no protected sector. `FlagsInv` says the region flags are the chip's from
  initialisation to exit, for lock and unlock until they send the BP bits;
  `TopDownCheckSuffices` is the arithmetic: regions are locked from the top
  down, so if any cell of the range is protected, the region of the end is.
- `AbortIsSoon`: after ^C at most one more erase or page program is sent.
  `AbortInv` lists the labels a process can be at, or return to from a wait or
  a mode switch, once it has sent that one; every way on from there looks at
  `killed` first.
- `PrintedStatusCorrect`: the lock status printed is the chip's. `OperationInv`
  keeps each operation at its own labels, so that lock and unlock exit through
  the read-back only; `RereadInv` says that the chip is idle there, so its BP
  bits do not change any more.
- `LockAsAskedCorrect`: the BP bits that lock and unlock write change the
  protection of sectors inside the request only, and only the way that was
  asked for; for the whole device they are 15 and 0. `LockInv` follows the
  marks to the encoded value, to the write enable latch, to the register;
  `MarksAsAsked` is about the callback: it encodes all, nothing, or what was
  there. `NewBits` says that no other action starts a change of the BP bits.
- `ExitCorrect`: a read, a verified write and an undisturbed write that say OK
  leave the chip idle and out of four byte mode, the first two even after ^C and
  waits that gave up; and no write that says OK leaves a write enable latch set
  which the operation in progress will not clear. `SettledInv` says that
  every wait of an undisturbed run succeeded, and after which labels that has
  settled the chip; `LeavingInv` that a read which has begun has seen the chip
  idle, so that nothing but a failed transfer keeps it from leaving the mode.
- `NorConfined`: no step changes a cell the command has no business with: a
  write stays in the pages its range meets (`PageMeetsRange`), and in the range
  itself when that is whole pages.
  `LoopInv` says where each loop is: at a multiple of its chunk below its end;
  `LatchInv` that a changing command finds the write enable latch set and no BP
  bits on their way. With them `PageProgram` and `ConfinedByInvariants` do the
  arithmetic of pages and sectors.
- `CommandImplemented`: every step maps to a step of `FlashCommand`, or changes
  nothing it sees. Most actions only move between labels (`QuietStep`), end a
  process (`ExitStep`, `QuitIsEnd`) or lose a transfer (`LooseStep`). The three
  that change the array are `ChangeStep`: the sector, the page or the part that
  is sent is exactly the set of cells that leaves `Left` (`EraseSectorWorks`,
  `WritePageWorks`, `BulkEraseWorks`).
- `NorOkIsDone`: `DoneInv` says that the cells of the range outside `Left` have
  been changed. It needs no look at the driver: it follows from the step of
  `FlashCommand` that `Simulation` finds, since only `Work` takes cells out of
  `Left`, and changes them.

### The NAND driver (`SpiNandProofs`, `SpiNandDataProofs`)

For every number of blocks, pages, cells and dies, every set of worn blocks and
weak pages, every kind of part, BP value at start and set of command lines,
with and without failing transfers, under `RegionsAssumption`, `ChipAssumption`
and `NandAssumption` (positive sizes, blocks of whole pages, a whole number of blocks in
a die, die selection exactly on parts with more than one die). The
invariants are in the last section of `SpiNand`, each checked by TLC first.

- `NandTypeCorrect`: `TypeOK` is inductive; that the next row is a page of the part
  comes from the arithmetic of addresses modulo the uint32_t.
- `NandBusyChipSafe`: here `BusyChipLeftAlone` is inductive as it stands: every
  command that starts an operation is followed by a poll which only ends when
  the part does.
- `NandAbortIsSoon`: `OperationInv` keeps each operation, and the page read it
  calls, at its own labels; `AbortInv` names those where ^C can find one more
  command sent: all of them lead to a look at `killed`.
- `RightDieCorrect`: `DieInv` says that once a die was selected `_die_id` is
  the selected die, unless a transfer failed, and that before that the last
  die is selected and `_die_id` is 0; and that from the selection to the
  command the row does not move.
- `EccCorrect`, `IdentifyCorrect`: `EccInv` follows the initialisation over the
  dies, those below the loop variable being done, and says that no later step,
  identify's two register updates included, turns one off; `OtpInv` adds the
  way out of identify. `EccInv` has no exception for `--disableecc`, which the
  code does not have either.
- `EraseCorrect`, `ReadCorrect`, `VerifyCorrect`: what a command that says OK
  has done, stated for `BeyondFirstDie`: for the first of several dies it is
  false, as `nand_die_select` shows. `PageInv` keeps the offset at a page
  inside the range. `EraseInv` says that the blocks below the offset are
  erased and that the status of the last one is not lost. `LoadInv` says what
  the cache register and `page_buffer` hold of the page being read, with and
  without an ECC failure; `ReadInv` and `VerifyInv` say it of the
  pages before. `VerifyCorrect` assumes nothing of the write itself: it needs no invariant
  of the write loop, because verify reads back all that it promises; after ^C
  that is the pages up to the one it stopped at.
- `ConfinedCorrect`, `SingleDieConfined`: no step changes a cell that the request does
  not own. `ProgramInv` says what `page_buffer` and the cache register hold
  before a program: outside of the range the erased value or what the array
  had, unless a page could not be read. On a part with several dies it is proved while the driver and the part
  agree on the die (`DieInv` needs no failed transfer and a request beyond the
  first die); with one die, of every step.

`Arithmetic` has what these proofs keep needing: a quotient is determined by
the interval its dividend is in, multiples of a page are a page apart.

### Sessions (`SessionProofs`)

For every set of benches, EEPROM geometry, longest transfer, contents of
uninitialised memory and number of commands in an action, under
`ProcessAssumption` and `SessionAssumption` (each bench has a part of the tables,
command lines are of the type `LineType`), `EepromAssumption` (whole pages;
an EEPROM no larger than the longest request, twice which is a uint32_t) and `PartsTold`. `SessionInv` has four parts:

- `LineInv`: which programmer, and so which way through `main`, a label belongs
  to. It gives `ConnstringsGiven`: the connection string, which only
  `ui_handle_cmdline` tests, is there when `mstarddc_parse_connstr` reads it.
- `MonitorInv`: between two commands of a process the monitor is in ISP mode and
  its chip select is released, unless the release failed. The step that
  matters is the opening (`DdcSession`): the monitor refuses the word exactly
  when it is in ISP mode already, and only then can its chip select be held;
  END is sent exactly then. It gives `FreshCommands`.
- `HandlesInv`: a process has a controller of `-E` or of `mstarddc` open below it,
  never both, which is why `cleanup` closes everything: `CleanExits`.
- `TouchInv`: an EEPROM command gets to a SPI part only past an I2C controller
  that could not be opened: `TouchedOnRequest`.

`SessionTypeCorrect` needs `SessionInv` where a variable is only defined on some
paths, and what the lookups of the two tables return (`LeastIndex`, `NandMatch`,
`NorMatch`); that the tables themselves are of their types is an assumption TLC
evaluates.

EEPROM commands:

- `EepromLoopInv` says which loop an EEPROM command is in, and that its offset
  is inside its range. It gives `EepromConfines`: the cell or the page that a
  transfer changes is one the range meets.
- `EepromDoneInv` says that the range is done up to the offset, and in the sleep after
  a page up to the end of that page, when the process began with an idle part,
  lost no transfer and works on whole pages from address 0: then
  `buf + off` is the byte it should be, the write of a page does not wrap in it
  (`PageCells`), and the sleep outlasts the cycle. It gives `EepromCorrect`.

The search for a SPI part, `RightPartFound`:

- `PartsTold` is about the tables alone: an id that the first, second or RDID
  protocol makes of a part's answer is that of no other entry, and a part that
  is listed and found by neither NAND protocol is found by RDID. The third
  protocol may lose single bytes; its garbled ids are asked only for parts that
  neither of the first two finds. Without this restriction it is false: seven
  NAND parts would be taken for other entries if the third protocol were ever
  used on them. TLC evaluates it for every entry of both tables, so changing a
  table entry checks it again.
- `SearchInv` says that the id at the end of a protocol is made of what the part
  answered, or of the silence of a part that was not reached; `TriedInv`, that
  while nothing failed the protocols before this one found nothing.

### Microwire (`MicrowireProofs`)

For every set of parts and calls and every poll limit, under
`MicrowireAssumption`. `BusyPartSafe`: no instruction goes to a part that is busy
with one of this call, unless a wait gave up. `IdlePartInv` says where the part
may be busy at all: in a poll, between calls, after a wait that gave up, or when
the call began so.

Four theorems assume `PartsFit`: the part has the address bits that
`addr_nbits` sends, enough to name every word. `ListedPartsFit` proves it of the
parts of `mw_eepromlist` without `-f`, from `EveryWordAddressable`. Where it does
not hold the properties do not either: with `-f` or a size that is not
listed the part does not understand the driver.

- `CallInv` says what a call does at a label and where its word counter is at 0. It
  gives `LeavesWriteDisabled`.
- `CopyInv` says what the driver's copy holds: what was read, word by word, and
  after the merge what the part is to hold. Until the erase, the part is as it was.
- `ProgressInv` says the same of the part: blank after the erase, then written
  word by word; if a wait gave up, each byte is still one of the old, the blank
  and the wanted one. With `CopyInv` it gives `MicrowireCorrect` and `OnlyBlanksBytes`.
- `MicrowireTypeCorrect` follows from the same invariant: a word read, merged or
  written is one of the part.

That a part takes an instruction as the driver meant it is a fact about numbers
and their bits. `InstructionsMeant` states it and TLC evaluates it for all address
lengths and words of the listed parts; the proofs use it as it stands.

### Only model-checked

Every invariant and safety property of the passing runs is a theorem, but these:

- `Terminates` of the four models: liveness under fairness is beyond the prover, and so
  is ENABLED.
- `PartsTold`, `InstructionsMeant` and `EveryWordAddressable`, which the proofs
  assume: facts about tables and bits that TLC evaluates completely, at every
  start of a run. `PartsTold` is evaluated for a bus that floats high
  (`Floating = 255`).
- The six violations, which are counterexamples.

All inductive invariants were checked by TLC before they were proved.

## Plan

Done: the modules above, their twelve runs, the refinement of `FlashCommand`
by `SpiNor`, and thirty-five theorems. Worth proving next, in this order:

1. `SpiNand` as a `FlashCommand`, for requests beyond the first die: a mapping
   like `SpiNorCommand`, with the steps of `ConfinedCorrect` and `EraseCorrect`.
2. `FlashRegions`: that the BP callbacks are inverse to each other.

## Not modelled

- `ui.c`: getting names and numbers out of strings, help, lists and progress
  lines. Which command lines are accepted is in `Session`.
- `file.c` (stat, open, mmap of the image), `timer.c`, `cmdbuff.h`: no state a
  property is about.
- `spi_nand_flash_junk.c` and `i2c_controller_old.h`: not compiled, and
  included by nothing.
- The wrappers of `i2c_controller.c` and `spi_controller.c` around libusrio and
  libch341a, which are submodules outside the repository; what they do to the
  caller is `Outcome` and `Opened`.
- Microwire: parsing of the part's name and of the organisation
  (`deviceSize_3wire`), an address length that does not fit the part, GPIO calls
  that fail. No build file names this code.
- EEPROMs with one address byte, and the upper half of a 24c1024: the driver
  ignores both fields (`i2c_eeprom.c:49`).
