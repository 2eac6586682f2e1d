# Verification of the Realtek 1195 firmware installer (install_a)

`install_a` runs on a set-top board, takes an `install.img` package from USB or
flash, and writes boot code, kernels, file systems and their descriptors to NOR,
NAND or eMMC flash. It keeps its own persistent state in the *factory area*, two
slots of the boot flash that are written in turn. This directory holds TLA+
models of the installer, TLC configurations and TLAPS proofs. The Makefile's ARM
build is the one modelled: `EMMC_SUPPORT` on, `NAS_ENABLE`, `PC_SIMULATE` and
`__OFFLINE_GENERATE_BIN__` off.

## 1. Inventory

| Component | Code | State | Operations | What makes it correct | Modules |
|---|---|---|---|---|---|
| factory area | `rtk_factory.cpp`, callers in `rtk_boottable.cpp`, `rtk_burn.cpp` | two flash slots, page cache, `/tmp/factory`, statics `is_init`, `current_pp`, `seq_num` | load, flush, write_boottable, install_factory, create/remove file, check_update_bootcode, flush_pingpong | a power cut leaves the old or the new contents; what was acknowledged is durable; a load reads the last flush | `Factory`, `FactoryStore` |
| burn order | `rtk_tagflow.cpp` | `boottable.tag`, boot table, flash regions | one step per tag, NAND/NOR and eMMC variants | required images before COMPLETE; a failure stops the burn; the table lists what was burned | `TagFlow`, `BurnPlan` |
| boot table | `rtk_boottable.cpp` | `S_BOOTTABLE`: firmware list, part list, tag | read, write, add, remove, update | what is read back is what was written; part list consistent | in `TagFlow`, `Install` |
| install driver | `install_a.cpp`, `rtk_main.cpp` | return code, boot table, signature, fuses, progress screen | `rtk_burn_rtkimg_from_usb`, its gates, modes and error exits | success is reported only for a complete burn; nothing in the flash names images that are gone | `Install` |
| firmware descriptor, signature | `rtk_burn.cpp`, `rtk_fwdesc.cpp`, `rtk_mtd.cpp` | descriptor in memory and behind the boot code | build, save (NAND, eMMC), load, modify_signature | the boot code never takes a descriptor that does not describe the images | `Fwdesc` |
| image burn and verify, boot code | `rtk_burn.cpp`, `rtk_common.cpp` | flash blocks | erase, write, verify; four copies of the boot code on NAND | a reported image is whole; nothing else is touched; some boot code survives | `Burn` |
| flash layout | `rtk_imgdesc.cpp` | size and offset of each image, half of a safe upgrade | `fill_rtkimgdesc_layout`, erasure of the free space | areas disjoint; the half in use is left alone | `Layout` |
| MBR/EBR | `rtk_boottable.cpp`, `rtk_mtd.cpp` | `mbr[8]`, partition index, sectors | `write_boottable_emmc`, `rtk_set_mbr`, format | the partitions Linux finds are the areas of the layout | `EmmcMbr` |
| package reader | `rtk_tar.cpp` | file table of the tar | parse_tar | every member found once, at its offset | - |
| configuration | `rtk_config.cpp`, `rtk_parameter.cpp` | `t_rtkimgdesc` fields | key=value parsing | text handling | - |
| customer report | `rtk_customer.cpp` | progress, result | write_progress, write_burn_result | result agrees with the return code | in `Install` |
| download | `rtk_urltar.cpp` | - | not reached by `main` | - | - |

The driver calls everything else in one thread; the parts interact through
`t_rtkimgdesc`, the boot table passed by pointer, and the flash. What is
concurrent is the kernel's writeback of the page cache and the power supply: a
power cut can fall between any two steps, and `main` ends in
`reboot(RB_AUTOBOOT)`, which does not write dirty pages. What is hard: crash
recovery of the two factory slots, error paths that ignore a failed call and go
on, tags that must not be skipped, statics that outlive a failed step, values
that were read before the flash was changed, and arithmetic at region
boundaries. `PROJECT.json` lists each hazard at its line.

How the modules divide this. Each looks at one component with all of its detail
and takes the others as coarse as that component sees them: `Layout` decides
where images go and `Burn` assumes that they have areas of their own (`LaidOut`,
which `AreasDisjoint` shows); `Burn` shows what one burn does to the blocks, and
`TagFlow` takes it as begin, done or fail; `TagFlow` shows that the order ends in
COMPLETE only with all images, and `Install` takes it as `BeginFlow`,
`FlowBurned`, `FlowFails`; `Factory` shows what flushes leave in the flash, and
`Install` takes it as the set `tables` of what a power cut may leave; `Fwdesc`
shows which descriptor is accepted, and `Install` takes it as old, resc, torn or
new.

## 2. Order of the work

Done, in this order: `Factory` with its register and proofs (section 3), `TagFlow`
with its plan and proofs (4), `Install` and its proofs (5), `Fwdesc` (6), `Burn`
(7), `EmmcMbr` and `Layout` with proofs (8); then the proofs of `Fwdesc` and `Burn`
and those that the other modules lacked.

Every safety property of a passing run is now proved too. Left to TLC is the liveness
(section 9), which the prover does not do. Section 9 also says what is not modelled
and why.

## 3. The factory area

`Factory.tla` models `rtk_factory.cpp` and every caller of `factory_load` and
`factory_flush`.

* `disk` is the flash and `cache` the block device as read through the page
  cache; a slot has a `head` (the 512-byte tar header with sequence number and
  size), a `body`, and a `tail` (the copy of the header). A tar is identified by
  its sequence number, its time stamp and the directory it packs. `Junk` is a
  part of no complete tar. `dir` is `/tmp/factory`; `is_init`, `current_pp`,
  `seq_num` are the statics of the same name.
* A call (`Call`) loads (`factory_load`, with the `factory_init` it makes the
  first time), edits the directory (`Edit`) and flushes. `factory_flush` is
  `TarFails`, `TarTooBig`, `Toggle` (the sequence number and `current_pp` move
  before anything is written), `DdHead`, `DdBody`, `DdTail`, `DdFails`, `Fsync`.
* `WriteHead`, `WriteBody`, `WriteTail` are the kernel; `Crash` is a power cut or
  the final reboot; `RunAgain` is the program started again with the page cache
  intact. `attempts`, `acked`, `tried` are history variables for the properties.
* With `CharIsSigned = FALSE` (the ARM ABI) `current_pp < 0` is never true, so a
  load with no valid slot empties the directory and reads past the area.

Assumptions. `Ordered`: the pages of one slot are written back in ascending
order, as a sequential dd to a block device is; without it the comparison of two
headers cannot vouch for the body. fsync on a block device waits for all its
dirty pages. The clock advances between two starts of the program (`MaxClock`),
so two starts never build the same header. The 32-bit counter does not wrap
within a run (`MaxSeq <= WrapGap`); the wrap is the subject of
`NewestAcrossTheWrap`. A part of the tar left at another offset by a tar of
another size is `Junk` or the slot's one tail. Offsets (`mtdblock4` and the rest
of `factory_init`) are not modelled.

`FactoryStore.tla` is what the callers may assume when every flush is synced and
dd does not fail: one atomic register. `FactoryImplements.tla` is the refinement
mapping: the stored value is what a fresh start would load from the flash.

### Runs

| Run | Question | Bounds |
|---|---|---|
| `factory_crash` | what a restart finds after dd failures, power cuts, unsynced flushes | 3 flushes numbered, 2 starts, ascending writeback |
| `factory_calls` | what a call that returned 0 has left; a slot holds 2 files so a tar can be too big | 4 flushes, 1 start |
| `factory_register` | refinement of the register (`ImplementsRegister`) and that every call returns (`CallsReturn`) | synced requests, 3 flushes, 2 starts, ascending writeback, loads may fail, dd cannot, `char` signed |

Three flushes show the two slots written, overwritten, and overwritten again
after a failure; a fourth is needed for a ping-pong of three after one other
flush. Two starts show a crash and its recovery; a third start meets the same
statics and a flash some first start could have left. The proofs remove the
bounds. `CallsReturn` assumes weak fairness of the program's own steps once a
call runs (it is one thread, no step waits for another except fsync) and of each
page's writeback (the kernel's flusher); dd failures are off in that run because
they are no part of what the register promises and would let a waiting fsync end
without the kernel. Deadlock is checked in every run of this module.

### What holds, and its limit

`OneAttemptIsAtomic` is stated for one flush since the last acknowledged one.
It goes no further: after a failed dd, `current_pp` stays on the torn slot and
the next flush overwrites the only good one; and the burn issues unsynced
flushes (`rtk_main.cpp:1389`, `:1575`, `:1600`) before a reboot that does not
sync. `FactoryFilesKept` is stated for calls whose load succeeded: write_boottable
and rtk_install_factory go on after a failed one.

### Proofs

`FactoryProofs.tla` proves, for every value of the constants allowed by
`FactoryAssumption`:

* `TypeCorrect`.
* `Invariant`: `IInv` is inductive. Its parts: every part on either device was
  written before (`AllPast`), so the tar about to be written differs from all of
  them; how far dd has come (`Progress`); the counter is ahead of every valid
  slot (`Ahead`), so the new tar will be in force; with nothing pending the cache
  equals the flash (`Quiet`). With `Ordered`: `NoHybrid`, whose third part is the
  heart of the argument (a header in the cache that equals the trailing header
  on the flash has no page left to write, so writeback can never pair a new
  header with an old trailer), and `Pending`: one slot still holds what was in
  force and only the other has been touched.
* From it `AckedSurvivesAlways` and `ReadYourWritesAlways` (writeback in any
  order), `ValidIsWholeAlways` and `OneAttemptIsAtomicAlways` (assuming `Ordered`).
* `NewestAcrossTheWrap`: the comparison stays right across the 2^32 wrap as long
  as the later number is fewer than 16 ahead.

`FactoryRegisterProofs.tla` proves `RegisterImplemented`: with `Ordered`, synced
requests and no dd failure, the specification refines the register, one step of
the register or none for every step.

Two more invariants, each inductive together with `IInv`:

* `Twins` gives `PingPongLeavesBothAlways`, in any order of writeback: between two
  flushes of a ping-pong the slot in force holds the directory (`Between`), during all
  but the first of them the other slot does (`During`), and the last is that of slot 0.
* `FilesSafe` gives `FactoryFilesKeptAlways`, with `Ordered`: after a load that
  succeeded with nothing pending the directory is that of the last durable tar, and an
  edit removes only what its call is for.

Only model-checked: `CallsReturn` (liveness is out of the prover's reach).

## 4. The burn order

`TagFlow.tla` models `tagflow3` (NAND, NOR), `tagflow3_emmc` and the format loop
`rtk_mount_format_emmc` that runs before the latter, with the part list and
firmware list of the boot table.

* `tag` is `boottable.tag` as a position in `Flow`, the order in which the cases
  assign it; the loop over `P_PARTITION1..8` stands there in place of
  `TAG_UPDATE_OTHER_PARTITION1`. `fmt` is the position in the format loop.
  `part` and `fw` are the two lists, `boottype` the promise to the boot code,
  `ret` the image whose failure ended the burn.
* `region` is what the place of an image holds: what was there before (`old`),
  a half-written image (`torn`), or the image (`new`). `busy` says that the
  commands of a burn have begun to write.
* One image is `Skip` (a condition of its case), or `Begin` and then `Burned` or
  `Fails`, or `NothingToWrite` (a burn that returns 0 without a command), or
  `Fails` before anything is written. `Complete` is the end of the last case.
* `Skips`, `Writes` and `Tolerates` collect the conditions in which the cases
  differ: what is passed over, what is written at all, and whose failure is only
  logged.
* A partition is a `file` (its image is in the package), is to be `erase`d
  (YAFFS2, JFFS2 or UBIFS without a file), has `none` to write, or is `null` (an
  eMMC partition formatted beforehand). `sized` are the images with
  `img_size` not 0, which for some file systems is the minimum size rather than
  that of a file (`fill_rtk_part`).

`BurnPlan.tla` is what this promises without an order; `TagFlowImplements.tla`
holds the refinement mapping, in which a place where nothing is to be written
counts as `new` once it is listed.

Assumptions. A file named by the configuration is in the package, and partition
names are distinct, so that `remove_part_by_partname` removes at most one entry
(`PartListSound` checks it). Every image is in update mode. The commands of one
burn, its verification included, are abstracted to begin, done or fail. On eMMC
a partition is ext4: the format loop ends the burn for any other file system
with room, before the flow. The boot code, burned between the format loop and
the flow, has no entry in either list and is left out. The cases `TAG_UNKNOWN`
and `TAG_COMPLETE` and the default case are not reached by the driver, which
starts at `TAG_UPDATE_ETC`.

### Runs

| Run | Question | Packages |
|---|---|---|
| `tagflow_safety` | what the table says against what the flash holds; that the burn ends; refinement of the plan | every combination of kinds for etc, res, cache, p1 and p8; every combination of absent firmware, install_dtb and an earlier table on NAND, NOR and eMMC; packages with update_etc=n |
| `tagflow_etc` | update_etc=n keeps a recorded etc (violated) | update_etc=n |

Every burn may fail at every point of every package. The partitions that vary
cover every case of the two switches that differs from the others: etc, res and
the first and last of the loop (passed over when absent), cache (the same code
as data and system, never passed over). data and system are always files, and
p2 to p7 absent. The proofs remove these restrictions. `FlowEnds` assumes weak
fairness of the next step: the driver is one thread, and a command it waits for
returns. Deadlock is not checked in these runs because a burn ends.

### What holds, and its limits

* `CompleteMeansBurned` is about the images in `Required`. On eMMC etc is not one
  of them: `tagflow3_emmc` logs its failure and goes on
  (`rtk_tagflow.cpp:535`), unlike `tagflow3`.
* `NoStaleFirmware` excepts device trees when `install_dtb=n`: their entries stay
  those of the earlier installation although the layout may have moved what lies
  there. `BOOTTYPE_COMPLETE` is already set when the flow ends, before the
  descriptor is burned; what the driver makes of that is section 5.
* cache, data and system are not tested for `img_size`. On eMMC, one of them
  configured as `null` is formatted and listed beforehand and then makes the
  flow fail at its tag: such a package never completes.
* `tagflow_etc` is a finding. `read_boottable` parses the PART lines of
  layout.txt, but the assignment of `part.partcount` is commented out
  (`rtk_boottable.cpp:596`). The table read back never lists etc, so
  `update_etc=n` never keeps it: `fill_rtkimgdesc_layout` forces the update, and
  so does the case in `tagflow3`. With `RecordedParts` in place of
  `RecoveredParts` the property holds.

### Proofs

`TagFlowProofs.tla`, for every set of packages allowed by `PackagesAssumption`:
`TypeCorrect`, and `Invariant`, that `IInv` is inductive. Its parts: the format
loop is over before the flow begins (`Phases`); while a burn is writing, its
image is one whose turn it is and that is to be written (`Writing`); what lies ahead of either loop
is untouched, neither burned nor entered by it (`FormatAhead`, `FlowAhead`); what
lies behind the flow and is needed is entered, and no firmware behind it is of
an earlier installation (`Behind`); and `ListedIsWhole`, which is inductive with
these. The argument is the position: an image occurs once in `Flow` and once in
`FormatOrder`, and the kinds handled by the two loops are disjoint, so a step
finds its image as it was before the burn. From it follow `ListedIsWholeAlways`,
`CompleteMeansBurnedAlways`, `NoStaleFirmwareAlways` and `BurnedStaysAlways`.

`TagFlowPlanProofs.tla` proves `PlanImplemented`: every step of the burn order is
one step of `BurnPlan` or none.

`PartListSoundAlways` needs one more invariant, `NoRepeats`. `add_part` looks neither
for the name nor for the end of the array; the partitions whose earlier entry is not
removed first are those whose turn comes once, so they are not there yet. There are
14 partitions, so the list has no more than 14 entries.

Only model-checked: `FlowEnds`.

## 5. The driver

`Install.tla` models `main` and `rtk_burn_rtkimg_from_usb`, from `parse_tar` to the
reboot. `pc` is the driver's place in that function; every `goto`, every result
that is returned and every one that is ignored is a disjunct of the action of
its step.

* `Setup` and `Gate` are what may refuse a package: the tar, the configuration,
  and the check of the package's `efuse_key` and `secure_boot` against the fuses.
  `Gate` also branches off to `dump_flash` and the `only_` modes. `Layout` is
  `fill_rtkimgdesc_layout` and the erasure of the free space, as success or failure.
* `WriteUnknown` flushes a table of unknown boottype, `Sign` spoils the signature
  of the descriptor, `CheckMarker` is the NOR's request for boot code,
  `Repartition` the eMMC's tables and formats. `After` is the order of the steps,
  which depends on the flash.
* `BeginBootcode`/`BootcodeBurned`/`BootcodeFails`, `BeginFlow`/`FlowBurned`/
  `FlowFails`, `BeginDesc`/`DescBurned`/`DescFails` and `BurnKeys`/
  `BurnSecureBits` are the parts that write; `PostProcess`, `InstallFactory`,
  `Close`, `WriteTable` (`before_burn_end`), `RemoveLock`, `PingPong` and `Report`
  (`burn_end_usb`) the ends. `Exit` reboots without a sync after a success, or stays
  up when `stop_reboot` is configured.
* `table` and `desc` are what a load finds, `tables` and `descs` what a power cut
  may leave. `Flushed` follows from `Factory`: a synced flush leaves exactly one
  table, one that is not synced adds a possibility, and a second that is not
  synced may leave no valid slot. `old` and `new` are the images of the earlier and
  of this installation, `boot` the boot code, `rom` the reset ROM at the start of a
  NOR, `fuses` the fuses. `big` says that the board has a NOR of 32 MB, which
  `rtk_burn_bootcode_mac_spi` treats differently (`BurnsRom`).
* `lapses` collects the failures that the driver passes over, so that a property
  can say "unless that call failed"; `passed` remembers that this package has
  passed the gate before.

| Run | Question | Bounds |
|---|---|---|
| `install_safety` | what is reported against what is in the flash and the fuses, and that each run ends | 10 packages per flash (six whole installations with keys, boot code, factory files, safe upgrade; dump and the modes) and 4 on a NOR of 32 MB (with and without boot code and factory files), 2 starts, every call failing or not, a power cut anywhere |
| `install_only_bootcode` | only_bootcode leaves the boot table alone (violated) | boot code packages, 1 start |

Two starts show an installation after a complete, a failed and an interrupted
one (`Start` turns what the last run wrote into the earlier installation); the
proofs are for any number. `InstallEnds` assumes weak fairness of the driver's step: it is one
thread, and the commands it waits for return. Deadlock is not checked because
the board stops after the last start.

What holds, and its limits:

* `SuccessIsComplete`: a whole installation reports success only with images,
  boot code, descriptor and table in place. Exceptions are failures that nothing
  tells: the flush of the table (`rtk_main.cpp:1600`) and the writes of the
  descriptor; and the reset ROM of a NOR of 32 MB, see below.
* `DescTellsImages`, `TableTellsImages`: a descriptor or a table in the flash names
  only images that are whole. Exceptions: `modify_signature` or the flush of the
  unknown table failed, a write that was not synced was lost, and the first safe
  upgrade of a board, where `rtk_install_factory` copies the earlier table back
  (`rtk_burn.cpp:3163`). That a table of the new images is never ahead of them has
  no exception.
* `RefusedOnlyWhenWhole`: burning fuses in the middle of a run does not lock out
  its retry while images are missing.
* `FusesMatchImages`: fuses that demand signatures have signed images after a
  success, whatever fails. Signed images have such fuses unless a burn of the fuses
  failed, whose five results are ignored (`rtk_burn.cpp:1605`).
* `UiToldTheResult` excepts `fake_burn`, which returns past the report.
* `SuccessSurvivesReboot` is stated for packages with `install_factory`, whose last
  flush is synced. For the others the last flush is not synced on eMMC
  (`rtk_main.cpp:1600`) and main reboots without a sync.
* On NOR `modify_signature` writes to offset 0 (`rtk_mtd.cpp:545`), which is the
  reset ROM: `Sign` makes `rom` signed. Only a boot code that is burned on a NOR below
  32 MB repairs it. On one of 32 MB the erasure begins at the hardware settings and
  the write skips the reset ROM (`rtk_burn.cpp:3923`, `:3943`). Success is therefore
  reported with it overwritten when the package has no boot code, and on a NOR of 32
  MB also when it has one; `SuccessIsComplete` asks for a whole reset ROM only in the
  case that is left.
* `install_only_bootcode` is a finding: a failed boot code in that mode jumps to
  `before_burn_end`, which flushes a boot table that was never set up.

`InstallProofs.tla` proves all of the safety properties for every set of packages
and any number of starts. `IInv` is inductive: `Modes` (which package can be at
which step), `Fused` and `Burned` (what a whole installation that has come this
far has done; `Done` is "and it will report success if nothing fails"), `Named`
(only whole new images are called new, in memory, in the flash and in every
outcome of a power cut), `Disowned` (once the driver is past the step that
disowns the earlier images, nothing names them), `Repeatable` (the fuses come to
refuse a package only when its images are whole), `Synced`, `Screen`. Each
conjunct is a lemma over the steps. Only model-checked: `InstallEnds`.

## 6. The firmware descriptor

`Fwdesc.tla` models `burn_fwdesc_nand` and `burn_fwdesc_emmc`, `save_fwdesc`,
`save_fwdesc_emmc` and what the boot code makes of the result. `load_fwdesc` is not
modelled: nothing in an installation calls it (it converts the lengths from big
endian, which the save does not, so that it would refuse every list saved here).

* `Build` is the list in memory: entries of partitions, then of firmware, in an
  array `part_desc[10]` that is followed by the firmware's (`Entries` overwrites
  the first of them when there are more). `Header` has the counts and the
  checksum, for which the list of the entries itself stands.
* On NAND: `WriteFile` (a short write is not noticed), `Erase`, `NandWrite` entry by
  entry, `EraseOldTable`. On eMMC: `Open`, `Write` in place, where a failed write
  is skipped and leaves the position behind, `Written`.
* `Sign` is `modify_signature`, `BurnImages` the burn order, `PowerCut` at any moment.
* `Accepted` is the boot code's check as the writer's format implies it: signature,
  counts, checksum.

Assumptions: one entry, and the header, is one sector and is not torn. Offsets
and sizes in an entry stand for the installation they are of. The descriptor of
the SPI flashes is not reached by the driver.

| Run | Question | Bounds |
|---|---|---|
| `fwdesc_safety` | an accepted descriptor lists the images in the flash, also after failures and power cuts; success means accepted | lists of 10 to 16 entries, up to 9 partitions, 2 installations, 2 skipped writes per save |
| `fwdesc_parts` | a saved descriptor lists the firmware that the burn insists on (violated) | up to 14 partitions |

Two installations show a descriptor over one of another length in both
directions, some of them equally long with other partitions and firmware; a skipped
write shifts the rest of a list by one entry. `AcceptedIsCurrent` excepts a failed `modify_signature`,
the only thing that keeps the old descriptor from being taken while its images
are overwritten. `SuccessIsAccepted` excepts a write whose result is ignored.
`fwdesc_parts` is a finding: the eleventh partition overwrites the kernel's entry
and the save returns success.

`FwdescProofs.tla`, for every set of packages and any number of installations:

* `TypeCorrect`, and `SuccessAccepted` (`SuccessIsAccepted`). The inductive invariant
  has, besides the types: from `Build` on, the images and what they promise are those
  of this run (`Current`); while a save goes on, `desc` is what `Build` made of them
  (`Ready`), and as much of it as `done` says is in the cells (`Put`); what was
  saved with no write skipped is whole (`Saved`). The rest is counting: how many
  entries the concatenations of `Entries` have.
* `AcceptedCurrent` (`AcceptedIsCurrent`), if no package has more partitions than
  `part_desc` has places (`Fits`). `fwdesc_parts` shows why: with eleven the kernel's
  entry is lost. `Truthful` is the further invariant: a signed header carries the
  checksum of a list that describes the images in the flash. It holds because
  `Spoiled` does: from `Sign` to the end of the burn no header is signed, and the save
  writes the header in one piece.

## 7. Burning and verifying, the boot code

`Burn.tla` turns each burn function into a list of steps (`BurnImg`, `BurnYaffs`,
`BurnJffs`, `BurnUbifs`, `BurnExt4`, `BootNand`, `BootEmmc`, `BootNor`), and a small
machine carries them out block by block: `EraseBlock`, `CopyBlock`, `Fails`,
`BlockFails`, `EndsShort` (a source that ends early with nobody noticing),
`Verified`, `VerifyFails`, `PowerCut`. A block knows whose it is and which number
it has. `todo` is the rest of the list, `burned` what this run has reported as
done, `lapses` what of it had a failure that was not noticed.

Idealisations: all blocks are good; the sum of bytes that `rtk_file_verify`
compares stands for the set of the blocks; unpacking an archive into a new ext4
file system never fails, because its command ends in `; sync`; a failure ends the
run (which failures the driver tolerates is section 4); a backup file has the
size of its area.

| Run | Question | Bounds |
|---|---|---|
| `burn_safety` | reported images are whole and stay so, nothing else is touched, NAND keeps a boot code | 26 blocks of which 24 are in the first 4 GB, 12 packages with every kind of image, 2 runs, a failure or a power cut between any two blocks |
| `burn_backups` | some copy of the boot code survives (violated) | the same |

The bounds are enough for every function and each of its branches; the two
blocks beyond `Wrap` show the 32-bit offsets. Two runs are one installation over the
boot code of the factory and one over what it has left, so `BootCopySurvives` meets one
or two interrupted burns; three would take minutes (they were run once, without an
error), and the proof removes the bound. Areas are equal to, larger and
smaller than their images, which is what the comparisons are about. A block
that cannot be read fails the verification (`VerifyFails`). Deadlock is not checked
because the board stops after the last run.

Limits:

* `Overruns` and `CutOff` name the images that the code does not compare with
  their partitions: jffs2 made on the board, raw ext4, images beyond 4 GB, backups
  of another size. An archive that does not fit into its ext4 file system ends early,
  and its command hides that behind `; sync`.
* `rtk_burn_bootcode_nand` and `rtk_burn_bootcode_emmc` never compare the boot code with
  `bootcode_size`. `BootFits` says that it keeps to its area; `OnlyItsArea` excepts a
  boot code that does not, and `EmmcLarge` is a package with one. `Fits` is the same
  of a whole package. `BurnedIsWhole` is stated for packages that fit.
* `BootCopySurvives` holds as long as the sizes of the boot code stay, and no more of
  its burns are cut short in a row than there are copies but one: each retry begins
  with copy 1 again and may be cut at an earlier copy than that before, so that four
  leave no whole copy. `ResizeSurvives` is about a boot code of other sizes burned over
  one that was whole: the first copies of the new one have to end before the last of
  the old one begin (`Follow`), because the stride between copies is the size of the
  new image. A change that is itself interrupted and then followed by another may lose all copies: `burn_backups` is
  that finding. Both ask that the boot code of every NAND package ends below the images
  of every other (`NandFits`), which nothing in the code checks. eMMC and NOR have one
  copy, written in place; nothing is claimed for them.

### Proofs

`BurnProofs.tla`, for every flash, every set of packages and any number of runs:

* `TypeCorrect` and `OnlyItsAreaHolds`. `Typed` adds to the types that the steps left
  to do are among those that what is burned now may have (`Allowed`): they write
  between its first block and its end. For the lists of steps the lemmas
  `ImageSteps` and `BootSteps` show it, function by function.
* `BurnedWhole` (`BurnedIsWhole`). The inductive invariant `IInv` adds: no block is of
  a run to come (`Dated`); a lapse is one of something that has begun and whose
  function has a pipe (`Begun`); and, for a package that fits, `Own` (blocks of this
  run that carry the name of an image still to be finished lie in its area),
  `Progress` and `Kept` (what was burned is still there while others are burned).
  `Progress` splits the list that is carried out: `Ahead` says that copies still to
  be made will find their blocks erased and are not overwritten afterwards, `Halfway`
  how far the step in hand has come, `Past` what the steps that are done have left.
  `rtk_file_verify` compares sums only; that this is enough (`SumsTell`) is an
  argument of its own: with `Own` and `Partly` every block read is erased or the
  right one, so equal sums mean that none is missing. What the sums cannot tell is
  outside the model (see the idealisations).
* `CopySurvives` (`BootCopySurvives`) and `CopySurvivesResize` (`ResizeSurvives`). The
  invariant `Survives` adds to `IInv`: `Sized` (what the history `sizes` holds),
  `Orderly` (in the list of a NAND boot code every copy is erased right before it is
  written, one place after the other, and each at one of the eight places), and, with
  `NandFits`, `Backed` and `Resized`. `Backed` counts: of each part, all copies
  but k are whole or being written, where k is the number of burns cut short since
  the last one that was whole. One burn costs one copy at most, since a copy that has
  been written is whole again before the next is erased. Of four copies three may be
  lost, or two while a third is being written, and one is left. `Resized`: the last
  copy of the old boot code is whole until the first copy of the new one is, which is
  what `Follow` is needed for.

## 8. Layout and partition tables

`Layout.tla` models `fill_rtkimgdesc_layout`: `Allocated` is the room each image gets
(`fill_rtk_part`, `fill_rtk_fw`, `fill_rtk_install_av_count`), `Order` in which order
and from which end they are placed, `PlaceUp`, `PlaceDown` and `LeaveUnplaced` one
turn of that loop, `Fits` the space check, `FreeSpace` what is left. `Start`, `Burn`,
`Complete`, `TableLost` and `Fail` carry it through a sequence of installs, because a
safe upgrade writes the half of a NOR that `work` does not name. `EmmcMbr.tla` has
the tables: `AddRoom` is one turn of the first loop of `write_boottable_emmc`, which
adds the partitions up (`SumRooms` in `Layout`; `Kernel` is what they leave for the
firmware), `AddEntry` one turn of the second, `SetMbr` the write of one table,
`Format` a file system on a device, and `Device` the way Linux reads the chain.

The code of the NOR layout needs system parameters that `set_system_param` fills
in only with `USING_SYSTEM_FILE` (`include/rtk_def.h:14`); the default build
refuses NOR there, and the NOR half of this module speaks of that configuration.
`RESERVED_AREA` is not defined. `LayoutAssumption` says what the code relies on: a
partition is configured once, the given areas lie as `set_system_param` puts them,
and the size of an eMMC is a whole number of sectors (`rtk_imgdesc.cpp:447`).
`Suits` keeps eMMC packages to nine partitions, each larger than what the tables
reserve before it: `mbr[8]` has no room for more, a smaller partition would have no
sectors, and nothing checks either (a hazard of `PROJECT.json`).

| Run | Question | Bounds |
|---|---|---|
| `layout_safety` | accepted images share no room; erased free space is nobody's; the half in use stays whole; devices are areas | boards of 40 and 64 units (2 to an erase block), some 90 packages: all flashes, partition kinds and sizes, logo counts, safe upgrade, inverse order, backup area; 4, 6 and 9 eMMC partitions; any number of installs |

A unit stands for half an erase block, so sizes that are no multiple occur; 4, 6
and 9 partitions are the cases without a chain of tables, with a short one, and
with a full `mbr`; there are packages that do not fit, that fit, and that fit only
without the backup gap.

Limits: the space check leaves out the gap below a backup firmware area
(`GapUncounted`), so `AreasDisjoint` excepts such packages; the free space that is
erased is nobody's even then. A safe upgrade with `partition_inverse` writes
etc and rootfs into the half in use (`Promises`, `exposed`). On NOR, images that
the layout gives room but no offset (`NorUnplaced`) go to offset 0; no package of
the repository has one.

`LayoutProofs.tla` proves `TypeOK`, `AreasDisjoint`, `FreeSpaceFree`,
`WorkPartWhole` and `DevicesAreAreas` for all boards and packages that the assumption
allows. `IInv`, for the first four: the sum has counted all that lies below `low` and
above `high` (`Counted` in `Begun`); what has been placed lies between the bottom and
`low` or between `high` and the top, and is disjoint from what was placed the same
way (`Walk`, and `Settled` for an accepted layout); with the space check this gives
`low <= high` (lemma `Meet`), and so disjointness of the two ends; `Protected` says
that an unexposed half in use is outside of all that the package in hand will write.

`DevicesAreAreas` relates three computations that the code makes apart from each
other: offsets in bytes from the top of the flash down, sums of sectors from the
first partition up, and the chain of tables that Linux follows. `DInv`, inductive
together with `IInv`, has a part for each:

* `Stacked`: every partition lies right below the one after it; `Roomy`: each is
  larger than the reserve, and there are nine at most.
* `Summing` and `Heights`: the sums of sectors against the offsets. Sizes are cut to
  whole sectors, so a partition is no lower in the flash than the sums say, and
  exactly there if all sizes are whole.
* `Tabled`: what the tables in memory say of the first partitions (`Described`), and
  that the first of them are in the flash where the ones before point (`Chained`).

No table overwrites another because each partition takes more than the reserve, so
that the places of the tables ascend (`Rising`, `Places`). The way Linux reads the
chain is unrolled, table by table (`Following`), since `mbr` has no more than eight;
`Found` and `DevicesAre` conclude what each device is, and `InvDevices` that this is
the area of its partition. A file system that is made on a device leaves the tables
alone, since it begins behind the table of its partition (`FormatPartDInv`).

## 9. Findings, and what is not modelled

Four runs show the code against its own comments: `tagflow_etc`
(`rtk_boottable.cpp:596`), `install_only_bootcode` (`rtk_main.cpp:1338`),
`fwdesc_parts` (`include/rtk_fwdesc.h:127`) and `burn_backups` (`rtk_burn.cpp:3320`).

Liveness (`CallsReturn`, `FlowEnds`, `InstallEnds`) is checked by TLC only, since
the prover does not do liveness under fairness.

Not modelled:

* `rtk_tar.cpp`: a walk over headers whose result is a list of files. What a damaged
  package lacks is covered by the packages of `TagFlow` and `Fwdesc`.
* Parsing of the configuration, the parameters and layout.txt: text. What the
  parsed values do is in `Layout`, `Install` and `TagFlow`.
* The progress percentages of `rtk_customer.cpp`; the result that it is told is in
  `Install`.
* Update of a logo's backup file (`update_cavfile`, `rtk_imgdesc.cpp:1886`): `Burn`
  takes the file as made or as not made. `check_spi_bootcode_size`, and the layout of
  `only_factory`, which places nothing.
* Bad blocks: nandwrite and ubiformat are not part of the repository.
* The NAS, PC and offline builds, the download, `rtk_urltar.cpp`, and functions that
  nothing calls (`rtk_burn_preserveimg`, `rtk_burn_flashbin`,
  `rtk_burn_img_from_net`, `burn_fwdesc_nor`). Debug and error text.
