--------------------------------- MODULE Burn ---------------------------------
(***************************************************************************)
(* How an image and the boot code get into the flash: rtk_burn_img,        *)
(* rtk_burn_single_part with the functions of the file systems, the three  *)
(* rtk_burn_bootcode functions (rtk_burn.cpp) and the copying and          *)
(* verifying under them (rtk_common.cpp).                                  *)
(*                                                                         *)
(* Each function is a list of steps that the machine at the end of the     *)
(* module carries out one block at a time, so that a failure, or a power   *)
(* cut, can come between any two blocks.  The flash has blocks that are    *)
(* all good; the block of an image knows whose it is, and the sum of the   *)
(* bytes of some blocks stands for the set of these blocks.  Commands in a *)
(* row that leave the flash alone and fail alike are one step.  Which      *)
(* images are burned, and that some failures are tolerated, is TagFlow's;  *)
(* here a failure ends the run.                                            *)
(***************************************************************************)
EXTENDS Integers, Sequences

CONSTANTS
  Packages,  (* What the packages install, and where the layout puts it.     *)
  FlashSize, (* Blocks of the flash.                                        *)
  Wrap,      (* Blocks in 4 GB, where an unsigned int starts over.          *)
  MaxRuns    (* Bound on the starts of the program.                         *)

Copies  == 4   \* NAND_BOOT_BACKUP_COUNT
HwStart == 1   \* RTK_NAND_HWSETTING_START_BLOCK, and where it starts on the others

Kinds == {"raw", "squash", "yaffs", "jffs", "ubifs", "ext4"}

\* raw is a firmware or a rawfile.  size: the blocks of the image, for a file system
\* that is made on the board those of its contents; tail: the last one is not a
\* whole sector.  at and alloc: the area that the layout has reserved.  mode:
\* install_mode; a backup has the size of the area, and one whose file could not be
\* made is an update.
Image == [kind : Kinds, file : {"none", "img", "bz2", "tar", "bin", "other"},
          mode : {"update", "backup", "skip"}, size : 0..FlashSize, tail : BOOLEAN,
          at : 0..FlashSize, alloc : 0..FlashSize]

\* The boot code at the start of the flash: the blocks of its two parts and of the
\* rescue, those reserved for all of it (bootcode_size), and those before the first
\* image (reserved_boot_size).
Bootcode == [hw : 1..FlashSize, boot : 1..FlashSize, rescue : 0..FlashSize,
             room : 1..FlashSize, reserved : 1..FlashSize]

\* protect: ignore_native_rescue is not set.  big: a NOR flash of 32 MB.
Package == [flash : {"nand", "nor", "emmc"}, verify : BOOLEAN, protect : BOOLEAN,
            keep_etc : BOOLEAN, big : BOOLEAN, with_boot : BOOLEAN, boot : Bootcode,
            images : Seq(Image)]

Area(at, n) == at..(at + n - 1)

\* Where the boot code of a package ends.  That of NOR has been measured for the
\* layout (check_spi_bootcode_size), the others are not compared with bootcode_size.
BootEnd(p) ==
  LET once == p.boot.hw + p.boot.boot IN
  CASE p.flash = "nand" -> HwStart + Copies * once
    [] p.flash = "emmc" -> HwStart + once
    [] p.flash = "nor"  -> HwStart + once + (IF p.protect THEN p.boot.rescue ELSE 0)

BootFits(p) == p.with_boot => BootEnd(p) <= p.boot.room

\* What the layout has seen to: there is something to burn, every image has an area of
\* its own behind the boot code, and firmware fits into its area.  Only a logo has
\* another mode than update, and only eMMC has ext4.
LaidOut(p) ==
  LET I == 1..Len(p.images) IN
  /\ p.with_boot \/ I # {}
  /\ p.boot.room <= p.boot.reserved
  /\ p.flash = "nor" => BootFits(p)
  /\ \A i \in I : LET m == p.images[i] IN
       /\ p.boot.reserved <= m.at /\ m.at + m.alloc <= FlashSize
       /\ m.kind \in {"raw", "squash", "ubifs"} => m.size <= m.alloc
       /\ m.mode # "update" => m.kind \in {"raw", "squash"}
       /\ m.kind = "ext4" => p.flash = "emmc"
       /\ m.tail => m.size > 0
       /\ \A j \in I \ {i} : Area(m.at, m.alloc) \cap Area(p.images[j].at, p.images[j].alloc) = {}

ASSUME BurnAssumption ==
  /\ Packages # {} /\ Packages \subseteq Package /\ \A p \in Packages : LaidOut(p)
  /\ FlashSize \in Nat \ {0} /\ Wrap \in 1..FlashSize /\ MaxRuns \in Nat \ {0}

VARIABLES
  pkg,    (* The package that is installed, or was last.                    *)
  run,    (* The starts of the program; 0 is the factory.                   *)
  now,    (* What is burned: 0 the boot code, i the i-th image, -1 nothing. *)
  todo,   (* The steps that are left of it.                                 *)
  done,   (* The blocks done of the first of them.                          *)
  tools,  (* utility_extracted.                                             *)
  flash,  (* The blocks.                                                    *)
  burned, (* What this run has burned with success.                         *)
  lapses, (* What of it was burned with a failure that was not noticed.      *)
  sizes   (* History: the sizes of the last boot code that was whole, and of *)
          (* those that were begun after it.                                 *)

vars == <<pkg, run, now, todo, done, tools, flash, burned, lapses, sizes>>

-----------------------------------------------------------------------------
(* The flash.                                                                *)

Blocks == 0..(FlashSize - 1)

\* What is burned: a part of the boot code, or the i-th image of the package.
Part(name) == <<name, 0>>
Name(i)    == <<"img", i>>

\* Block no of the n that the installation gen has burned under a name.
Cell(name, no, n, gen) == <<name, no, n, gen>>
Erased == Cell(Part("erased"), 0, 0, 0)
Torn   == Cell(Part("torn"), 0, 0, 0)

\* An unsigned int cannot hold an offset from 4 GB on.
Low(at) == at % Wrap

\* All n blocks of a name are in the flash, in order.
IsAt(name, at, n, gen) == \A k \in 0..(n - 1) : at + k \in Blocks /\ flash[at + k] = Cell(name, k, n, gen)

-----------------------------------------------------------------------------
(* The steps of the burn functions.                                          *)

\* A command or a call that may fail, and what the function returns then.
Call(r)      == [op |-> "call", ret |-> r]
\* rtk_extract_utility, that does nothing when it has succeeded before.
Tools(r)     == [op |-> "tools", ret |-> r]
\* The function returns.
Return(r)    == [op |-> "return", ret |-> r]
Erase(at, n) == [op |-> "erase", at |-> at, n |-> n]

\* n blocks to at.  mode "checked": what was copied is counted, or the command fails
\* when it runs short; "pipe": nobody notices that the left side of a pipe has ended
\* early; "fs": unpacking into a file system, followed by "; sync", never fails.
Copy(name, at, n, mode) == [op |-> "copy", name |-> name, at |-> at, n |-> n, mode |-> mode]

Verify(name, at, n) == [op |-> "verify", name |-> name, at |-> at, n |-> n]

\* The verification of NAND and NOR is an option, that of the eMMC is not.
IfVerify(p, steps) == IF p.verify THEN steps ELSE <<>>

\* rtk_file_to_flash_pbc: the boot code is protected, and MTD areas are erased
\* before; offsets are unsigned int.
CopyPbc(p, name, at, alloc, n) ==
  IF p.protect /\ Low(at) < p.boot.room THEN <<Return(-1)>>
  ELSE (IF p.flash = "emmc" THEN <<>> ELSE <<Erase(Low(at), alloc)>>)
       \o <<Copy(name, Low(at), n, "checked")>>

\* rtk_burn_img on NAND, through nandwrite.  Of a backup it writes as many blocks as
\* the image has, and compares those of the backup.
BurnImgNand(p, m, name) ==
  LET n == IF m.mode = "backup" THEN m.alloc ELSE m.size IN
  <<Tools(-1)>>
  \o (IF m.mode = "update" /\ m.size = 0 THEN <<Return(-1)>>
      ELSE IF m.mode = "skip" THEN <<Return(0)>>
      ELSE IF m.at < p.boot.reserved THEN <<Return(-1)>>
      ELSE <<Erase(m.at, m.alloc),
             Copy(name, m.at, m.size, IF m.mode = "backup" THEN "checked" ELSE "pipe")>>
           \o IfVerify(p, <<Verify(name, Low(m.at), n)>>))

\* rtk_burn_img on NOR and eMMC: the blocks written are compared with those of the
\* image, also for a backup.
BurnImgCopy(p, m, name) ==
  LET n == IF m.mode = "backup" THEN m.alloc ELSE m.size IN
  IF m.mode = "update" /\ m.size = 0 THEN <<Return(-1)>>
  ELSE IF m.mode = "skip" THEN <<Return(0)>>
  ELSE CopyPbc(p, name, m.at, m.alloc, n)
       \o (IF n # m.size THEN <<Return(-1)>> ELSE <<>>)
       \o (IF p.flash = "emmc" THEN <<Verify(name, Low(m.at), n)>>
           ELSE IfVerify(p, <<Verify(name, Low(m.at), n)>>))

BurnImg(p, m, name) == IF p.flash = "nand" THEN BurnImgNand(p, m, name) ELSE BurnImgCopy(p, m, name)

\* Mutant of YaffsWrite: the size of the file system is not looked at.
YaffsWriteUnsized(m, name) == <<Erase(m.at, m.alloc), Copy(name, m.at, m.size, "checked"), Call(-1)>>

\* rtk_burn_yaffs_img, with the file system ready.  What has been written is not compared.
YaffsWrite(m, name) ==
  IF m.size > m.alloc THEN <<Return(-1)>>
  ELSE <<Erase(m.at, m.alloc), Copy(name, m.at, m.size, "checked"), Call(-1)>>

\* rtk_burn_yaffs_img: an image that is there, one that is made of an archive, an
\* empty partition, and any other file, with which nothing is done.
BurnYaffs(p, m, name) ==
  CASE m.file = "none" /\ m.alloc # 0 -> <<Tools(0), Erase(m.at, m.alloc)>>
    [] m.file = "img"                 -> <<Call(-1)>> \o YaffsWrite(m, name)
    [] m.file = "bz2"                 -> <<Call(-1), Tools(-1), Call(-1)>> \o YaffsWrite(m, name)
    [] OTHER                          -> <<>>

\* rtk_burn_jffs_img, with the file system made: it is padded to the size of the
\* partition and may be larger, which is not looked at.
JffsMade(p, m, name) ==
  LET n == IF m.size > m.alloc THEN m.size ELSE m.alloc IN
  <<Call(-1)>> \o CopyPbc(p, name, m.at, m.alloc, n) \o IfVerify(p, <<Verify(name, Low(m.at), n)>>) \o <<Call(-1)>>

\* rtk_burn_jffs_img: what is on the board is kept, or a file system is made of an
\* archive, or copied.
BurnJffs(p, m, name) ==
  CASE p.keep_etc \/ m.file = "bz2"    -> JffsMade(p, m, name)
    [] ~p.keep_etc /\ m.file = "img"   -> CopyPbc(p, name, m.at, m.alloc, m.size)
                                          \o IfVerify(p, <<Verify(name, Low(m.at), m.size)>>)
    [] OTHER                           -> <<>>

\* rtk_burn_ubifs_img: ubiformat erases what it writes and is told the size.
BurnUbifs(p, m, name) ==
  <<Tools(-1)>>
  \o (IF m.file = "none" /\ m.alloc = 0 THEN <<>> ELSE <<Erase(m.at, m.alloc)>>)
  \o (IF m.file = "none" THEN <<>> ELSE <<Copy(name, m.at, m.size, "checked")>>)

\* rtk_burn_ext4_img: a raw image, through dd that counts whole sectors, or an
\* archive that is unpacked into a new file system, which destroys the old one; a file
\* system that is full ends it early.
BurnExt4(p, m, name) ==
  CASE m.file = "bin" -> <<Copy(name, m.at, IF m.tail THEN m.size - 1 ELSE m.size, "pipe")>>
    [] m.file \in {"bz2", "tar"} -> <<Tools(-1), Erase(m.at, m.alloc), Call(-1),
                                      Copy(name, m.at, IF m.size > m.alloc THEN m.alloc ELSE m.size, "fs")>>
    [] OTHER -> <<Return(-1)>>

\* rtk_burn_single_part.
BurnPart(p, m, name) ==
  CASE m.kind \in {"raw", "squash"} -> BurnImg(p, m, name)
    [] m.kind = "ubifs" -> BurnUbifs(p, m, name)
    [] m.kind = "yaffs" -> BurnYaffs(p, m, name)
    [] m.kind = "jffs"  -> BurnJffs(p, m, name)
    [] m.kind = "ext4"  -> BurnExt4(p, m, name)

-----------------------------------------------------------------------------
(* The boot code.                                                            *)

\* Mutant of BootPart: all copies are erased before the first is written.
BootPartEraseFirst(p, name, at, n) ==
  <<Erase(at, Copies * n)>> \o [c \in 1..Copies |-> Copy(name, at + (c - 1) * n, n, "checked")]

\* One of the copies of a part of the boot code.
OneCopy(p, name, at, n) ==
  <<Erase(at, n), Copy(name, at, n, "checked")>> \o IfVerify(p, <<Verify(name, at, n)>>)

\* rtk_burn_bootcode_part: one copy after the other.
BootPart(p, name, at, n) ==
  <<Call(-1)>>
  \o OneCopy(p, name, at, n) \o OneCopy(p, name, at + n, n)
  \o OneCopy(p, name, at + 2 * n, n) \o OneCopy(p, name, at + 3 * n, n)

\* Mutant of BootNand: the boot code proper has a fixed place.
BootNandFixed(p) ==
  <<Call(-1), Tools(-1)>>
  \o BootPart(p, Part("hw"), HwStart, p.boot.hw) \o BootPart(p, Part("boot"), HwStart + p.boot.hw, p.boot.boot)

\* rtk_burn_bootcode_nand: the boot code follows the last copy of hwsetting.
BootNand(p) ==
  <<Call(-1), Tools(-1)>>
  \o BootPart(p, Part("hw"), HwStart, p.boot.hw)
  \o BootPart(p, Part("boot"), HwStart + Copies * p.boot.hw, p.boot.boot)

\* One part of the boot code on eMMC and NOR, always verified.
Section(name, at, n) == <<Call(-1), Copy(name, at, n, "checked"), Verify(name, at, n)>>

\* rtk_burn_bootcode_emmc: over the only copy.
BootEmmc(p) ==
  <<Call(-1)>> \o Section(Part("hw"), HwStart, p.boot.hw) \o Section(Part("boot"), HwStart + p.boot.hw, p.boot.boot)

\* The rescue of a NOR flash, that a package may do without.
NorRescue(p) ==
  IF ~p.protect \/ p.boot.rescue = 0 THEN <<>>
  ELSE Section(Part("rescue"), HwStart + p.boot.hw + p.boot.boot, p.boot.rescue)

\* rtk_burn_bootcode_mac_spi: the whole area is erased, then its parts are written in
\* turn.  That it enters the rescue in the boot table is left to Install.
BootNor(p) ==
  LET from == IF p.big THEN HwStart ELSE 0 IN
  <<Call(-1), Erase(from, p.boot.room - from)>>
  \o (IF p.big THEN <<>> ELSE Section(Part("reset"), 0, 1))
  \o Section(Part("hw"), HwStart, p.boot.hw) \o Section(Part("boot"), HwStart + p.boot.hw, p.boot.boot)
  \o NorRescue(p)

BurnBoot(p) ==
  CASE p.flash = "nand" -> BootNand(p)
    [] p.flash = "emmc" -> BootEmmc(p)
    [] p.flash = "nor"  -> BootNor(p)

-----------------------------------------------------------------------------
(* The machine.                                                              *)

Steps(p, i) == IF i = 0 THEN BurnBoot(p) ELSE BurnPart(p, p.images[i], Name(i))

\* The earlier boot code, as a package of the same board has put it.
Factory(p) ==
  LET strided(b, at, n) == (b - at) % n
      hwEnd == HwStart + Copies * p.boot.hw
      end   == hwEnd + Copies * p.boot.boot
  IN [b \in Blocks |->
        IF p.flash = "nand" /\ b \in HwStart..(hwEnd - 1) THEN Cell(Part("hw"), strided(b, HwStart, p.boot.hw), p.boot.hw, 0)
        ELSE IF p.flash = "nand" /\ b \in hwEnd..(end - 1) THEN Cell(Part("boot"), strided(b, hwEnd, p.boot.boot), p.boot.boot, 0)
        ELSE Cell(Part("data"), b, FlashSize, 0)]

BootSizes(p) == <<p.boot.hw, p.boot.boot>>

Init ==
  /\ pkg \in Packages /\ run = 0 /\ now = -1 /\ todo = <<>> /\ done = 0
  /\ tools = FALSE /\ flash = Factory(pkg) /\ burned = {} /\ lapses = {} /\ sizes = <<BootSizes(pkg)>>

Start(p) ==
  /\ now = -1 /\ run < MaxRuns /\ p.flash = pkg.flash
  /\ pkg' = p /\ run' = run + 1
  /\ now' = (IF p.with_boot THEN 0 ELSE 1) /\ todo' = Steps(p, now') /\ done' = 0
  /\ tools' = FALSE /\ burned' = {} /\ lapses' = {}
  /\ sizes' = (IF p.with_boot THEN Append(sizes, BootSizes(p)) ELSE sizes)
  /\ UNCHANGED flash

Op(op)  == now # -1 /\ todo # <<>> /\ todo[1].op = op
Next1   == todo' = Tail(todo) /\ done' = 0
Lapse   == lapses' = lapses \cup {now}

\* Mutant of Returns: after the last image there is one more.
ReturnsPast(r) ==
  IF r = 0 /\ now <= Len(pkg.images)
    THEN now' = now + 1 /\ todo' = (IF now < Len(pkg.images) THEN Steps(pkg, now + 1) ELSE <<>>) /\ done' = 0
    ELSE now' = -1 /\ todo' = <<>> /\ done' = 0

\* The function returns r; after a failure nothing else is burned in this run.
Returns(r) ==
  IF r = 0 /\ now < Len(pkg.images)
    THEN now' = now + 1 /\ todo' = Steps(pkg, now + 1) /\ done' = 0
    ELSE now' = -1 /\ todo' = <<>> /\ done' = 0

Finish ==
  /\ now # -1 /\ todo = <<>>
  /\ Returns(0) /\ burned' = burned \cup {now} /\ sizes' = (IF now = 0 THEN <<BootSizes(pkg)>> ELSE sizes)
  /\ UNCHANGED <<pkg, run, tools, flash, lapses>>

ReturnNow ==
  /\ Op("return")
  /\ Returns(todo[1].ret)
  /\ burned' = (IF todo[1].ret = 0 THEN burned \cup {now} ELSE burned)
  /\ UNCHANGED <<pkg, run, tools, flash, lapses, sizes>>

CallSucceeds ==
  /\ Op("call") /\ Next1
  /\ UNCHANGED <<pkg, run, now, tools, flash, burned, lapses, sizes>>

ToolsThere ==
  /\ Op("tools") /\ Next1 /\ tools' = TRUE
  /\ UNCHANGED <<pkg, run, now, flash, burned, lapses, sizes>>

\* A command fails, or the utilities cannot be extracted.
Fails ==
  /\ \/ Op("call")
     \/ Op("tools") /\ ~tools
  /\ Returns(todo[1].ret)
  /\ IF todo[1].ret = 0 THEN burned' = burned \cup {now} /\ Lapse
                        ELSE UNCHANGED <<burned, lapses>>
  /\ UNCHANGED <<pkg, run, tools, flash, sizes>>

EraseBlock ==
  /\ Op("erase") /\ done < todo[1].n
  /\ flash' = [flash EXCEPT ![todo[1].at + done] = Erased]
  /\ done' = done + 1
  /\ UNCHANGED <<pkg, run, now, todo, tools, burned, lapses, sizes>>

\* A block of MTD that was not erased comes out as neither the old nor the new.
CopyBlock ==
  /\ Op("copy") /\ done < todo[1].n /\ todo[1].at + done \in Blocks
  /\ flash' = [flash EXCEPT ![todo[1].at + done] =
                 IF pkg.flash = "emmc" \/ @ = Erased THEN Cell(todo[1].name, done, todo[1].n, run) ELSE Torn]
  /\ done' = done + 1
  /\ UNCHANGED <<pkg, run, now, todo, tools, burned, lapses, sizes>>

BlocksDone ==
  /\ Op("erase") \/ Op("copy")
  /\ done = todo[1].n
  /\ Next1
  /\ UNCHANGED <<pkg, run, now, tools, flash, burned, lapses, sizes>>

\* Erasing or writing fails, at any block: the command says so, or the count is short.
BlockFails ==
  /\ Op("erase") \/ (Op("copy") /\ todo[1].mode # "fs")
  /\ Returns(-1)
  /\ UNCHANGED <<pkg, run, tools, flash, burned, lapses, sizes>>

\* A copy whose source ends early, or that fails before "; sync", and nobody notices.
EndsShort ==
  /\ Op("copy") /\ todo[1].mode # "checked" /\ done < todo[1].n
  /\ Next1 /\ Lapse
  /\ UNCHANGED <<pkg, run, now, tools, flash, burned, sizes>>

\* Mutant of SumsAgree: the loop ends after the first block.
SumsAgreeFirst(name, at, n) == n > 0 => flash[at] = Cell(name, 0, n, run)

\* rtk_file_verify counts the bytes that differ, for the log, and compares the sums.
SumsAgree(name, at, n) ==
  {flash[b] : b \in Area(at, n) \cap Blocks} = {Cell(name, k, n, run) : k \in 0..(n - 1)}

Verified ==
  /\ Op("verify")
  /\ IF SumsAgree(todo[1].name, todo[1].at, todo[1].n) THEN Next1 /\ UNCHANGED now ELSE Returns(-1)
  /\ UNCHANGED <<pkg, run, tools, flash, burned, lapses, sizes>>

\* A file cannot be opened, or a block cannot be read: its bytes are then missing in
\* the sum, and the loop ends at the end of the other file.
VerifyFails ==
  /\ Op("verify") /\ Returns(-1)
  /\ UNCHANGED <<pkg, run, tools, flash, burned, lapses, sizes>>

\* At any moment, in the middle of the block that is being written; also the crash of
\* fd_to_fd on a failed read, which it takes for one of 2^64 - 1 bytes.
PowerCut ==
  /\ now # -1 /\ now' = -1 /\ todo' = <<>> /\ done' = 0
  /\ IF (Op("copy") \/ Op("erase")) /\ done < todo[1].n /\ todo[1].at + done \in Blocks
       THEN flash' \in {flash, [flash EXCEPT ![todo[1].at + done] = Torn]} ELSE UNCHANGED flash
  /\ UNCHANGED <<pkg, run, tools, burned, lapses, sizes>>

Next ==
  \/ \E p \in Packages : Start(p)
  \/ Finish \/ ReturnNow \/ CallSucceeds \/ ToolsThere \/ Fails
  \/ EraseBlock \/ CopyBlock \/ BlocksDone \/ BlockFails \/ EndsShort
  \/ Verified \/ VerifyFails \/ PowerCut

Spec == Init /\ [][Next]_vars

-----------------------------------------------------------------------------
(* What must be right.                                                       *)

\* Every variable has its type; the burn is in the package, and a run that is not
\* burning has no steps left.
TypeOK ==
  /\ pkg \in Packages /\ run \in 0..MaxRuns /\ now \in -1..Len(pkg.images) /\ done \in 0..FlashSize
  /\ tools \in BOOLEAN /\ burned \subseteq 0..Len(pkg.images) /\ lapses \subseteq 0..Len(pkg.images)
  /\ DOMAIN flash = Blocks /\ (now = -1 => todo = <<>>)

\* The exceptions, none of which the code looks at: a jffs2 image or a raw ext4 image
\* that is larger than its partition, and an image at 4 GB or above that is burned
\* through an unsigned int.
Overruns(p, m) ==
  \/ m.kind = "jffs" /\ m.size > m.alloc
  \/ m.kind = "ext4" /\ m.file = "bin" /\ m.size > m.alloc
  \/ m.kind \in {"raw", "squash"} /\ p.flash # "nand" /\ Low(m.at) # m.at
  \/ m.kind = "jffs" /\ Low(m.at) # m.at

\* No part of the package is one of them, nor has a boot code that is too large.
Fits(p) == BootFits(p) /\ \A i \in 1..Len(p.images) : ~Overruns(p, p.images[i])

\* What an image does not get into the flash although its burn succeeds: the backup
\* of a logo that is larger than the image of the package, with nandwrite, the end of
\* a raw ext4 image that is no whole sector, and what a file system has no room for.
CutOff(p, m) ==
  \/ m.mode = "backup" /\ p.flash = "nand" /\ m.size < m.alloc
  \/ m.kind = "ext4" /\ m.file = "bin" /\ m.tail
  \/ m.kind = "ext4" /\ m.file \in {"bz2", "tar"} /\ m.size > m.alloc

\* The images that are written: the others are skipped, are empty partitions, or are
\* files with which the function of the file system does nothing.
Writes(p, m) ==
  CASE m.kind \in {"raw", "squash"} -> m.mode # "skip"
    [] m.kind = "ubifs" -> m.file # "none"
    [] m.kind = "yaffs" -> m.file \in {"img", "bz2"}
    [] m.kind = "jffs"  -> p.keep_etc \/ m.file \in {"img", "bz2"}
    [] m.kind = "ext4"  -> m.file \in {"bin", "bz2", "tar"}

\* The blocks of an image; one of jffs2 that is made fills its partition.
Content(p, m) ==
  IF m.mode = "backup" \/ (m.kind = "jffs" /\ (p.keep_etc \/ m.file = "bz2")) THEN m.alloc ELSE m.size

\* All of the boot code of this run is there, on NAND in four copies of each part.
BootIsWhole(p) ==
  LET hw == p.boot.hw
      n  == p.boot.boot
  IN CASE p.flash = "nand" -> \A c \in 0..(Copies - 1) :
                                /\ IsAt(Part("hw"), HwStart + c * hw, hw, run)
                                /\ IsAt(Part("boot"), HwStart + Copies * hw + c * n, n, run)
       [] p.flash = "emmc" -> IsAt(Part("hw"), HwStart, hw, run) /\ IsAt(Part("boot"), HwStart + hw, n, run)
       [] p.flash = "nor"  -> /\ p.big \/ IsAt(Part("reset"), 0, 1, run)
                              /\ IsAt(Part("hw"), HwStart, hw, run) /\ IsAt(Part("boot"), HwStart + hw, n, run)
                              /\ p.protect => IsAt(Part("rescue"), HwStart + hw + n, p.boot.rescue, run)

\* An image that was reported as burned is whole at the place that the layout has
\* chosen, the boot code in all its copies, an empty partition is erased, and all stay
\* so while the others are burned: unless the source has ended early, which only a
\* verified firmware notices.
BurnedIsWhole ==
  Fits(pkg) =>
    /\ 0 \in burned => BootIsWhole(pkg)
    /\ \A i \in burned \ {0} :
         LET m == pkg.images[i] IN
         /\ Writes(pkg, m) /\ ~CutOff(pkg, m)
            /\ (i \in lapses => m.kind \in {"raw", "squash"} /\ pkg.verify)
            => IsAt(Name(i), m.at, Content(pkg, m), run)
         /\ m.kind \in {"yaffs", "ubifs"} /\ m.file = "none" /\ i \notin lapses
            => \A b \in Area(m.at, m.alloc) : flash[b] = Erased

\* Burning an image changes no block but those of its area, and burning the boot code
\* none but those that are reserved for it, whatever fails.
OnlyItsArea ==
  [][\A b \in Blocks : flash'[b] # flash[b] =>
       IF now = 0 THEN b < pkg.boot.room \/ ~BootFits(pkg)
       ELSE LET m == pkg.images[now] IN b \in Area(m.at, m.alloc) \/ Overruns(pkg, m)]_vars

\* All blocks of one copy, of any installation and any size, are in a row from b.
WholeCopy(name, b) ==
  LET n == flash[b][3] gen == flash[b][4] IN n > 0 /\ IsAt(name, b, n, gen)

\* On NAND, at every moment a power cut leaves a whole copy of both parts of the boot
\* code.  rtk_def.h:124 speaks of the "number of backup bootcode in NAND flash".
BackupSurvives ==
  pkg.flash = "nand" => \A name \in {Part("hw"), Part("boot")} : \E b \in Blocks : WholeCopy(name, b)

\* The sizes of the new boot code leave the last copies of the old one alone until the
\* first copies of the new one are written.
Follow(old, new) ==
  LET end(s, c) == HwStart + Copies * s[1] + c * s[2] IN
  /\ new[1] <= (Copies - 1) * old[1]
  /\ end(new, 1) <= end(old, Copies - 1)

\* On NAND no image leaves its area, and the boot code of a package ends where the
\* boot area of every other ends, or before.
NandFits ==
  \A p, q \in Packages : p.flash = "nand" /\ q.flash = "nand" => Fits(p) /\ BootEnd(p) <= q.boot.reserved

\* The same as long as the boot area is large enough, which the code does not look at,
\* the sizes stay and no more burns of the boot code are cut short
\* in a row than there are copies but one: every retry begins with the first copy
\* again, and may be cut at an earlier one than that before.
BootCopySurvives ==
  NandFits /\ Len(sizes) <= Copies /\ (\A i \in 1..Len(sizes) : sizes[i] = sizes[1]) => BackupSurvives

\* The same when the sizes change after a boot code that was whole.  A change that is
\* itself cut short is not covered, nor one that follows a burn that was.
ResizeSurvives ==
  NandFits /\ Len(sizes) = 2 /\ Follow(sizes[1], sizes[2]) => BackupSurvives
=============================================================================
