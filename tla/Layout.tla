------------------------------- MODULE Layout -------------------------------
(***************************************************************************)
(* Where the images go: fill_rtkimgdesc_layout (rtk_imgdesc.cpp).  Each    *)
(* image gets an allocation, then a place: some from the bottom of the     *)
(* flash up, others from the top down, and the sum of all allocations      *)
(* decides whether the two meet.  On an eMMC the same allocations are then *)
(* laid out once more, as partitions (EmmcMbr).  Installs follow each      *)
(* other on one board, because a safe upgrade writes the half of a NOR     *)
(* flash that the one before did not.                                      *)
(*                                                                         *)
(* Sizes and offsets count units of which mtd_erasesize is a multiple.     *)
(***************************************************************************)
EXTENDS EmmcMbr, Sequences

CONSTANTS
  Boards,    (* The boards: flash and system parameters.                    *)
  Packages,  (* The packages that may be installed.                         *)
  Dt32K,     (* The room of a device tree and of the fw table on eMMC.      *)
  BackupGap  (* The 0x08000000 bytes below a backup firmware area.          *)

Logos    == {"AUDIO_CLOGO1", "VIDEO_CLOGO1", "AUDIO_CLOGO2", "VIDEO_CLOGO2"}
BootFiles == {"AUDIO_BOOTFILE", "IMAGE_BOOTFILE", "VIDEO_BOOTFILE"}
Firmware == {"KERNEL", "RESCUE_DT", "KERNEL_DT", "RESCUE_ROOTFS", "KERNEL_ROOTFS",
             "AUDIO", "VIDEO", "VIDEO2", "ECPU"} \cup BootFiles \cup Logos
Parts    == {"ROOTFS", "RES", "CACHE", "DATA", "SYSTEM", "P1", "P2", "P3", "P4", "P5",
             "P6", "P7", "P8", "ETC"}
Images   == Firmware \cup Parts
FileSystems == {"yaffs2", "jffs2", "ubifs", "squash", "raw", "none", "ext4"}

Board ==
  [flash_type : {"nand", "nor", "emmc"}, flash_size : Nat, mtd_erasesize : Nat \ {0},
   bootcode_start : Nat, bootcode_size : Nat, factory_start : Nat, factory_size : Nat,
   bootpart : {0, 1}]

\* A partition of the configuration; file: how its file name ends.
Part == [fw : Parts, efs : FileSystems, file : {"empty", "img", "bz2"}, img : Nat, min : Nat]

Package ==
  [fw : [Firmware -> Nat], parts : Seq(Part), avfile_count : 0..4, avfile_size : Nat,
   safe_upgrade : BOOLEAN, partition_inverse : BOOLEAN, backup : BOOLEAN,
   erase_free_space : BOOLEAN]

VARIABLES
  board,   (* The board and its parameters.                                 *)
  pkg,     (* The package being installed, or the last one.                 *)
  phase,   (* What the driver does next.                                    *)
  alloc,   (* flash_allo_size of every image.                               *)
  place,   (* flash_offset of every image.                                  *)
  i,       (* The next image to be placed.                                  *)
  low,     (* The end of what is placed from the bottom.                    *)
  high,    (* The start of what is placed from the top.                     *)
  need,    (* flash_total_need_size.                                        *)
  free,    (* FW_P_FREE_SPACE, as [start, size].                            *)
  work,    (* ssu_work_part of the boot table in the factory area.          *)
  half,    (* What each half of the flash holds of a safe upgrade.          *)
  exposed  (* History: since the last complete install one has begun that   *)
           (* does not promise to keep the half in use.                     *)

layoutVars == <<alloc, place, i, low, high, need, free>>
boardVars == <<work, half, exposed>>
vars == <<board, pkg, phase, layoutVars, boardVars, mbrVars>>

-----------------------------------------------------------------------------
(* Allocations.                                                            *)

AlignMore(x, e) == IF x % e = 0 THEN x ELSE x + (e - (x % e))
AlignLess(x, e) == x - (x % e)
BlockAlign(x) == AlignMore(x, board.mtd_erasesize)

\* add_partition gives YAFFS2 at least six erase blocks.
MinSize(p) ==
  IF p.efs = "yaffs2" /\ p.min < 6 * board.mtd_erasesize THEN 6 * board.mtd_erasesize ELSE p.min

\* fill_rtk_part.  A YAFFS2 or JFFS2 image that is not smaller than the minimum gets
\* no room at all.
PartAlloc(p) ==
  CASE p.efs \in {"yaffs2", "jffs2"} /\ p.file = "empty" -> MinSize(p)
    [] p.efs \in {"yaffs2", "jffs2"} /\ p.file = "img" ->
         IF MinSize(p) > BlockAlign(p.img) THEN BlockAlign(MinSize(p)) ELSE 0
    [] p.efs \in {"yaffs2", "jffs2"} /\ p.file = "bz2" -> BlockAlign(MinSize(p))
    [] p.efs = "ubifs" -> BlockAlign(IF p.img > p.min THEN p.img ELSE p.min)
    [] p.efs \in {"squash", "raw"} -> BlockAlign(p.img)
    [] OTHER -> p.min

\* On NOR the driver gives room to these only.
NorFirmware == {"KERNEL", "AUDIO_BOOTFILE", "VIDEO_BOOTFILE", "AUDIO", "VIDEO", "VIDEO2"}

OwnAlloc(p, f) ==
  IF board.flash_type = "emmc" /\ f \in {"RESCUE_DT", "KERNEL_DT"} THEN Dt32K
  ELSE IF board.flash_type = "nor" /\ f \notin NorFirmware THEN 0
  ELSE BlockAlign(p.fw[f])

\* fill_rtk_install_av_count: the logos that count takes in, and what they get.
LogosOf(count) ==
  (IF count >= 2 THEN {"AUDIO_CLOGO1", "VIDEO_CLOGO1"} ELSE {})
  \cup (IF count = 3 THEN {"AUDIO_CLOGO2", "VIDEO_CLOGO2"} ELSE {})

LogoAlloc(p, f) ==
  BlockAlign(IF p.avfile_size = 0 THEN p.fw[f] ELSE p.avfile_size)

AvCountFails(p) ==
  \/ p.avfile_count \notin 0..3
  \/ \E f \in LogosOf(p.avfile_count) : p.avfile_size # 0 /\ LogoAlloc(p, f) < p.fw[f]

FirmwareAlloc(p, f) ==
  CASE f \in LogosOf(p.avfile_count)                  -> LogoAlloc(p, f)
    [] f \in Logos /\ p.avfile_count <= 1             -> 0
    [] f \in BootFiles /\ p.avfile_count = 0          -> 0
    [] OTHER                                          -> OwnAlloc(p, f)

Configured(p) == {p.parts[n].fw : n \in DOMAIN p.parts}
PartOf(p, f) == p.parts[CHOOSE n \in DOMAIN p.parts : p.parts[n].fw = f]

Allocated(p) ==
  [f \in Images |-> IF f \in Firmware THEN FirmwareAlloc(p, f)
                    ELSE IF f \in Configured(p) THEN PartAlloc(PartOf(p, f))
                    ELSE 0]

-----------------------------------------------------------------------------
(* The areas that are not placed but given.                                *)

BootAlloc == BlockAlign(board.bootcode_size)
Section == BlockAlign(2 * board.factory_size)
FwTable ==
  CASE board.flash_type = "nand" -> board.mtd_erasesize
    [] board.flash_type = "emmc" -> Dt32K
    [] OTHER -> 0

\* The eMMC firmware area moves up when a backup of it is to be kept.
Gap(p) == IF board.flash_type = "emmc" /\ p.backup /\ board.bootpart # 1 THEN BackupGap ELSE 0

\* reserved_boot_size, and the fw table behind it.
Reserved(p) ==
  CASE board.flash_type = "nand" -> board.bootcode_size + 2 * board.factory_size + FwTable
    [] board.flash_type = "emmc" -> board.factory_start + Section + Gap(p) + FwTable
    [] OTHER -> board.bootcode_start + BootAlloc

\* The half of the flash a safe upgrade writes is the one that is not in use.
Halves == board.flash_type = "nor"

\* Mutants of Target: the halves are counted on; a first safe upgrade is taken for one
\* that runs from the first half.
TargetNext(w) == w + 1
TargetSame(w) == IF w = 2 THEN 2 ELSE 1

Target(w) == IF w = 1 THEN 2 ELSE 1
NextWork(p) == IF Halves /\ p.safe_upgrade THEN Target(work) ELSE 0

HalfStart(h) ==
  IF h = 1 THEN board.bootcode_start + BootAlloc
  ELSE AlignMore(board.flash_size \div 2, board.mtd_erasesize)
HalfEnd(h) ==
  IF h = 1 THEN AlignLess(board.flash_size \div 2, board.mtd_erasesize)
  ELSE board.flash_size - Section

Bottom(p) == IF Halves /\ p.safe_upgrade THEN HalfStart(Target(work)) ELSE Reserved(p)
Top(p) ==
  IF ~Halves THEN board.flash_size
  ELSE IF p.safe_upgrade THEN HalfEnd(Target(work))
  ELSE board.flash_size - Section

\* With partition_inverse the top does not depend on the half.
FirstHigh(p) == IF Halves /\ p.partition_inverse THEN board.flash_size - Section ELSE Top(p)

-----------------------------------------------------------------------------
(* The order in which the images are placed, and which way.                *)

Up(f) == [fw |-> f, way |-> "up"]
Down(f) == [fw |-> f, way |-> "down"]
\* An image that takes room in the sum but is given no place.
Left(f) == [fw |-> f, way |-> "none"]

BottomUp ==
  <<Up("RESCUE_DT"), Up("KERNEL_DT"), Up("AUDIO"), Up("KERNEL"), Up("RESCUE_ROOTFS"),
    Up("KERNEL_ROOTFS"), Up("AUDIO_BOOTFILE"), Up("IMAGE_BOOTFILE"), Up("VIDEO_BOOTFILE")>>
TopDown(p) ==
  [n \in DOMAIN p.parts |-> Down(p.parts[Len(p.parts) + 1 - n].fw)]
Unplaced ==
  <<Left("VIDEO"), Left("VIDEO2"), Left("ECPU"), Left("AUDIO_CLOGO1"), Left("VIDEO_CLOGO1"),
    Left("AUDIO_CLOGO2"), Left("VIDEO_CLOGO2")>>

NorFiles ==
  <<"VIDEO", "AUDIO", "KERNEL", "VIDEO_BOOTFILE", "AUDIO_BOOTFILE", "VIDEO_CLOGO1",
    "AUDIO_CLOGO1", "VIDEO_CLOGO2", "AUDIO_CLOGO2">>
NorUnplaced ==
  <<Left("VIDEO2"), Left("RES"), Left("CACHE"), Left("DATA"), Left("SYSTEM"), Left("P6"),
    Left("P7"), Left("P8")>>
NorOrder(p) ==
  IF p.partition_inverse
  THEN <<Down("ETC"), Down("ROOTFS")>>
       \o [n \in DOMAIN NorFiles |-> Up(NorFiles[n])]
       \o <<Up("P1"), Up("P2"), Up("P3"), Up("P4"), Up("P5")>> \o NorUnplaced
  ELSE [n \in DOMAIN NorFiles |-> Down(NorFiles[n])]
       \o <<Down("P5"), Down("P4"), Down("P3"), Down("P2"), Down("P1")>>
       \o <<Up("ETC"), Up("ROOTFS")>> \o NorUnplaced

Order(b, p) ==
  IF b.flash_type = "nor" THEN NorOrder(p) ELSE BottomUp \o TopDown(p) \o Unplaced

\* Packages are made for a kind of flash.  On an eMMC the partitions are ext4 (the
\* format loop ends the burn at any other); more than nine would need more tables than
\* mbr[8] holds, and one no larger than the reserve would have no sectors.
Suits(p) ==
  IF board.flash_type = "emmc"
  THEN /\ Len(p.parts) <= 9
       /\ \A n \in DOMAIN p.parts :
            p.parts[n].efs = "ext4" /\ p.parts[n].min >= (Reserve + 1) * board.mtd_erasesize
  ELSE \A n \in DOMAIN p.parts : p.parts[n].efs # "ext4"

\* A partition is configured once, and NAND and eMMC packages have one at least (the
\* code would take the top of the free space from behind the array).  The boot code of
\* NAND and NOR lies at 0, and the factory area of an eMMC, which is a number of sectors,
\* starts at bootcode_size; that of a NOR flash is no more than half of it.
ASSUME LayoutAssumption ==
  /\ Boards \subseteq Board /\ Boards # {} /\ Packages \subseteq Package /\ Packages # {}
  /\ Dt32K \in Nat /\ BackupGap \in Nat
  /\ \A b \in Boards :
       CASE b.flash_type = "nand" -> b.bootcode_start = 0
         [] b.flash_type = "emmc" -> /\ b.factory_start = b.bootcode_size
                                     /\ \E n \in 0..Sectors : b.flash_size = n * b.mtd_erasesize
         [] OTHER -> /\ b.bootcode_start = 0
                     /\ 2 * AlignMore(2 * b.factory_size, b.mtd_erasesize) <= b.flash_size
  /\ \A b \in Boards, p \in Packages :
       \A m, n \in DOMAIN Order(b, p) : Order(b, p)[m].fw = Order(b, p)[n].fw => m = n

NoPackage == [parts |-> <<>>]
Nowhere == [start |-> 0, size |-> 0]

Init ==
  /\ board \in Boards /\ pkg = NoPackage
  /\ phase = "idle"
  /\ alloc = [f \in Images |-> 0] /\ place = [f \in Images |-> 0]
  /\ i = 1 /\ low = 0 /\ high = 0 /\ need = 0 /\ free = Nowhere
  /\ work = 0 /\ half = [h \in 1..2 |-> "none"] /\ exposed = FALSE
  /\ MbrInit
-----------------------------------------------------------------------------
(* Filling in the descriptor.                                              *)

Refused(p) == AvCountFails(p) \/ (board.flash_type = "nand" /\ p.safe_upgrade)

\* The program ends, and its memory with it.
Exit ==
  /\ phase' = "idle" /\ pkg' = NoPackage
  /\ alloc' = [f \in Images |-> 0] /\ place' = [f \in Images |-> 0]
  /\ i' = 1 /\ low' = 0 /\ high' = 0 /\ need' = 0 /\ free' = Nowhere
  /\ MbrForgotten
  /\ UNCHANGED board

Fill(p) ==
  /\ phase = "idle" /\ Suits(p) /\ ~Refused(p)
  /\ pkg' = p /\ phase' = "place"
  /\ alloc' = Allocated(p) /\ place' = [f \in Images |-> 0] /\ i' = 1
  /\ low' = Bottom(p) /\ high' = FirstHigh(p)
  /\ need' = BootAlloc + Section + FwTable
  /\ free' = Nowhere
  /\ UNCHANGED <<board, boardVars, mbrVars>>

Placing(way) ==
  /\ phase = "place" /\ i <= Len(Order(board, pkg)) /\ Order(board, pkg)[i].way = way
  /\ i' = i + 1
  /\ UNCHANGED <<board, pkg, phase, alloc, free, boardVars, mbrVars>>
Image == Order(board, pkg)[i].fw

PlaceUp ==
  /\ Placing("up")
  /\ place' = [place EXCEPT ![Image] = low]
  /\ low' = low + alloc[Image] /\ need' = need + alloc[Image]
  /\ UNCHANGED high

PlaceDown ==
  /\ Placing("down")
  /\ high' = high - alloc[Image]
  /\ place' = [place EXCEPT ![Image] = high - alloc[Image]]
  /\ need' = need + alloc[Image]
  /\ UNCHANGED low

LeaveUnplaced ==
  /\ Placing("none")
  /\ need' = need + alloc[Image]
  /\ UNCHANGED <<place, low, high>>

\* Mutant of FreeSpace: it ends where the images placed from the top end.
FreeSpaceToTop == [start |-> low, size |-> Top(pkg) - low]

\* The comparison is unsigned: a high below 0 counts as a large one.
FreeSpace ==
  IF high > low \/ high < 0 THEN [start |-> low, size |-> high - low]
  ELSE Nowhere

\* Mutant of Fits: a sum larger than the flash is let through.
FitsNearly == need <= board.flash_size + 2 * board.mtd_erasesize

\* The two space checks: a safe upgrade has its half, the boot code and the factory area.
Fits ==
  IF pkg.safe_upgrade
  THEN need <= Top(pkg) - Bottom(pkg) + BootAlloc + Section
  ELSE need <= board.flash_size

Placed == phase = "place" /\ i > Len(Order(board, pkg))

Accept ==
  /\ Placed /\ Fits
  /\ phase' = "accepted" /\ free' = FreeSpace
  /\ UNCHANGED <<board, pkg, alloc, place, i, low, high, need, boardVars, mbrVars>>

Reject ==
  /\ Placed /\ ~Fits
  /\ Exit
  /\ UNCHANGED <<boardVars, chain>>

-----------------------------------------------------------------------------
(* What is done with an accepted layout.                                   *)

Apart(start, size, start2, size2) == start + size <= start2 \/ start2 + size2 <= start

\* What becomes of the halves when an area is written.
Torn(start, size) ==
  [h \in 1..2 |->
     IF Halves /\ size > 0 /\ ~Apart(start, size, HalfStart(h), HalfEnd(h) - HalfStart(h))
     THEN "torn" ELSE half[h]]

Promises(p) == p.safe_upgrade /\ ~p.partition_inverse

\* The driver erases the free space when the package asks for it.
Start ==
  /\ phase = "accepted"
  /\ phase' = (IF board.flash_type = "emmc" THEN "sum" ELSE "burn") /\ i' = 1
  /\ half' = IF pkg.erase_free_space THEN Torn(free.start, free.size) ELSE half
  /\ exposed' = (exposed \/ ~Promises(pkg))
  /\ UNCHANGED <<board, pkg, alloc, place, low, high, need, free, work, mbrVars>>

\* write_boottable_emmc.
SectorsOf(size) == size \div board.mtd_erasesize
All == SectorsOf(board.flash_size)
Room(n) == SectorsOf(alloc[pkg.parts[n].fw])
Partitions == Len(pkg.parts)

\* The first loop adds up the partitions whose allocation is not 0, here in the order of
\* the second, which takes all of them: the same for packages that suit an eMMC.
SumRooms ==
  /\ phase = "sum" /\ i <= Partitions
  /\ AddRoom(Room(i)) /\ i' = i + 1
  /\ UNCHANGED <<board, pkg, phase, alloc, place, low, high, need, free, boardVars>>

\* Its own refusal has no case left: the space check has counted the boot code too.
TablesFit == All > at.parted

FirstTable ==
  /\ phase = "sum" /\ i > Partitions /\ TablesFit
  /\ Fresh(All)
  /\ phase' = "entries" /\ i' = 1
  /\ UNCHANGED <<board, pkg, alloc, place, low, high, need, free, boardVars>>

NextEntry ==
  /\ phase = "entries" /\ i <= Partitions
  /\ AddEntry(Room(i), Partitions, All)
  /\ i' = i + 1
  /\ UNCHANGED <<board, pkg, phase, alloc, place, low, high, need, free, boardVars>>

\* The tables are written from the first to the last.
FirstWrite ==
  /\ phase = "entries" /\ i > Partitions
  /\ phase' = "write" /\ i' = 0
  /\ UNCHANGED <<board, pkg, alloc, place, low, high, need, free, boardVars, mbrVars>>

WriteTable ==
  /\ phase = "write" /\ i <= at.table
  /\ SetMbr(i) /\ i' = i + 1
  /\ UNCHANGED <<board, pkg, phase, alloc, place, low, high, need, free, boardVars>>

\* rtk_mount_format_emmc makes the file systems of the empty partitions, and the burn
\* those of the others; each clears what was in its device, so one loop stands for both.
FirstFormat ==
  /\ phase = "write" /\ i > at.table
  /\ phase' = "format" /\ i' = 1
  /\ UNCHANGED <<board, pkg, alloc, place, low, high, need, free, boardVars, mbrVars>>

FormatPart ==
  /\ phase = "format" /\ i <= Partitions
  /\ Format(Device(MountDev(i, Partitions))) /\ i' = i + 1
  /\ UNCHANGED <<board, pkg, phase, alloc, place, low, high, need, free, boardVars>>

Formatted ==
  /\ phase = "format" /\ i > Partitions
  /\ phase' = "burn"
  /\ UNCHANGED <<board, pkg, layoutVars, boardVars, mbrVars>>

\* The images that were given a place.
PlacedImages ==
  LET order == Order(board, pkg)
  IN {order[n].fw : n \in {m \in DOMAIN order : order[m].way # "none"}}

\* The burn writes the images in the order of TagFlow.  Here it may have destroyed
\* whatever it will write as soon as it begins.
Burn ==
  /\ phase = "burn"
  /\ phase' = "burning"
  /\ half' = [h \in 1..2 |->
                IF \E f \in PlacedImages : Torn(place[f], alloc[f])[h] = "torn"
                THEN "torn" ELSE half[h]]
  /\ UNCHANGED <<board, pkg, layoutVars, work, exposed, mbrVars>>

Burned ==
  /\ phase = "burning"
  /\ half' = IF Halves /\ Promises(pkg) THEN [half EXCEPT ![Target(work)] = "whole"] ELSE half

\* The last tag of the flow updates the table, and the table reaches the flash.
Complete ==
  /\ Burned
  /\ work' = NextWork(pkg)
  /\ exposed' = (Halves /\ pkg.safe_upgrade /\ pkg.partition_inverse)
  /\ Exit
  /\ UNCHANGED chain

\* A power cut before the table has reached the flash.
TableLost ==
  /\ Burned
  /\ Exit
  /\ UNCHANGED <<work, exposed, chain>>

\* A failure or a power cut anywhere after the layout was accepted.
Fail ==
  /\ phase \in {"accepted", "sum", "entries", "write", "format", "burn", "burning"}
  /\ Exit
  /\ UNCHANGED <<boardVars, chain>>

Next ==
  \/ \E p \in Packages : Fill(p)
  \/ PlaceUp \/ PlaceDown \/ LeaveUnplaced \/ Accept \/ Reject \/ Start
  \/ SumRooms \/ FirstTable \/ NextEntry \/ FirstWrite \/ WriteTable
  \/ FirstFormat \/ FormatPart \/ Formatted
  \/ Burn \/ Complete \/ TableLost \/ Fail

Spec == Init /\ [][Next]_vars

-----------------------------------------------------------------------------
Accepted == {"accepted", "sum", "entries", "write", "format", "burn", "burning"}

\* The variables keep their types.
TypeOK ==
  /\ board \in Boards /\ pkg \in Packages \cup {NoPackage}
  /\ phase \in Accepted \cup {"idle", "place"}
  /\ alloc \in [Images -> Nat] /\ place \in [Images -> Int]
  /\ i \in Nat /\ low \in Int /\ high \in Int /\ need \in Int
  /\ free \in [start : Int, size : Int]
  /\ work \in 0..2 /\ half \in [1..2 -> {"none", "torn", "whole"}] /\ exposed \in BOOLEAN

\* The sum of the space check leaves out the gap below a backup firmware area, so a
\* package that needs the gap too is accepted.
GapUncounted == Gap(pkg) # 0 /\ ~pkg.safe_upgrade

\* An accepted layout gives no two images the same room, and none the room of the boot
\* code, the factory area and the descriptor below it or of the factory area above it.
AreasDisjoint ==
  phase \in Accepted /\ ~GapUncounted =>
    \A f \in PlacedImages :
      /\ Bottom(pkg) <= place[f] /\ place[f] + alloc[f] <= FirstHigh(pkg)
      /\ \A g \in PlacedImages \ {f} : Apart(place[f], alloc[f], place[g], alloc[g])

\* What the driver erases as free space (erase_free_space) is no image's room, in
\* accepted layouts that overlap for the gap as well.
FreeSpaceFree ==
  phase \in Accepted =>
    \A f \in PlacedImages : free.size # 0 => Apart(free.start, free.size, place[f], alloc[f])

\* A safe upgrade leaves the half in use alone: the half the boot table names holds a
\* complete set of images, whatever upgrades have failed since it was written.
WorkPartWhole == work # 0 /\ ~exposed => half[work] = "whole"

\* Once the tables are written, what Linux finds at the device of each partition is the
\* room the layout gave it without its first sectors, also while the partitions are
\* being formatted; sizes that are no whole number of sectors at least keep the devices
\* apart and above the firmware.
DevicesAreAreas ==
  board.flash_type = "emmc" /\ phase \in {"format", "burn", "burning"} =>
    \A n \in DOMAIN pkg.parts :
      LET d == Device(MountDev(n, Partitions))
          f == pkg.parts[n].fw
          E == board.mtd_erasesize
      IN /\ d.id = "linux"
         /\ (\A m \in DOMAIN pkg.parts : alloc[pkg.parts[m].fw] % E = 0) =>
               /\ place[f] <= d.start * E /\ (d.start + d.num) * E <= place[f] + alloc[f]
               /\ d.num = Room(n) - Reserve
         /\ ~GapUncounted => d.start * E >= low
         /\ \A m \in DOMAIN pkg.parts \ {n} :
              LET e == Device(MountDev(m, Partitions))
              IN Apart(d.start, d.num, e.start, e.num)
=============================================================================
