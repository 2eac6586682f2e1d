------------------------------- MODULE Fwdesc -------------------------------
(***************************************************************************)
(* The firmware descriptor: the table behind the boot code that lists the  *)
(* firmware and the partitions.  burn_fwdesc_nand and burn_fwdesc_emmc     *)
(* (rtk_burn.cpp) build it in memory, save_fwdesc and save_fwdesc_emmc     *)
(* (rtk_fwdesc.cpp) put it into the flash for the boot code.  load_fwdesc, *)
(* which would read it back, is not a part of any installation.            *)
(* The boot code takes a descriptor whose signature is VERONA__ and whose  *)
(* checksum is right; the driver spoils the signature before it burns.     *)
(*                                                                         *)
(* The descriptor is a header and a list of entries, written one after the *)
(* other; the write of one entry, and that of the header, is one sector    *)
(* and is not torn.  Offsets, lengths and checksums of an image stand for  *)
(* the installation that they are of.                                      *)
(***************************************************************************)
EXTENDS Integers, Sequences, Functions

CONSTANTS
  Flashes,     (* Those of "nand", "emmc" to be looked at.                  *)
  Systems,     (* What the packages hold: the firmware that is present and  *)
               (* the number of partitions with a file system.              *)
  MaxRuns,     (* Bound on the number of installations.                     *)
  MaxSkips     (* Bound on the writes that fail in one save to the eMMC.    *)

Required  == {"kernel", "rescue_dt", "kernel_dt", "audio"}
FixedList == <<"kernel", "rescue_dt", "kernel_dt", "rescue_rootfs", "kernel_rootfs", "audio">>
Bootfiles == {"audio_file", "image_file", "video_file"}
Firmware  == Range(FixedList) \cup Bootfiles

ASSUME FwdescAssumption ==
  /\ Flashes # {} /\ Flashes \subseteq {"nand", "emmc"}
  /\ Systems # {} /\ Systems \subseteq [firmware : SUBSET Firmware, partitions : 0..14]
  /\ MaxRuns \in Nat \ {0} /\ MaxSkips \in Nat

VARIABLES
  flash,   (* The kind of flash.                                            *)
  pc,      (* The step of the installation; "off" between two.              *)
  run,     (* The installation, or the last one; 0 is the one in the factory. *)
  system,  (* What the package of this run holds.                           *)
  images,  (* The installation that the images are of, -1 while they are    *)
           (* being overwritten.                                            *)
  lists,   (* History: the entries that describe those images.              *)
  desc,    (* The descriptor in memory, for NAND then the file in PKG_TEMP. *)
  done,    (* How many of its cells have been written.                      *)
  pos,     (* The position of the open device.                              *)
  cells,   (* The flash behind the boot code: a header and entries.         *)
  ret,     (* What rtk_burn_fwdesc has returned.                            *)
  lapses   (* History: the failures that no return value tells.             *)

vars == <<flash, pc, run, system, images, lists, desc, done, pos, cells, ret, lapses>>

-----------------------------------------------------------------------------
(* The descriptor in memory.                                                 *)

PartSlots == 10   \* part_desc[10] of struct rtk_fw_header

\* The first is that of the partition that holds the firmware.
PartEntry(i, count, n) == [kind |-> "part", index |-> i, count |-> count, of |-> n]
FwEntry(name, there, n) == [kind |-> "fw", name |-> name, there |-> there, of |-> n]

IfThere(s, x) == IF x \in s.firmware THEN <<x>> ELSE <<>>

\* The fixed six are listed whether their file is there or not, a bootfile only
\* when it is.
Listed(s) ==
  FixedList \o IfThere(s, "audio_file") \o IfThere(s, "image_file") \o IfThere(s, "video_file")
Partitions(s) == s.partitions + 1

PartEntries(s, n) ==
  [i \in 1..Partitions(s) |-> PartEntry(i - 1, IF i = 1 THEN Len(Listed(s)) ELSE 1, n)]
FwEntries(s, n) ==
  [i \in 1..Len(Listed(s)) |-> FwEntry(Listed(s)[i], Listed(s)[i] \in s.firmware, n)]

\* The entries in the order in which they are saved.
Promised(s, n) == PartEntries(s, n) \o FwEntries(s, n)

\* part_desc is followed by fw_desc: part_desc[10] of a longer list is written over
\* fw_desc[0], the kernel's, which has been filled in before.
Entries(s, n) ==
  IF Partitions(s) <= PartSlots THEN Promised(s, n)
  ELSE [Promised(s, n) EXCEPT ![Partitions(s) + 1] = PartEntries(s, n)[PartSlots + 1]]

\* Mutant of Header: the checksum is that of an empty list.
HeaderNoSum(s, e) ==
  [kind |-> "head", signature |-> "VERONA__", checksum |-> <<>>,
   parts |-> Partitions(s), fws |-> Len(Listed(s))]

\* Mutant of Header: only the firmware whose file is there is counted.
HeaderOfPresent(s, e) ==
  [kind |-> "head", signature |-> "VERONA__", checksum |-> e, parts |-> Partitions(s),
   fws |-> Len(SelectSeq(Listed(s), LAMBDA x : x \in s.firmware))]

\* fw_tab; the sum of the bytes of all entries stands for the entries.
Header(s, e) ==
  [kind |-> "head", signature |-> "VERONA__", checksum |-> e,
   parts |-> Partitions(s), fws |-> Len(Listed(s))]

Built(s, n) == <<Header(s, Entries(s, n))>> \o Entries(s, n)

-----------------------------------------------------------------------------
(* What the boot code makes of the flash.                                    *)

HasHeader == cells # <<>> /\ cells[1].kind = "head"
Present   == SubSeq(cells, 2, 1 + cells[1].parts + cells[1].fws)

\* The boot code takes a descriptor for its signature, and for the checksum over as
\* many entries as the header says.
Accepted ==
  /\ HasHeader /\ cells[1].signature = "VERONA__"
  /\ cells[1].parts + cells[1].fws < Len(cells)
  /\ cells[1].checksum = Present

-----------------------------------------------------------------------------
Init ==
  /\ flash \in Flashes /\ pc = "off" /\ run = 0 /\ ret = 0
  /\ system \in Systems /\ Required \subseteq system.firmware
  /\ images = 0 /\ lists = Promised(system, 0) /\ cells = Built(system, 0)
  /\ desc = <<>> /\ done = 0 /\ pos = 0 /\ lapses = {}

\* The driver up to the burn order: modify_signature, whose result is ignored.
Sign(s) ==
  /\ pc = "off" /\ run < MaxRuns
  /\ pc' = "images" /\ run' = run + 1 /\ system' = s
  /\ \/ /\ cells' = IF HasHeader THEN [cells EXCEPT ![1].signature = "RESCUE__"] ELSE cells
        /\ UNCHANGED lapses
     \/ UNCHANGED cells /\ lapses' = lapses \cup {"sign"}
  /\ UNCHANGED <<flash, images, lists, desc, done, pos, ret>>

\* The burn order writes the images, which takes a while.
BurnImages ==
  /\ pc = "images"
  /\ \/ images' = -1 /\ UNCHANGED <<pc, lists>>
     \/ images' = run /\ pc' = "build" /\ lists' = Promised(system, run)
  /\ UNCHANGED <<flash, run, system, desc, done, pos, cells, ret, lapses>>

\* Mutant of Build: the firmware that must be there is not looked at.
BuildUnchecked ==
  /\ pc = "build" /\ desc' = Built(system, run) /\ done' = 0 /\ pos' = 0
  /\ pc' = IF flash = "nand" THEN "file" ELSE "open"
  /\ UNCHANGED <<flash, run, system, images, lists, cells, ret, lapses>>

\* burn_fwdesc_nand and burn_fwdesc_emmc up to the save.
Build ==
  /\ pc = "build"
  /\ IF Required \subseteq system.firmware
       THEN /\ desc' = Built(system, run) /\ UNCHANGED ret
            /\ pc' = IF flash = "nand" THEN "file" ELSE "open"
       ELSE pc' = "done" /\ ret' = -1 /\ UNCHANGED desc
  /\ done' = 0 /\ pos' = 0
  /\ UNCHANGED <<flash, run, system, images, lists, cells, lapses>>

-----------------------------------------------------------------------------
(* save_fwdesc: through a file, flash_erase and nandwrite.                   *)

\* The file cannot be opened, or is written; that it could only be written in part
\* is not noticed.
WriteFile ==
  /\ pc = "file"
  /\ \/ pc' = "done" /\ ret' = -1 /\ UNCHANGED <<desc, lapses>>
     \/ pc' = "erase" /\ UNCHANGED <<desc, ret, lapses>>
     \/ /\ pc' = "erase" /\ lapses' = lapses \cup {"write"} /\ UNCHANGED ret
        /\ \E n \in {0, 1, Len(desc) - 1} : desc' = SubSeq(desc, 1, n)
  /\ UNCHANGED <<flash, run, system, images, lists, done, pos, cells>>

\* Mutant of Erase: the block is not erased.
EraseNot ==
  /\ pc = "erase" /\ pc' = "nandwrite"
  /\ UNCHANGED <<flash, run, system, images, lists, desc, done, pos, cells, ret, lapses>>

\* flash_erase of the descriptor's block; it may fail before or after erasing.
Erase ==
  /\ pc = "erase"
  /\ \/ pc' = "nandwrite" /\ cells' = <<>> /\ UNCHANGED ret
     \/ pc' = "done" /\ ret' = -1 /\ cells' \in {cells, <<>>}
  /\ UNCHANGED <<flash, run, system, images, lists, desc, done, pos, lapses>>

\* nandwrite, in order.
NandWrite ==
  /\ pc = "nandwrite" /\ done < Len(desc)
  /\ cells' = Append(cells, desc[done + 1]) /\ done' = done + 1
  /\ UNCHANGED <<flash, pc, run, system, images, lists, desc, pos, ret, lapses>>

NandWritten ==
  /\ pc = "nandwrite" /\ done = Len(desc) /\ pc' = "oldtable"
  /\ UNCHANGED <<flash, run, system, images, lists, desc, done, pos, cells, ret, lapses>>

NandWriteFails ==
  /\ pc = "nandwrite" /\ pc' = "done" /\ ret' = -1
  /\ UNCHANGED <<flash, run, system, images, lists, desc, done, pos, cells, lapses>>

\* The table of an older layout, at 0x7c00000, is erased when that is free space; a
\* failure is one of the whole save.
EraseOldTable ==
  /\ pc = "oldtable" /\ pc' = "done" /\ ret' \in {0, -1}
  /\ UNCHANGED <<flash, run, system, images, lists, desc, done, pos, cells, lapses>>

-----------------------------------------------------------------------------
(* save_fwdesc_emmc: in place, with O_SYNC.                                  *)

Open ==
  /\ pc = "open"
  /\ \/ pc' = "write" /\ UNCHANGED ret
     \/ pc' = "done" /\ ret' = -1
  /\ UNCHANGED <<flash, run, system, images, lists, desc, done, pos, cells, lapses>>

\* Mutant of Write: the first entry is written where the header is.
WriteOverHeader ==
  /\ pc = "write" /\ done < Len(desc) /\ done' = done + 1
  /\ pos' = (IF done = 0 THEN 0 ELSE pos + 1)
  /\ cells' = IF pos < Len(cells) THEN [cells EXCEPT ![pos + 1] = desc[done + 1]]
              ELSE Append(cells, desc[done + 1])
  /\ UNCHANGED <<flash, pc, run, system, images, lists, desc, ret, lapses>>

\* One write after the other, the header first.  One that fails is passed over, and
\* the position of the device stays where it was.
Write ==
  /\ pc = "write" /\ done < Len(desc) /\ done' = done + 1
  /\ \/ /\ cells' = IF pos < Len(cells) THEN [cells EXCEPT ![pos + 1] = desc[done + 1]]
                    ELSE Append(cells, desc[done + 1])
        /\ pos' = pos + 1 /\ UNCHANGED lapses
     \/ done - pos < MaxSkips /\ lapses' = lapses \cup {"write"} /\ UNCHANGED <<pos, cells>>
  /\ UNCHANGED <<flash, pc, run, system, images, lists, desc, ret>>

Written ==
  /\ pc = "write" /\ done = Len(desc)
  /\ pc' = "done" /\ ret' = 0
  /\ UNCHANGED <<flash, run, system, images, lists, desc, done, pos, cells, lapses>>

-----------------------------------------------------------------------------
\* The rest of the driver's work leaves the descriptor alone; the program ends.
Finish ==
  /\ pc = "done" /\ pc' = "off"
  /\ desc' = <<>> /\ done' = 0 /\ pos' = 0 /\ ret' = 0
  /\ UNCHANGED <<flash, run, system, images, lists, cells, lapses>>

\* At any moment; what has been written stays.
PowerCut ==
  /\ pc # "off" /\ pc' = "off"
  /\ desc' = <<>> /\ done' = 0 /\ pos' = 0 /\ ret' = 0
  /\ UNCHANGED <<flash, run, system, images, lists, cells, lapses>>

Next ==
  \/ \E s \in Systems : Sign(s)
  \/ BurnImages \/ Build
  \/ WriteFile \/ Erase \/ NandWrite \/ NandWritten \/ NandWriteFails \/ EraseOldTable
  \/ Open \/ Write \/ Written
  \/ Finish \/ PowerCut

Spec == Init /\ [][Next]_vars

-----------------------------------------------------------------------------
Entry ==
  [kind : {"fw"}, name : Firmware, there : BOOLEAN, of : 0..MaxRuns]
  \cup [kind : {"part"}, index : 0..14, count : 1..9, of : 0..MaxRuns]
HeadCell == [kind : {"head"}, signature : {"VERONA__", "RESCUE__"}, checksum : Seq(Entry),
         parts : 1..15, fws : 6..9]
Cell == Entry \cup HeadCell

TypeOK ==
  /\ flash \in Flashes /\ run \in 0..MaxRuns /\ system \in Systems
  /\ pc \in {"off", "images", "build", "file", "erase", "nandwrite", "oldtable", "open",
             "write", "done"}
  /\ images \in -1..MaxRuns /\ lists \in Seq(Entry)
  /\ desc \in Seq(Cell) /\ done \in 0..Len(desc) /\ pos \in 0..done
  /\ cells \in Seq(Cell) /\ ret \in {0, -1} /\ lapses \subseteq {"sign", "write"}

\* Whatever fails and whenever the power is cut, a descriptor that the boot code
\* takes lists the images that are in the flash and the partitions of their
\* package, with nothing missing that a boot needs; unless the signature could not
\* be spoiled.
AcceptedIsCurrent ==
  Accepted /\ "sign" \notin lapses =>
    /\ images >= 0 /\ Present = lists
    /\ \A i \in DOMAIN lists :
         lists[i].kind = "fw" /\ lists[i].name \in Required => lists[i].there

\* burn_fwdesc returns 0 only when the boot code will take the new descriptor, unless one
\* of the writes whose result it ignores has failed.
SuccessIsAccepted ==
  pc = "done" /\ ret = 0 /\ "write" \notin lapses =>
    Accepted /\ cells[1].parts > 0 /\ cells[2].of = run

\* "sanity-check ... zero check." (burn_fwdesc_nand, burn_fwdesc_emmc): a descriptor
\* that has been saved with success and no failed call lists the firmware which the
\* build insists on, however many partitions stand before it in the same struct.
SavedListsRequired ==
  pc = "done" /\ ret = 0 /\ lapses = {} =>
    /\ HasHeader
    /\ \A f \in Required : \E i \in DOMAIN Present :
         Present[i].kind = "fw" /\ Present[i].name = f /\ Present[i].there
=============================================================================
