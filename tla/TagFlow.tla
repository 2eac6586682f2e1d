------------------------------ MODULE TagFlow ------------------------------
(***************************************************************************)
(* The burn order: tagflow3 and tagflow3_emmc (src/rtk_tagflow.cpp), called *)
(* by rtk_burn_rtkimg_from_usb until the boot table's tag is TAG_COMPLETE, *)
(* and rtk_mount_format_emmc, which runs before them on eMMC.  Each step   *)
(* burns one image of the package and, when that succeeded, enters it in   *)
(* the boot table: firmware in the fw list, file systems in the part list. *)
(***************************************************************************)
EXTENDS Naturals, Sequences

CONSTANT Packages   (* The packages, each with the board it is installed on.*)

Dts     == {"rescue_dt", "kernel_dt"}
Logos   == {"dalogo", "dilogo", "dvlogo"}
Fws     == {"kernel", "rescue_rootfs", "kernel_rootfs", "audio"} \cup Dts \cup Logos
Others  == {"p1", "p2", "p3", "p4", "p5", "p6", "p7", "p8"}
Partitions == {"etc", "rootfs", "res", "cache", "data", "system"} \cup Others
Images  == Fws \cup Partitions

\* The switch's cases in the order the tags take, with the loop over
\* P_PARTITION1..8 of TAG_UPDATE_OTHER_PARTITION1 in place of that tag.
Flow == << "etc", "kernel", "rescue_dt", "kernel_dt", "rescue_rootfs",
           "kernel_rootfs", "audio", "dalogo", "dilogo", "dvlogo", "res",
           "cache", "data", "system",
           "p1", "p2", "p3", "p4", "p5", "p6", "p7", "p8" >>
COMPLETE == 23

\* The loop of rtk_mount_format_emmc, in the order of enum FWTYPE.
FormatOrder == << "rootfs", "res", "cache", "data", "system", "p1", "p2", "p3",
                  "p4", "p5", "p6", "p7", "p8", "etc" >>
FORMATTED == 15

\* How a partition is burned:
\*   file   its image is in the package and is written to the flash;
\*   erase  it has no file and is erased;
\*   none   there is nothing to write (no file system, or no room allotted);
\*   null   eMMC only: formatted beforehand, left empty.
Kinds == {"file", "erase", "none", "null"}

\* sized: the images whose img_size is not 0.  recorded: layout.txt lists etc,
\* where it is now unless moved.
Package ==
  [flash : {"nand", "nor", "emmc"}, update_etc : BOOLEAN, install_dtb : BOOLEAN,
   recorded : BOOLEAN, moved : BOOLEAN, sized : SUBSET Images,
   kind : [Partitions -> Kinds]]

\* img_size is the size of the file, or min_size when there is no file.
PackageOK(p) ==
  \A i \in Partitions :
    /\ p.kind[i] = "file" => i \in p.sized
    /\ p.kind[i] = "null" => p.flash = "emmc" /\ i \notin p.sized
    /\ p.flash = "emmc" => p.kind[i] # "erase" /\ (p.kind[i] = "none" => i \notin p.sized)

ASSUME PackagesAssumption ==
  Packages # {} /\ \A p \in Packages : p \in Package /\ PackageOK(p)

VARIABLES
  pkg,       (* The package.                                                *)
  fmt,       (* Where rtk_mount_format_emmc's loop is; FORMATTED after it.  *)
  tag,       (* boottable.tag, as a position in Flow; COMPLETE at the end.  *)
  busy,      (* The current image is being written.                         *)
  part,      (* boottable.part: the names in list[0..partcount-1].          *)
  fw,        (* boottable.fw: zero, from this burn, or from an earlier one. *)
  boottype,  (* boottable.boottype.                                         *)
  ret,       (* The image whose failure ended the burn, or SUCCESS.         *)
  region     (* What each image's place in the flash holds.                 *)

table == <<part, fw, boottype>>
vars  == <<pkg, fmt, tag, busy, part, fw, boottype, ret, region>>

-----------------------------------------------------------------------------
(* The part list.                                                            *)

Listed(i) == \E k \in 1..Len(part) : part[k] = i

\* remove_part_by_partname: the last entry takes the removed one's place.  The
\* code looks again for a further entry of that name (see PartListSound).
Without(s, name) ==
  IF \E k \in 1..Len(s) : s[k] = name
    THEN LET at == CHOOSE k \in 1..Len(s) : s[k] = name
         IN [k \in 1..(Len(s) - 1) |-> IF k = at THEN s[Len(s)] ELSE s[k]]
    ELSE s

\* The part lines of layout.txt: what read_boottable would recover if it set
\* partcount.  With it for RecoveredParts, EtcKept holds.
RecordedParts(p) == IF p.recorded THEN <<"etc">> ELSE << >>

\* read_boottable parses the part lines but leaves partcount 0.
RecoveredParts(p) == << >>

\* update_etc, which fill_rtkimgdesc_layout forces when the table lists no etc.
UpdateEtc(p) == p.update_etc \/ RecoveredParts(p) = << >>

-----------------------------------------------------------------------------
Init ==
  /\ pkg \in Packages
  /\ fmt = IF pkg.flash = "emmc" THEN 1 ELSE FORMATTED
  /\ tag = 1
  /\ busy = FALSE
  /\ part = RecoveredParts(pkg)
  /\ fw = [i \in Fws |-> IF pkg.recorded THEN "earlier" ELSE "zero"]
  /\ boottype = "UNKNOWN"
  /\ ret = "SUCCESS"
  /\ region = [i \in Images |-> "old"]

Formatting == fmt < FORMATTED
Current    == IF Formatting THEN FormatOrder[fmt] ELSE Flow[tag]
Running    == ret = "SUCCESS" /\ tag < COMPLETE

Kind(i)    == IF i \in Fws THEN "file" ELSE pkg.kind[i]

\* Mutant of Advance: DVLOGO is followed by the ROOTFS tag, which has a case
\* only in the NAS build.
AdvanceToRootfs ==
  IF Formatting THEN fmt' = fmt + 1 /\ UNCHANGED tag
                ELSE /\ tag' = IF Current = "dvlogo" THEN tag ELSE tag + 1
                     /\ UNCHANGED fmt

\* The next tag, or the next turn of a loop.
Advance ==
  IF Formatting THEN fmt' = fmt + 1 /\ UNCHANGED tag
                ELSE tag' = tag + 1 /\ UNCHANGED fmt

\* Mutant of Skips: every partition of the eMMC is formatted.
SkipsNoFormat(i) ==
  IF Formatting THEN FALSE
  ELSE \/ i \in Dts /\ ~pkg.install_dtb
       \/ i \in Logos \cup Others \cup {"res", "etc"} /\ i \notin pkg.sized

\* The conditions under which an image is passed over.
Skips(i) ==
  IF Formatting THEN Kind(i) # "null"
  ELSE \/ i \in Dts /\ ~pkg.install_dtb
       \/ i \in Logos \cup Others \cup {"res", "etc"} /\ i \notin pkg.sized
       \/ /\ i = "etc" /\ pkg.flash # "emmc" /\ ~UpdateEtc(pkg) /\ Listed("etc")
          /\ pkg.moved => pkg.flash = "nand"

\* Mutant of Writes: rtk_burn_ext4_img formats whatever the file's name is.
WritesAll(i) == Kind(i) # "none"

\* Burning the image changes the flash.  A firmware image of size 0, and an
\* eMMC partition whose file is no archive, are refused.
Writes(i) ==
  \/ Kind(i) = "file" /\ i \in pkg.sized
  \/ Kind(i) = "erase"
  \/ Kind(i) = "null" /\ Formatting

\* Mutant of Tolerates: tagflow3_emmc's log-and-go-on in the KERNEL case too.
ToleratesKernel(i) == i \in Logos \cup {"etc", "kernel"} /\ ~Formatting

\* A failure that is logged and passed over.
Tolerates(i) ==
  ~Formatting /\ (i \in Logos \/ (i = "etc" /\ pkg.flash = "emmc"))

\* update_fw; remove_part_by_partname and add_part; add_part alone in the loop
\* over the other partitions.
Enter(i) ==
  IF i \in Fws
    THEN fw' = [fw EXCEPT ![i] = "this"] /\ UNCHANGED part
    ELSE /\ part' = Append(IF ~Formatting /\ i \in Others THEN part
                                                          ELSE Without(part, i), i)
         /\ UNCHANGED fw

\* Mutant of Clear: the entry is left as it was.
ClearNothing(i) == UNCHANGED fw

\* update_fw with zeros, for a logo that is absent or could not be burned.
Clear(i) == fw' = IF i \in Logos THEN [fw EXCEPT ![i] = "zero"] ELSE fw

-----------------------------------------------------------------------------
Skip ==
  /\ Running /\ ~busy /\ Skips(Current)
  /\ Clear(Current) /\ Advance
  /\ UNCHANGED <<pkg, busy, part, boottype, ret, region>>

\* The first command that writes the image's place has begun.
Begin ==
  /\ Running /\ ~busy /\ ~Skips(Current) /\ Writes(Current)
  /\ busy' = TRUE
  /\ region' = [region EXCEPT ![Current] = "torn"]
  /\ UNCHANGED <<pkg, fmt, tag, table, ret>>

Burned ==
  /\ Running /\ busy
  /\ busy' = FALSE
  /\ region' = [region EXCEPT ![Current] = "new"]
  /\ Enter(Current) /\ Advance
  /\ UNCHANGED <<pkg, boottype, ret>>

\* rtk_burn_single_part returns 0 for a file system type that has no case.
NothingToWrite ==
  /\ Running /\ ~busy /\ ~Skips(Current)
  /\ Kind(Current) = "none"
  /\ Enter(Current) /\ Advance
  /\ UNCHANGED <<pkg, busy, boottype, ret, region>>

\* Mutant of Fails: a failed logo is entered like a burned one.
FailsEntered ==
  /\ Running /\ ~Skips(Current)
  /\ busy' = FALSE
  /\ IF Tolerates(Current)
       THEN Enter(Current) /\ Advance /\ UNCHANGED ret
       ELSE ret' = Current /\ UNCHANGED <<fmt, tag, fw, part>>
  /\ UNCHANGED <<pkg, boottype, region>>

\* A command of the burn fails, or it is refused before it writes; a partition
\* without room is refused when the utilities cannot be extracted.
Fails ==
  /\ Running /\ ~Skips(Current)
  /\ busy' = FALSE
  /\ IF Tolerates(Current)
       THEN Clear(Current) /\ Advance /\ UNCHANGED <<part, ret>>
       ELSE ret' = Current /\ UNCHANGED <<fmt, tag, fw, part>>
  /\ UNCHANGED <<pkg, boottype, region>>

\* Mutant of Complete: the tag moves on, and the driver's loop with it.
CompletePast ==
  /\ ret = "SUCCESS" /\ tag = COMPLETE /\ boottype # "COMPLETE"
  /\ boottype' = "COMPLETE" /\ tag' = tag + 1
  /\ UNCHANGED <<pkg, fmt, busy, part, fw, ret, region>>

\* After the loop over the other partitions: TAG_COMPLETE is set with it.
Complete ==
  /\ ret = "SUCCESS" /\ tag = COMPLETE /\ boottype # "COMPLETE"
  /\ boottype' = "COMPLETE"
  /\ UNCHANGED <<pkg, fmt, tag, busy, part, fw, ret, region>>

Next == Skip \/ Begin \/ Burned \/ NothingToWrite \/ Fails \/ Complete

Spec     == Init /\ [][Next]_vars
FairSpec == Spec /\ WF_vars(Next)

-----------------------------------------------------------------------------
TypeOK ==
  /\ pkg \in Packages
  /\ fmt \in 1..FORMATTED
  /\ tag \in 1..COMPLETE
  /\ busy \in BOOLEAN
  /\ part \in Seq(Partitions)
  /\ fw \in [Fws -> {"zero", "this", "earlier"}]
  /\ boottype \in {"UNKNOWN", "COMPLETE"}
  /\ ret \in Images \cup {"SUCCESS"}
  /\ region \in [Images -> {"old", "torn", "new"}]

\* The images without which this package does not boot or has no data.
Required ==
  {"kernel", "rescue_rootfs", "kernel_rootfs", "audio", "cache", "data", "system"}
    \cup (IF pkg.install_dtb THEN Dts ELSE {})
    \cup ((Others \cup {"res"}) \cap pkg.sized)
    \cup (IF pkg.flash # "emmc" /\ UpdateEtc(pkg) THEN {"etc"} \cap pkg.sized ELSE {})

Entered(i) == IF i \in Fws THEN fw[i] = "this" ELSE Listed(i)
Holds(i)   == region[i] = "new" \/ Kind(i) = "none"

\* BOOTTYPE_COMPLETE in the boot table promises the boot code that every image
\* it needs was burned by this installation and is in the table.  Whether the
\* failure of a burn ends the flow is decided in each of the switch's cases.
CompleteMeansBurned ==
  boottype = "COMPLETE" => \A i \in Required : Entered(i) /\ Holds(i)

\* At every moment, the table lists only what is whole in the flash: an error
\* exit on eMMC writes the table as it is then (rtk_main.cpp, before_burn_end).
ListedIsWhole == \A i \in Images : Entered(i) => Holds(i)

\* A complete table keeps no firmware entry of an earlier installation, whose
\* place the new layout may have given to another image; but see the README on
\* device trees that are not installed.
NoStaleFirmware ==
  boottype = "COMPLETE" =>
    \A i \in Fws : fw[i] = "earlier" => i \in Dts /\ ~pkg.install_dtb

\* add_part neither looks for an entry of the same name nor checks that list[20]
\* has room: no name is entered twice, and never more than 20.
PartListSound ==
  /\ Len(part) <= 20
  /\ \A j, k \in 1..Len(part) : part[j] = part[k] => j = k

\* No step of the flow, nor the format before it, destroys what the same
\* installation has put in the flash.
BurnedStays ==
  [][\A i \in Images : region[i] = "new" => region'[i] = "new"]_vars

\* The driver loops until TAG_COMPLETE, and a tag without a case of its own only
\* logs: every burn ends, complete or with an error.
FlowEnds == <>(boottype = "COMPLETE" \/ ret # "SUCCESS")

\* What rtk_tagflow.cpp says of update_etc=n: etc is burned only if the boot
\* table does not have it, or has it somewhere else.
EtcKept ==
  pkg.flash # "emmc" /\ ~pkg.update_etc /\ pkg.recorded /\ ~pkg.moved
    => region["etc"] = "old"
=============================================================================
