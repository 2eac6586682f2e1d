----------------------------- MODULE MCTagFlow -----------------------------
(* Instances of TagFlow for TLC.                                             *)
EXTENDS TagFlowImplements

\* Which firmware the package lacks.
LackingFws == {{}, Logos, Dts, {"kernel"}}

\* The kinds of the partitions that vary; the others are absent.
Varying == {"etc", "res", "cache", "p1", "p8"}
KindOf(v) ==
  [i \in Partitions |->
     IF i \in Varying THEN v[i]
     ELSE IF i \in {"data", "system"} THEN "file" ELSE "none"]

\* Partitions without a file but with a min_size: YAFFS2 and JFFS2 ones are
\* erased, and those of no file system only keep their place.
Sizes(flash, k) ==
  IF flash = "emmc" THEN {{}}
  ELSE SUBSET ({"cache", "p8"} \cap {i \in Partitions : k[i] \in {"erase", "none"}})

Choices(flash) ==
  {v \in [Varying -> IF flash = "emmc" THEN {"file", "none", "null"}
                                      ELSE {"file", "erase", "none"}] :
     /\ v["p1"] \in {"file", "null", "none"} /\ v["p8"] \in {"file", "none"}
     /\ v["etc"] \in {"file", "null", "erase"} /\ v["res"] \in {"file", "null", "erase"}}

Make(flash, update_etc, install_dtb, recorded, moved, lacking, kind, sizes) ==
  [flash |-> flash, update_etc |-> update_etc, install_dtb |-> install_dtb,
   recorded |-> recorded, moved |-> moved, kind |-> kind,
   sized |-> (Fws \ lacking) \cup {i \in Partitions : kind[i] = "file"} \cup sizes]

\* Every combination of partitions, with all of the firmware.
PartitionPackages ==
  UNION {UNION {{Make(flash, TRUE, TRUE, FALSE, FALSE, {}, KindOf(v), s)
                   : s \in Sizes(flash, KindOf(v))}
                : v \in Choices(flash)}
         : flash \in {"nand", "emmc"}}

\* Every combination of firmware and flags.
Plain == KindOf([i \in Varying |-> IF i \in {"p1", "p8"} THEN "none" ELSE "file"])
FirmwarePackages ==
  {Make(flash, TRUE, dtb, recorded, FALSE, lacking, Plain, {}) :
     flash \in {"nand", "nor", "emmc"}, dtb \in BOOLEAN, recorded \in BOOLEAN,
     lacking \in LackingFws}

\* Packages that would rather keep etc.
EtcPackages ==
  {Make(flash, FALSE, TRUE, recorded, moved, {}, Plain, {}) :
     flash \in {"nand", "nor", "emmc"}, recorded \in BOOLEAN, moved \in BOOLEAN}

AllPackages == PartitionPackages \cup FirmwarePackages \cup EtcPackages
=============================================================================
