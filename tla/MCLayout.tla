------------------------------ MODULE MCLayout ------------------------------
(* Boards of 40 and 64 units, two to an erase block (or sector).              *)
EXTENDS Layout

board_(type, size, boot, factory, at_, part) ==
  [flash_type |-> type, flash_size |-> size, mtd_erasesize |-> 2, bootcode_start |-> 0,
   bootcode_size |-> boot, factory_start |-> at_, factory_size |-> factory, bootpart |-> part]

MCBoards ==
  {board_("nand", 40, 4, 3, 4, 0), board_("nor", 40, 3, 2, 36, 0),
   [board_("emmc", 64, 4, 2, 4, 0) EXCEPT !.bootcode_start = 2],
   [board_("emmc", 64, 4, 2, 4, 1) EXCEPT !.bootcode_start = 2]}

files(n) == [f \in Firmware |-> CASE f = "KERNEL" -> n [] f = "AUDIO" -> 1 [] f = "RESCUE_DT" -> 1
                                  [] f = "AUDIO_CLOGO1" -> 1 [] f = "VIDEO_BOOTFILE" -> 1
                                  [] OTHER -> 0]

p_(fw, efs, file, img, min) == [fw |-> fw, efs |-> efs, file |-> file, img |-> img, min |-> min]

pack(n, parts) ==
  [fw |-> files(n), parts |-> parts, avfile_count |-> 2, avfile_size |-> 0, safe_upgrade |-> FALSE,
   partition_inverse |-> FALSE, backup |-> FALSE, erase_free_space |-> TRUE]

Ext4(names, size) == [n \in DOMAIN names |-> p_(names[n], "ext4", "bz2", 1, size)]

NandParts ==
  {<<p_("ROOTFS", "squash", "img", 3, 0), p_("ETC", "yaffs2", "empty", 0, 2)>>,
   <<p_("ROOTFS", "yaffs2", "img", 3, 4), p_("SYSTEM", "ubifs", "img", 3, 5),
     p_("ETC", "jffs2", "img", 3, 3)>>}
NorParts ==
  {<<p_("ROOTFS", "squash", "img", 3, 0), p_("ETC", "jffs2", "empty", 0, 4)>>,
   <<p_("ROOTFS", "squash", "img", 3, 0), p_("ETC", "jffs2", "img", 1, 4),
     p_("P1", "raw", "img", 3, 0), p_("P5", "none", "empty", 0, 2)>>}
EmmcParts ==
  {Ext4(<<"SYSTEM", "DATA", "CACHE", "ETC">>, 7),
   Ext4(<<"SYSTEM", "DATA", "CACHE", "RES", "P1", "ETC">>, 6),
   Ext4(<<"SYSTEM", "DATA", "CACHE", "RES", "P1", "P2", "P3", "P4", "ETC">>, 4)}

Options(p, counts, sizes, ssu, backup) ==
  {[p EXCEPT !.avfile_count = c, !.avfile_size = s, !.safe_upgrade = u, !.backup = b] :
     c \in counts, s \in sizes, u \in ssu, b \in backup}

NandPackages ==
  UNION {Options(pack(n, parts), 0..4, {0, 3}, BOOLEAN, {FALSE}) : n \in {2, 7}, parts \in NandParts}
NorPackages ==
  UNION {Options([pack(n, parts) EXCEPT !.partition_inverse = inv], {0, 3}, {0}, BOOLEAN, {FALSE}) :
           n \in {2, 5}, parts \in NorParts, inv \in BOOLEAN}
EmmcPackages ==
  {pack(2, parts) : parts \in EmmcParts}
  \cup Options(pack(18, Ext4(<<"SYSTEM", "DATA", "ETC">>, 6)), {2}, {0}, {FALSE}, {TRUE})
  \cup Options(pack(26, Ext4(<<"SYSTEM", "DATA", "ETC">>, 6)), {2}, {0}, {TRUE}, {FALSE})

MCPackages == NandPackages \cup NorPackages \cup EmmcPackages
=============================================================================
