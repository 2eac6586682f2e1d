------------------------------- MODULE MCBurn -------------------------------
(* Packages for a flash of 26 blocks, of which 24 are in the first 4 GB.     *)
EXTENDS Burn

img(kind, file, size, at, alloc) ==
  [kind |-> kind, file |-> file, mode |-> "update", size |-> size, tail |-> FALSE, at |-> at, alloc |-> alloc]

boot(hw, n, rescue, room, reserved) ==
  [hw |-> hw, boot |-> n, rescue |-> rescue, room |-> room, reserved |-> reserved]

pack(f, v, b, images) ==
  [flash |-> f, verify |-> v, protect |-> TRUE, keep_etc |-> FALSE, big |-> FALSE,
   with_boot |-> TRUE, boot |-> b, images |-> images]

\* A board of its own kind each; packages of one board differ in the size of the boot
\* code, in the file systems and in what is verified.
NandPackages ==
  {pack("nand", TRUE, boot(1, 2, 0, 17, 18),
        <<img("raw", "img", 2, 18, 2), img("yaffs", "img", 3, 20, 2), img("raw", "img", 1, 22, 1)>>),
   pack("nand", FALSE, boot(2, 2, 0, 17, 18),
        <<img("raw", "img", 2, 18, 3), img("yaffs", "bz2", 1, 21, 2), img("ubifs", "none", 0, 23, 1)>>),
   [pack("nand", FALSE, boot(1, 3, 0, 17, 18),
         <<img("ubifs", "img", 1, 18, 2), img("yaffs", "none", 0, 20, 1),
           [img("raw", "img", 0, 21, 1) EXCEPT !.mode = "skip"],
           [img("raw", "img", 1, 22, 2) EXCEPT !.mode = "backup"]>>)
    EXCEPT !.with_boot = FALSE],
   [pack("nand", TRUE, boot(1, 3, 0, 17, 18),
         <<img("raw", "img", 2, 24, 2), [img("raw", "img", 1, 18, 2) EXCEPT !.mode = "backup"],
           img("raw", "img", 0, 20, 1)>>)
    EXCEPT !.with_boot = FALSE]}

NorPackages ==
  {pack("nor", TRUE, boot(1, 2, 1, 5, 5),
        <<img("squash", "img", 2, 6, 2), img("jffs", "bz2", 1, 8, 2), [img("raw", "img", 1, 10, 2) EXCEPT !.mode = "backup"]>>),
   [pack("nor", FALSE, boot(1, 1, 0, 5, 5), <<img("jffs", "img", 1, 5, 2), img("jffs", "none", 0, 7, 1)>>)
    EXCEPT !.big = TRUE],
   [pack("nor", FALSE, boot(1, 2, 0, 5, 5), <<img("jffs", "bz2", 1, 8, 2), img("raw", "img", 1, 10, 1)>>)
    EXCEPT !.keep_etc = TRUE, !.protect = FALSE],
   [pack("nor", TRUE, boot(1, 1, 0, 5, 5), <<img("jffs", "bz2", 3, 8, 2), img("raw", "img", 1, 10, 1)>>)
    EXCEPT !.with_boot = FALSE]}

EmmcPackages ==
  {pack("emmc", FALSE, boot(1, 1, 0, 4, 5),
        <<img("raw", "img", 2, 5, 2), img("ext4", "tar", 2, 7, 3), img("ext4", "tar", 3, 10, 1),
          img("ext4", "other", 1, 11, 2)>>),
   pack("emmc", TRUE, boot(2, 1, 0, 4, 5),
        <<[img("ext4", "bin", 2, 5, 2) EXCEPT !.tail = TRUE], img("ext4", "bz2", 1, 8, 2), img("squash", "img", 2, 10, 2)>>),
   [pack("emmc", TRUE, boot(1, 2, 0, 4, 5),
         <<img("ext4", "bin", 2, 7, 2), img("squash", "img", 1, 22, 2), img("raw", "img", 1, 24, 1)>>)
    EXCEPT !.with_boot = FALSE]}

\* A boot code that has outgrown bootcode_size.
EmmcLarge == {pack("emmc", FALSE, boot(2, 3, 0, 4, 5), <<img("raw", "img", 2, 5, 3)>>)}

MCPackages == NandPackages \cup EmmcLarge \cup NorPackages \cup EmmcPackages
=============================================================================
