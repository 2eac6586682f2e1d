----------------------------- MODULE MCInstall -----------------------------
(* Instances of Install for TLC.                                             *)
EXTENDS Install

Make(flash, mode, bc, key, sec, keys, fac, kill, safe) ==
  [flash |-> flash, mode |-> mode, bootcode |-> bc, efuse_key |-> key, secure |-> sec,
   keys |-> keys, install_factory |-> fac, kill_000 |-> kill, safe |-> safe, customer |-> fac,
   big |-> FALSE]

\* Whole installations: with and without keys, boot code and factory files, one
\* that lacks its keys, one that kills 000BootParam, and safe upgrades.
WholePackages(flash) ==
  {Make(flash, "full", FALSE, FALSE, FALSE, TRUE, TRUE, FALSE, FALSE),
   Make(flash, "full", TRUE, FALSE, FALSE, TRUE, FALSE, FALSE, FALSE),
   Make(flash, "full", TRUE, TRUE, TRUE, TRUE, TRUE, FALSE, FALSE),
   Make(flash, "full", FALSE, FALSE, TRUE, TRUE, TRUE, FALSE, FALSE),
   Make(flash, "full", FALSE, TRUE, TRUE, FALSE, FALSE, TRUE, FALSE)}
  \cup {Make(flash, "full", FALSE, FALSE, FALSE, TRUE, TRUE, FALSE, TRUE)}

OtherPackages(flash) ==
  {Make(flash, mode, FALSE, FALSE, FALSE, TRUE, TRUE, FALSE, FALSE) :
     mode \in {"dump", "factory", "bootcode", "fake"}}

\* A NOR of 32 MB, with and without the boot code.
BigPackages ==
  {[Make("nor", "full", bc, FALSE, FALSE, TRUE, fac, FALSE, FALSE) EXCEPT !.big = TRUE] :
     bc \in BOOLEAN, fac \in BOOLEAN}

AllPackages ==
  BigPackages \cup UNION {WholePackages(f) \cup OtherPackages(f) : f \in {"nand", "nor", "emmc"}}

\* Packages that install the boot code only, on the flashes where that is possible.
BootcodePackages ==
  {Make(flash, "bootcode", FALSE, FALSE, FALSE, TRUE, fac, FALSE, FALSE) :
     flash \in {"nand", "emmc"}, fac \in BOOLEAN}
=============================================================================
