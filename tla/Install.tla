------------------------------ MODULE Install ------------------------------
(***************************************************************************)
(* The driver: main (install_a.cpp) and rtk_burn_rtkimg_from_usb           *)
(* (rtk_main.cpp).  It decides whether a package may be installed, calls   *)
(* the parts that write the flash in an order that depends on the flash,   *)
(* passes over the failures of some and not of others, and reports.  The   *)
(* parts are as coarse here as the driver sees them; TagFlow and Factory   *)
(* show what is inside two of them.                                        *)
(***************************************************************************)
EXTENDS Integers

CONSTANTS
  Packages,  (* The packages that may be installed, with their options.     *)
  MaxRuns    (* Bound on the starts of the program.                         *)

\* mode: which of dump_flash, only_factory, only_bootcode, fake_burn is set.
\* keys: the key files this kind of package needs are in it.  safe: safe_upgrade.
\* big: the board's flash is a NOR of 32 MB or more (norflash_size_32MB).
Package ==
  [flash : {"nand", "nor", "emmc"}, mode : {"full", "dump", "factory", "bootcode", "fake"},
   bootcode : BOOLEAN, efuse_key : BOOLEAN, secure : BOOLEAN, keys : BOOLEAN,
   install_factory : BOOLEAN, kill_000 : BOOLEAN, safe : BOOLEAN,
   customer : BOOLEAN, big : BOOLEAN]

\* A boot table, layout.txt.  says: what its boottype says of which images.  part:
\* it records the half of the flash a safe upgrade put the images in (SSUWORKPART
\* is not 0; an uninitialised one is taken for 0, which protects nothing).
Table == [says : {"none", "garbage", "unknown", "old", "new"}, part : BOOLEAN]
NoTable == [says |-> "none", part |-> FALSE]

ASSUME InstallAssumption ==
  /\ Packages # {} /\ Packages \subseteq Package
  /\ \A p \in Packages : p.big => p.flash = "nor"
  /\ MaxRuns \in Nat \ {0}

VARIABLES
  pc,       (* The driver's next step; "off" when it does not run.          *)
  pkg,      (* The package being installed, or the last one; its flash is   *)
            (* that of the board.                                           *)
  ret,      (* 0, or -1 for any of the negative values ret takes.           *)
  bootcode, (* prtkimgdesc->bootcode, which a file in the factory area sets.*)
  mtable,   (* The boot table in memory; garbage before memset.             *)
  bak,      (* layout.txt_bak: the table a safe upgrade found.              *)
  table,    (* The boot table that loading the factory area finds.          *)
  tables,   (* The boot tables a power cut may leave.                       *)
  desc,     (* The descriptor behind the boot code: old, resc (the          *)
            (* signature says RESCUE__), torn or new.                       *)
  descs,    (* Those a power cut may leave.                                 *)
  old, new, (* The images of the earlier and of this installation.          *)
  boot,     (* The boot code.                                               *)
  rom,      (* The start of a NOR, its reset ROM: whole, or signed when     *)
            (* RESCUE__ has been written over its first bytes.              *)
  fuses,    (* Whether a key and secure boot are burned into the fuses.     *)
  ui,       (* The progress screen: none, running, or the result it shows.  *)
  lapses,   (* History: the failed calls the driver has passed over, and     *)
            (* whether a write that was not synced has been lost.           *)
  passed,   (* History: the package has passed the gate, in this run or in  *)
            (* one before with no other package in between.                 *)
  runs      (* The starts of the program so far.                            *)

store == <<table, tables, desc, descs>>
board == <<old, new, boot, rom, fuses>>
mem   == <<pkg, bootcode, mtable, bak>>
past  == <<passed, runs>>
vars  == <<pc, ret, mem, store, board, ui, lapses, past>>

-----------------------------------------------------------------------------
(* The boot flash behind the page cache.  A power cut may undo a write that  *)
(* was not synced, and a second flush of the factory area that is not synced *)
(* may leave both of its slots torn (see Factory); a synced one waits for    *)
(* every dirty page of the device, the signature's among them.               *)

Flushed(t, synced) ==
  /\ table' = t
  /\ IF synced THEN tables' = {t} /\ descs' = {desc}
     ELSE /\ tables' = {t} \cup tables \cup
                        (IF tables = {table} THEN {} ELSE {NoTable})
          /\ UNCHANGED descs
  /\ UNCHANGED desc

\* The slot being written is torn; a load finds the other one.
FlushFails ==
  tables' = tables \cup {NoTable} /\ UNCHANGED <<table, desc, descs>>

Lapse(call) == lapses' = lapses \cup {call}

-----------------------------------------------------------------------------
(* The way through rtk_burn_rtkimg_from_usb.                                 *)

\* Mutant of After: the keys are burned before the images.
AfterKeysFirst(step) ==
  CASE step = "table" -> "sign"
    [] step = "sign"  -> IF pkg.flash = "nor" THEN "marker" ELSE "keys"
    [] step = "keys"  -> IF pkg.flash = "emmc" THEN "repart" ELSE "boot"
    [] step \in {"marker", "repart"} -> "boot"
    [] step = "boot"  -> "flow"
    [] step = "flow"  -> IF pkg.flash = "nor" THEN "post" ELSE "desc"
    [] step = "desc"  -> "post"
    [] step = "post"  -> "factory"
    [] OTHER          -> step

\* What follows a step of a whole installation.
After(step) ==
  CASE step = "table" -> "sign"
    [] step = "sign" /\ pkg.flash = "nand" -> "boot"
    [] step = "sign" /\ pkg.flash = "nor"  -> "marker"
    [] step = "sign" /\ pkg.flash = "emmc" -> "repart"
    [] step \in {"marker", "repart"} -> "boot"
    [] step = "boot"  -> "flow"
    [] step = "flow"  -> IF pkg.flash = "nor" THEN "post" ELSE "keys"
    [] step = "keys"  -> "desc"
    [] step = "desc"  -> "post"
    [] step = "post"  -> "factory"
    [] OTHER          -> step

\* An error ends the burn of an eMMC at before_burn_end, of others at burn_end_usb.
OnError == IF pkg.flash = "emmc" THEN "wtable" ELSE "report"

\* Mutant of Refused: an unsigned package is let on a board that demands signatures.
RefusedNotUnsigned(p) ==
  \/ fuses.secure  /\ p.efuse_key
  \/ ~fuses.secure /\ p.secure /\ (~p.efuse_key \/ fuses.key)
  \/ p.efuse_key /\ ~p.keys

\* The check of the package against the fuses and of the keys it carries.
Refused(p) ==
  \/ fuses.secure  /\ (p.efuse_key \/ ~p.secure)
  \/ ~fuses.secure /\ p.secure /\ (~p.efuse_key \/ fuses.key)
  \/ p.efuse_key /\ ~p.keys

SameBoard(p, q) == p.flash = q.flash /\ p.big = q.big

\* One package for each kind of board: the first installation takes nothing else of it.
Boards == {CHOOSE p \in Packages : SameBoard(p, q) : q \in Packages}

Init ==
  /\ pc = "off" /\ ret = 0 /\ pkg \in Boards /\ bootcode = FALSE /\ mtable = NoTable /\ bak = NoTable
  /\ table \in [says : {"old"}, part : {pkg.flash = "nor", FALSE}] /\ tables = {table}
  /\ desc = "old" /\ descs = {desc}
  /\ old = "whole" /\ new = "absent" /\ boot = "old" /\ rom = "whole"
  /\ fuses \in {[key |-> b, secure |-> b] : b \in BOOLEAN}
  /\ ui = "none" /\ lapses = {} /\ passed = FALSE /\ runs = 0

Earlier(x)      == IF x = "new" THEN "old" ELSE x
EarlierTable(t) == [t EXCEPT !.says = Earlier(@)]

\* What the last run wrote is from now on of the earlier installation.
Start(p) ==
  /\ pc = "off" /\ runs < MaxRuns /\ SameBoard(p, pkg)
  /\ pc' = "setup" /\ ret' = 0 /\ runs' = runs + 1
  /\ pkg' = p /\ bootcode' = p.bootcode
  /\ mtable' = [says |-> "garbage", part |-> FALSE] /\ bak' = NoTable
  /\ table' = EarlierTable(table) /\ tables' = {EarlierTable(t) : t \in tables}
  /\ desc' = Earlier(desc) /\ descs' = {Earlier(d) : d \in descs}
  /\ old' = (IF new = "whole" THEN "whole" ELSE old) /\ new' = "absent"
  /\ boot' = Earlier(boot) /\ ui' = "none"
  /\ lapses' = lapses \ {"desc", "fuse", "lock", "pingpong"}
  /\ passed' = (passed /\ p = pkg)
  /\ UNCHANGED <<rom, fuses>>

\* parse_tar, the configuration, the progress screen, the flash's parameters and
\* the fuse driver; any of them may fail, and the screen may not start.
Setup ==
  /\ pc = "setup"
  /\ ui' \in (IF pkg.customer THEN {"none", "running"} ELSE {"none"})
  /\ \/ pc' = "gate" /\ UNCHANGED ret
     \/ pc' = "report" /\ ret' = -1
  /\ UNCHANGED <<mem, store, board, lapses, past>>

\* Mutant of Gate: a refused package returns at once, as fake_burn does.
GateReturns ==
  /\ pc = "gate"
  /\ IF Refused(pkg)
       THEN pc' = "exit" /\ ret' = -1 /\ UNCHANGED passed
       ELSE pc' = "layout" /\ passed' = TRUE /\ UNCHANGED ret
  /\ UNCHANGED <<mem, store, board, ui, lapses, runs>>

\* dump_flash and the only_ modes branch off here.
Gate ==
  /\ pc = "gate"
  /\ IF Refused(pkg)
       THEN pc' = "report" /\ ret' = -1 /\ UNCHANGED passed
       ELSE /\ passed' = TRUE
            /\ \/ pkg.mode \in {"full", "fake"} /\ pc' = "layout" /\ UNCHANGED ret
               \/ pkg.mode = "factory" /\ pc' = "factory" /\ UNCHANGED ret
               \/ pkg.mode = "bootcode" /\ pkg.flash # "nor" /\ pc' = "boot" /\ UNCHANGED ret
               \/ pkg.mode = "bootcode" /\ pkg.flash = "nor" /\ pc' = "wtable" /\ ret' = -1
               \/ /\ pkg.mode = "dump" /\ pc' = "report"
                  /\ ret' \in (IF pkg.flash = "nor" THEN {0, -1} ELSE {-1})
  /\ UNCHANGED <<mem, store, board, ui, lapses, runs>>

\* fill_rtkimgdesc_layout, unlocking and erasing the free space.  A safe upgrade
\* keeps the table it finds, if it can load it, and is refused on NAND; fake_burn
\* returns past the report.
Layout ==
  /\ pc = "layout"
  /\ bak' \in (IF pkg.safe THEN {table, NoTable} ELSE {NoTable})
  /\ \/ pc' = "report" /\ ret' = -1
     \/ /\ ~(pkg.flash = "nand" /\ pkg.safe)
        /\ IF pkg.mode = "fake" THEN pc' = "exit" /\ ret' = -1
                                ELSE pc' = "table" /\ UNCHANGED ret
  /\ UNCHANGED <<pkg, bootcode, mtable, store, board, ui, lapses, past>>

\* Mutant of WriteUnknown: the table read back keeps its boottype.
WriteUnknownAsRead ==
  /\ pc = "table" /\ pc' = After(pc) /\ mtable' = [table EXCEPT !.says = "unknown"]
  /\ \/ Flushed(IF table.says = "old" THEN table ELSE mtable', FALSE) /\ UNCHANGED lapses
     \/ FlushFails /\ Lapse("table")
  /\ UNCHANGED <<ret, pkg, bootcode, bak, board, ui, past>>

\* memset, read_boottable, and the flush of a table of unknown boottype, whose
\* result is ignored.
WriteUnknown ==
  /\ pc = "table" /\ pc' = After(pc) /\ mtable' = [table EXCEPT !.says = "unknown"]
  /\ \/ Flushed(mtable', FALSE) /\ UNCHANGED lapses
     \/ FlushFails /\ Lapse("table")
  /\ UNCHANGED <<ret, pkg, bootcode, bak, board, ui, past>>

\* Mutant of Sign: the eMMC is left out of modify_signature's condition.
SignNotEmmc ==
  /\ pc = "sign" /\ pc' = After(pc)
  /\ IF pkg.flash = "emmc" THEN UNCHANGED <<desc, descs>>
                           ELSE desc' = "resc" /\ descs' = descs \cup {"resc"}
  /\ UNCHANGED <<ret, mem, table, tables, board, ui, lapses, past>>

\* modify_signature: a dd that is not synced and whose result is ignored.  On a NOR
\* it writes to offset 0, where the reset ROM is.
Sign ==
  /\ pc = "sign" /\ pc' = After(pc)
  /\ \/ /\ pkg.flash # "nor" /\ desc' = "resc" /\ descs' = descs \cup {"resc"}
        /\ UNCHANGED <<rom, lapses>>
     \/ pkg.flash = "nor" /\ rom' = "signed" /\ UNCHANGED <<desc, descs, lapses>>
     \/ UNCHANGED <<desc, descs, rom>> /\ Lapse("sign")
  /\ UNCHANGED <<ret, mem, table, tables, old, new, boot, fuses, ui, past>>

\* rtk_check_update_bootcode: a marker in the factory area asks for the boot
\* code; it is removed, with a synced flush, before the boot code is burned.
CheckMarker ==
  /\ pc = "marker" /\ pc' = After(pc)
  /\ \/ UNCHANGED <<bootcode, store>>
     \/ ~bootcode /\ bootcode' = TRUE /\ Flushed(table, TRUE)
     \/ ~bootcode /\ FlushFails /\ UNCHANGED bootcode
  /\ UNCHANGED <<ret, pkg, mtable, bak, board, ui, lapses, past>>

\* write_boottable_emmc and rtk_mount_format_emmc.
Repartition ==
  /\ pc = "repart" /\ old' = "damaged"
  /\ \/ pc' = After(pc) /\ UNCHANGED ret
     \/ pc' = OnError /\ ret' = -1
  /\ UNCHANGED <<mem, store, new, boot, rom, fuses, ui, lapses, past>>

WithBootcode == pkg.mode = "bootcode" \/ bootcode

SkipBootcode ==
  /\ pc = "boot" /\ ~WithBootcode /\ pc' = After(pc)
  /\ UNCHANGED <<ret, mem, store, board, ui, lapses, past>>

\* A NOR of 32 MB is erased from the hardware settings on: "skip resetrom & extern_param!".
BurnsRom == pkg.flash = "nor" /\ ~pkg.big

BeginBootcode ==
  /\ pc = "boot" /\ WithBootcode /\ boot # "torn"
  /\ boot' = "torn"
  /\ UNCHANGED <<pc, ret, mem, store, old, new, rom, fuses, ui, lapses, past>>

\* rtk_burn_bootcode_nand, _mac_spi or _emmc has returned 0.  That of the NOR has
\* entered the rescue in the boot table, with a synced flush whose result it ignores.
BootcodeBurned ==
  /\ pc = "boot" /\ WithBootcode /\ boot = "torn"
  /\ boot' = "new" /\ rom' = (IF BurnsRom THEN "whole" ELSE rom)
  /\ pc' = IF pkg.mode = "bootcode" THEN "factory" ELSE After(pc)
  /\ \/ pkg.flash # "nor" /\ UNCHANGED store
     \/ /\ pkg.flash = "nor"
        /\ Flushed(IF table.says = "none" THEN [table EXCEPT !.says = "unknown"] ELSE table, TRUE)
     \/ pkg.flash = "nor" /\ FlushFails
  /\ UNCHANGED <<ret, mem, old, new, fuses, ui, lapses, past>>

\* It has failed, before or after writing.
BootcodeFails ==
  /\ pc = "boot" /\ WithBootcode /\ ret' = -1
  /\ pc' = IF pkg.mode = "bootcode" THEN "wtable" ELSE OnError
  /\ UNCHANGED <<mem, store, board, ui, lapses, past>>

\* The first image is written.  Only a safe upgrade of a NOR that finds a recorded
\* part writes another half of the flash than the earlier images are in.
BeginFlow ==
  /\ pc = "flow" /\ new = "absent"
  /\ new' = "part"
  /\ old' = IF pkg.flash = "nor" /\ bak.part THEN old ELSE "damaged"
  /\ UNCHANGED <<pc, ret, mem, store, boot, rom, fuses, ui, lapses, past>>

\* The last image is burned and tagflow3 has set the boottype.
FlowBurned ==
  /\ pc = "flow" /\ new = "part"
  /\ new' = "whole" /\ pc' = After(pc)
  /\ mtable' = [says |-> "new", part |-> pkg.flash = "nor" /\ pkg.safe]
  /\ UNCHANGED <<ret, pkg, bootcode, bak, store, old, boot, rom, fuses, ui, lapses, past>>

\* Mutant of FlowFails: an image that could not be burned is tried again.
FlowRetries ==
  /\ pc = "flow" /\ new' = "absent"
  /\ UNCHANGED <<pc, ret, mem, store, old, boot, rom, fuses, ui, lapses, past>>

FlowFails ==
  /\ pc = "flow" /\ pc' = OnError /\ ret' = -1
  /\ UNCHANGED <<mem, store, board, ui, lapses, past>>

\* key_installed was read before the gate, but only rtk_burn_cipher_key sets it.
KeysWanted == pkg.efuse_key /\ ~fuses.key

SkipKeys ==
  /\ pc = "keys" /\ ~KeysWanted /\ pc' = After(pc)
  /\ UNCHANGED <<ret, mem, store, board, ui, lapses, past>>

\* The key files cannot be extracted or read: nothing is burned.
KeysFail ==
  /\ pc = "keys" /\ KeysWanted /\ pc' = OnError /\ ret' = -1
  /\ UNCHANGED <<mem, store, board, ui, lapses, past>>

\* The keys first, then the bits of secure boot; both results are ignored.
BurnKeys ==
  /\ pc = "keys" /\ KeysWanted
  /\ \/ fuses' = [fuses EXCEPT !.key = TRUE] /\ UNCHANGED lapses
     \/ UNCHANGED fuses /\ Lapse("fuse")
  /\ pc' = IF pkg.secure THEN "bits" ELSE After(pc)
  /\ UNCHANGED <<ret, mem, store, old, new, boot, rom, ui, past>>

BurnSecureBits ==
  /\ pc = "bits" /\ pc' = After("keys")
  /\ \/ fuses' = [fuses EXCEPT !.secure = TRUE] /\ UNCHANGED lapses
     \/ UNCHANGED fuses /\ Lapse("fuse")
  /\ UNCHANGED <<ret, mem, store, old, new, boot, rom, ui, past>>

\* rtk_burn_fwdesc writes with O_SYNC, or erases and writes the NAND block.
BeginDesc ==
  /\ pc = "desc" /\ desc # "torn"
  /\ desc' = "torn" /\ descs' = {"torn"}
  /\ UNCHANGED <<pc, ret, mem, table, tables, board, ui, lapses, past>>

\* The results of its writes are ignored.
DescBurned ==
  /\ pc = "desc" /\ desc = "torn" /\ pc' = After(pc)
  /\ \/ desc' = "new" /\ descs' = {"new"} /\ UNCHANGED lapses
     \/ UNCHANGED <<desc, descs>> /\ Lapse("desc")
  /\ UNCHANGED <<ret, mem, table, tables, board, ui, past>>

\* Mutant of DescFails: the result is looked at by a log line only.
DescFailsLogged ==
  /\ pc = "desc" /\ pc' = After(pc)
  /\ UNCHANGED <<ret, mem, store, board, ui, lapses, past>>

\* A firmware the descriptor must list is missing, or a command fails; on NAND the
\* last one erases an older table, when the descriptor is whole already.
DescFails ==
  /\ pc = "desc" /\ pc' = OnError /\ ret' = -1
  /\ \/ UNCHANGED <<desc, descs>>
     \/ pkg.flash = "nand" /\ desc = "torn" /\ desc' = "new" /\ descs' = {"new"}
  /\ UNCHANGED <<mem, table, tables, board, ui, lapses, past>>

\* postprocess.sh may be missing; when it fails ret stays negative.
PostProcess ==
  /\ pc = "post" /\ pc' = After(pc) /\ ret' \in {0, -1}
  /\ UNCHANGED <<mem, store, board, ui, lapses, past>>

OnlyMode == pkg.mode \in {"factory", "bootcode"}
FactoryWanted == OnlyMode \/ pkg.install_factory \/ pkg.kill_000

SkipFactory ==
  /\ pc = "factory" /\ ~FactoryWanted /\ pc' = "close"
  /\ UNCHANGED <<ret, mem, store, board, ui, lapses, past>>

\* rtk_install_factory: synced but for a whole installation on eMMC.  A safe
\* upgrade copies the table that it found back into the factory area.
InstallFactory ==
  /\ pc = "factory" /\ FactoryWanted
  /\ \/ /\ Flushed(IF bak.says = "none" THEN table ELSE bak, OnlyMode \/ pkg.flash # "emmc")
        /\ IF bak.says = "none" \/ bak.part THEN UNCHANGED lapses ELSE Lapse("restored")
        /\ ret' = 0
        /\ pc' = IF OnlyMode THEN "report" ELSE "close"
     \/ /\ \/ UNCHANGED store
           \/ FlushFails
        /\ UNCHANGED lapses
        /\ ret' = -1
        /\ pc' = IF OnlyMode THEN "report" ELSE "wtable"
  /\ UNCHANGED <<mem, board, ui, past>>

\* Mutant of Close: the boottype is left as the burn order has set it, and cleared.
CloseUnset ==
  /\ pc = "close" /\ pc' = "wtable" /\ mtable' = [mtable EXCEPT !.says = "unset"]
  /\ UNCHANGED <<ret, pkg, bootcode, bak, store, board, ui, lapses, past>>

\* boottype and bootpart of the table in memory.
Close ==
  /\ pc = "close" /\ pc' = "wtable" /\ mtable' = [mtable EXCEPT !.says = "new"]
  /\ UNCHANGED <<ret, pkg, bootcode, bak, store, board, ui, lapses, past>>

\* before_burn_end: the table in memory as it is, not synced, result ignored.
WriteTable ==
  /\ pc = "wtable" /\ pc' = "lock"
  /\ \/ Flushed(mtable, FALSE) /\ UNCHANGED lapses
     \/ FlushFails /\ Lapse("table")
  /\ UNCHANGED <<ret, mem, board, ui, past>>

\* A safe upgrade removes its lock file.
RemoveLock ==
  /\ pc = "lock" /\ pc' = "pingpong"
  /\ \/ ~pkg.safe /\ UNCHANGED <<store, lapses>>
     \/ pkg.safe /\ Flushed(table, TRUE) /\ UNCHANGED lapses
     \/ pkg.safe /\ FlushFails /\ Lapse("lock")
  /\ UNCHANGED <<ret, mem, board, ui, past>>

\* Mutant of PingPong: its flushes are not synced either.
PingPongUnsynced ==
  /\ pc = "pingpong" /\ pc' = "report"
  /\ \/ ~pkg.install_factory /\ UNCHANGED store
     \/ pkg.install_factory /\ Flushed(table, FALSE)
  /\ UNCHANGED <<ret, mem, board, ui, lapses, past>>

\* rtk_flush_pingpong_factory_mac, when the package installs the factory files.
PingPong ==
  /\ pc = "pingpong" /\ pc' = "report"
  /\ \/ ~pkg.install_factory /\ UNCHANGED <<store, lapses>>
     \/ pkg.install_factory /\ Flushed(table, TRUE) /\ UNCHANGED lapses
     \/ pkg.install_factory /\ FlushFails /\ Lapse("pingpong")
  /\ UNCHANGED <<ret, mem, board, ui, past>>

\* burn_end_usb.
Report ==
  /\ pc = "report" /\ pc' = "exit"
  /\ ui' = IF ui = "running" THEN IF ret = 0 THEN "success" ELSE "fail" ELSE ui
  /\ UNCHANGED <<ret, mem, store, board, lapses, past>>

\* The pages that were not synced are lost, or not.
LosePower ==
  /\ table' \in tables /\ tables' = {table'}
  /\ desc' \in descs /\ descs' = {desc'}
  /\ lapses' = IF table' = table /\ desc' = desc THEN lapses ELSE lapses \cup {"lost"}

\* main: a success reboots without a sync, unless stop_reboot is set; a failure
\* leaves the board running.
Exit ==
  /\ pc = "exit" /\ pc' = "off"
  /\ \/ ret = 0 /\ LosePower
     \/ UNCHANGED <<store, lapses>>
  /\ UNCHANGED <<ret, mem, board, ui, past>>

Step ==
  \/ Setup \/ Gate \/ Layout \/ WriteUnknown \/ Sign \/ CheckMarker \/ Repartition
  \/ SkipBootcode \/ BeginBootcode \/ BootcodeBurned \/ BootcodeFails
  \/ BeginFlow \/ FlowBurned \/ FlowFails
  \/ SkipKeys \/ KeysFail \/ BurnKeys \/ BurnSecureBits
  \/ BeginDesc \/ DescBurned \/ DescFails
  \/ PostProcess \/ SkipFactory \/ InstallFactory \/ Close
  \/ WriteTable \/ RemoveLock \/ PingPong \/ Report \/ Exit

\* At any moment; BeginBootcode and BeginFlow start over in the next run.
PowerCut ==
  /\ pc' = "off" /\ LosePower
  /\ UNCHANGED <<ret, mem, board, ui, past>>

Next == (\E p \in Packages : Start(p)) \/ Step \/ PowerCut

Spec     == Init /\ [][Next]_vars
FairSpec == Spec /\ WF_vars(Step)

-----------------------------------------------------------------------------
Descs  == {"old", "resc", "torn", "new"}
Pcs    == {"off", "setup", "gate", "layout", "table", "sign", "marker", "repart", "boot",
           "flow", "keys", "bits", "desc", "post", "factory", "close", "wtable", "lock",
           "pingpong", "report", "exit"}

TypeOK ==
  /\ pc \in Pcs /\ pkg \in Packages /\ ret \in {0, -1} /\ bootcode \in BOOLEAN
  /\ mtable \in Table /\ bak \in Table
  /\ table \in Table /\ tables \subseteq Table /\ table \in tables
  /\ desc \in Descs /\ descs \subseteq Descs /\ desc \in descs
  /\ old \in {"whole", "damaged"} /\ new \in {"absent", "part", "whole"}
  /\ boot \in {"old", "torn", "new"} /\ rom \in {"whole", "signed"}
  /\ fuses \in [key : BOOLEAN, secure : BOOLEAN]
  /\ ui \in {"none", "running", "success", "fail"}
  /\ lapses \subseteq {"table", "sign", "desc", "fuse", "lock", "pingpong", "restored", "lost"}
  /\ passed \in BOOLEAN /\ runs \in 0..MaxRuns

Succeeded == pc \in {"report", "exit"} /\ ret = 0

\* main reports success, and reboots into the new system, only when every part
\* of it was burned: a dozen steps return their results through one variable that
\* later steps overwrite.  A boot code that is burned also repairs the reset ROM that
\* modify_signature has overwritten, but not on a NOR of 32 MB, where success is
\* reported with the reset ROM damaged.
SuccessIsComplete ==
  Succeeded /\ pkg.mode = "full" =>
    /\ new = "whole"
    /\ pkg.flash # "nor" => desc = "new" \/ "desc" \in lapses
    /\ bootcode => boot = "new" /\ (rom = "whole" \/ pkg.big)
    /\ table.says = "new" \/ "table" \in lapses

\* The boot code follows the descriptor when its signature is valid: the images
\* it lists are whole, in every run and after every failed or interrupted one,
\* unless the signature could not be overwritten or that write was lost.
DescTellsImages ==
  pkg.flash # "nor" =>
    /\ "new" \in descs => new = "whole"
    /\ desc = "old" /\ lapses \cap {"sign", "lost"} = {} => old = "whole"

\* The same of a boot table that says COMPLETE, unless the first safe upgrade of
\* a board has put the earlier table back.  That of a table that names the new
\* images holds whatever is lost.
TableTellsImages ==
  /\ \A t \in tables : t.says = "new" => new = "whole"
  /\ table.says = "old" /\ lapses \cap {"table", "restored", "lost"} = {} => old = "whole"

\* A package that has passed the gate is refused only when all of its images
\* are in the flash: fuses are burned after everything that may have to be
\* repeated, except the descriptor.
RefusedOnlyWhenWhole ==
  pc = "gate" /\ passed /\ Refused(pkg) => old = "whole"

\* After a success the fuses never demand signatures that the images lack, whichever
\* calls have failed: such a board would not boot.  The reverse, signed images on
\* fuses that do not ask for signatures, needs a failed burn of the fuses.
FusesMatchImages ==
  Succeeded /\ pkg.mode = "full" /\ pkg.flash # "nor" =>
    /\ fuses.secure => pkg.secure
    /\ pkg.secure => fuses.secure \/ "fuse" \in lapses

\* A progress screen that was started is told the result that main sees, except
\* by fake_burn.
UiToldTheResult ==
  pc = "exit" /\ ui # "none" /\ pkg.mode # "fake" =>
    ui = IF ret = 0 THEN "success" ELSE "fail"

\* When the package installs factory files and no call failed unnoticed, the
\* reboot that main makes without a sync finds the new table and descriptor.
SuccessSurvivesReboot ==
  Succeeded /\ pkg.mode = "full" /\ pkg.install_factory /\ lapses = {} =>
    (\A t \in tables : t.says = "new") /\ (pkg.flash # "nor" => descs = {"new"})

\* Every start of the program ends, whichever of its calls fail.
InstallEnds == pc = "setup" ~> pc = "off"

\* "only install bootcode" (rtk_main.cpp): the boot table is not touched.
OnlyBootcodeKeepsTable ==
  [][pkg.mode = "bootcode" /\ pc # "off" => table' = table]_vars
=============================================================================
