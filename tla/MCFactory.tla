----------------------------- MODULE MCFactory -----------------------------
(* Instances of Factory for TLC.                                             *)
EXTENDS FactoryImplements

FactoryFiles == {"000BootParam.h", "env.txt", "update_bootcode", "layout.txt_bak"}
MCPkgFiles   == {"000BootParam.h"}
MCLayouts    == {"unknown", "complete"}

OldBoard == [files |-> {"update_bootcode"}, layout |-> "unknown"]
MCFirstDirs == {OldBoard}

\* Flushes only: synced, not synced, and three in one call.
FlushRequests ==
  {[op |-> "write_boottable", sync |-> FALSE, layout |-> "unknown"],
   [op |-> "remove_file", sync |-> TRUE, file |-> "update_bootcode"],
   [op |-> "flush_pingpong", sync |-> TRUE]}

Install(sync, kill, boot) ==
  [op |-> "install_factory", sync |-> sync, only_bootcode |-> FALSE, kill_000 |-> kill,
   install |-> TRUE, bootcode |-> boot, safe_upgrade |-> FALSE]

\* The calls of rtk_burn_rtkimg_from_usb.
BurnRequests ==
  {[op |-> "write_boottable", sync |-> FALSE, layout |-> "unknown"],
   Install(FALSE, TRUE, FALSE),
   [op |-> "check_update_bootcode", sync |-> TRUE],
   [op |-> "flush_pingpong", sync |-> TRUE]}

\* The calls that ask for a synced flush.
SyncedRequests ==
  {[op |-> "write_boottable", sync |-> TRUE, layout |-> "complete"],
   Install(TRUE, FALSE, TRUE),
   [op |-> "install_factory", sync |-> TRUE, only_bootcode |-> TRUE, kill_000 |-> TRUE,
    install |-> TRUE, bootcode |-> TRUE, safe_upgrade |-> TRUE],
   [op |-> "create_file", sync |-> TRUE, file |-> "env.txt"],
   [op |-> "remove_file", sync |-> TRUE, file |-> "update_bootcode"],
   [op |-> "check_update_bootcode", sync |-> TRUE],
   [op |-> "flush_pingpong", sync |-> TRUE]}
=============================================================================
