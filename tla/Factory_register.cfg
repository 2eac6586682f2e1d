SPECIFICATION FairSpec
CONSTANTS
  Files <- FactoryFiles
  BOOTPARAM = "000BootParam.h"
  ENVSETTINGS = "env.txt"
  UPDATE_BOOTCODE = "update_bootcode"
  LAYOUT_BAK = "layout.txt_bak"
  PkgFiles <- MCPkgFiles
  Layouts <- MCLayouts
  NoLayout = "absent"
  Capacity = 3
  Requests <- SyncedRequests
  FirstDirs <- MCFirstDirs
  Junk = Junk
  WrapGap = 12
  MaxSeq = 3
  MaxClock = 2
  Ordered = TRUE
  DdMayFail = FALSE
  LoadMayFail = TRUE
  CharIsSigned = TRUE
PROPERTIES
  ImplementsRegister
  CallsReturn
