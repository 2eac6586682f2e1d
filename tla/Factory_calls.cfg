SPECIFICATION Spec
CONSTANTS
  Files <- FactoryFiles
  BOOTPARAM = "000BootParam.h"
  ENVSETTINGS = "env.txt"
  UPDATE_BOOTCODE = "update_bootcode"
  LAYOUT_BAK = "layout.txt_bak"
  PkgFiles <- MCPkgFiles
  Layouts <- MCLayouts
  NoLayout = "absent"
  Capacity = 2
  Requests <- BurnRequests
  FirstDirs <- MCFirstDirs
  Junk = Junk
  WrapGap = 12
  MaxSeq = 4
  MaxClock = 1
  Ordered = TRUE
  DdMayFail = TRUE
  LoadMayFail = FALSE
  CharIsSigned = FALSE
INVARIANTS
  ReadYourWrites
  PingPongLeavesBoth
  FactoryFilesKept
