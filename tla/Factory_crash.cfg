SPECIFICATION Spec
CONSTANTS
  Files <- FactoryFiles
  BOOTPARAM = "000BootParam.h"
  ENVSETTINGS = "env.txt"
  UPDATE_BOOTCODE = "update_bootcode"
  LAYOUT_BAK = "layout.txt_bak"
  PkgFiles <- MCPkgFiles
  Layouts <- MCLayouts
  NoLayout = "absent"
  Capacity = 3
  Requests <- FlushRequests
  FirstDirs <- MCFirstDirs
  Junk = Junk
  WrapGap = 12
  MaxSeq = 3
  MaxClock = 2
  Ordered = TRUE
  DdMayFail = TRUE
  LoadMayFail = FALSE
  CharIsSigned = FALSE
INVARIANTS
  TypeOK
  AckedSurvives
  OneAttemptIsAtomic
  ValidIsWhole
