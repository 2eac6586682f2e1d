SPECIFICATION Spec
CONSTANTS
  Boards <- MCBoards
  Packages <- MCPackages
  Dt32K = 2
  BackupGap = 12
  Sectors = 32
  Reserve = 1
INVARIANTS
  TypeOK
  AreasDisjoint
  FreeSpaceFree
  WorkPartWhole
  DevicesAreAreas
