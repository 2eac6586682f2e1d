SPECIFICATION FairSpec
CONSTANT Packages <- AllPackages
INVARIANTS
  TypeOK
  CompleteMeansBurned
  ListedIsWhole
  NoStaleFirmware
  PartListSound
PROPERTIES
  BurnedStays
  FlowEnds
  ImplementsPlan
CHECK_DEADLOCK FALSE
