SPECIFICATION FairSpec
CONSTANTS
  Packages <- AllPackages
  MaxRuns = 2
INVARIANTS
  TypeOK
  SuccessIsComplete
  DescTellsImages
  TableTellsImages
  RefusedOnlyWhenWhole
  FusesMatchImages
  UiToldTheResult
  SuccessSurvivesReboot
PROPERTY
  InstallEnds
CHECK_DEADLOCK FALSE
