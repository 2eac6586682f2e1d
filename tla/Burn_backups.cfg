SPECIFICATION Spec
CONSTANTS
  Packages <- MCPackages
  FlashSize = 26
  Wrap = 24
  MaxRuns = 2
INVARIANT BackupSurvives
CHECK_DEADLOCK FALSE
