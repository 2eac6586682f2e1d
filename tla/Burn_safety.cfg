SPECIFICATION Spec
CONSTANTS
  Packages <- MCPackages
  FlashSize = 26
  Wrap = 24
  MaxRuns = 2
INVARIANTS TypeOK BurnedIsWhole BootCopySurvives ResizeSurvives
PROPERTY OnlyItsArea
CHECK_DEADLOCK FALSE
