SPECIFICATION Spec
CONSTANTS
  Packages <- BootcodePackages
  MaxRuns = 1
PROPERTY
  OnlyBootcodeKeepsTable
CHECK_DEADLOCK FALSE
