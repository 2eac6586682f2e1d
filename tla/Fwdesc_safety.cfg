SPECIFICATION Spec
CONSTANTS
  Flashes = {"nand", "emmc"}
  Systems <- SmallSystems
  MaxSkips = 2
  MaxRuns = 2
INVARIANTS
  TypeOK
  AcceptedIsCurrent
  SuccessIsAccepted
CHECK_DEADLOCK FALSE
