SPECIFICATION Spec
CONSTANTS
  Flashes = {"nand", "emmc"}
  Systems <- LargeSystems
  MaxSkips = 1
  MaxRuns = 1
INVARIANT
  SavedListsRequired
CHECK_DEADLOCK FALSE
