\* Two executors of one run, one of which may die.
SPECIFICATION Spec
CONSTANTS
  Executors = {e1, e2}
  NewNames = {"fresh"}
  Taken = "taken"
  MaxRounds = 1
  MaxDroplets = 1
  MaxCrashes = 1
SYMMETRY Symmetry
INVARIANTS TypeOK NoticeIsTrue PublishedIsWhole DropletHasSource
CHECK_DEADLOCK FALSE
