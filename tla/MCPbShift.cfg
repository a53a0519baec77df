SPECIFICATION ShiftSpec
CONSTANTS
  HALF = 2
  Widths = {1, 2}
  Moves <- MCMoves
INVARIANTS ShiftTypeOK ShiftComputes ShiftKeepsSP
PROPERTY ShiftTerminates
CHECK_DEADLOCK FALSE
