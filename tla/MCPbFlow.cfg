SPECIFICATION FlowSpec
CONSTANTS
  RADIX = 3
  Widths = {1, 2, 3}
  Ops = {"<", "<=", "==", "+", "-", "logic", "=", "shift", "call"}
INVARIANT BranchRight
CHECK_DEADLOCK FALSE
