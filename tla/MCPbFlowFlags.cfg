SPECIFICATION FlowSpec
CONSTANTS
  RADIX = 3
  Widths = {1, 2}
  Ops = {"logic"}
INVARIANT FlagsHoldCondition
CHECK_DEADLOCK FALSE
