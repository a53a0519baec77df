SPECIFICATION Spec
CONSTANTS
  c = c
  p = p
  q = q
  NoVar = NoVar
  Junk = Junk
  Vars <- MCVars
  SizeOf <- MCSizeOf
  MEMORY_SIZE = 6
  StackSizes = {0}
  Modes = {TRUE, FALSE}
  Bases = {0, 4}
  Values = {1, 2}
INVARIANTS SPTracked BlocksWhole SpillsKept
PROPERTIES ReloadReturnsSpill SpillsStayInFrame ReturnPopsFrame
