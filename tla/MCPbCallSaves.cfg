SPECIFICATION FormsSpec
CONSTANTS
  x = x
  y = y
  w = w
  starSym = starSym
  None = None
  Junk = Junk
  Syms <- MCSyms
  SizeOf <- MCSizeOf
  Temps <- MCTemps
  ParamLists <- MCParams
  Literals <- MCLiterals
  Arguments <- MCArguments
  MaxSize = 2
  REG_CNT = 5
  ARG_REG_CNT = 2
  RADIX = 2
  Ops = {}
  Ends = {3, 5}
  MaxSeq = 5
PROPERTY CallKeepsLive
CHECK_DEADLOCK FALSE
