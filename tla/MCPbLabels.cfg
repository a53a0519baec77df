SPECIFICATION LabelSpec
CONSTANTS
  x = x
  p = p
  tmpOp = tmpOp
  l = l
  Labels = {l}
  t = t
  None = None
  Junk = Junk
  Syms <- MCSyms
  SizeOf <- MCSizeOf
  Temps <- MCTemps
  Literals <- MCLiterals
  MaxSize = 2
  REG_CNT = 4
  RADIX = 2
  Ops = {"+"}
  Ends = {3, 5}
  MaxSeq = 5
INVARIANTS LabelTypeOK HomesExclusive HomesBacked 
CHECK_DEADLOCK FALSE
