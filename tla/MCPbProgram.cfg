SPECIFICATION ProgramSpec
CONSTANTS
  main = main
  f = f
  l = l
  Funs <- MCFuns
  Labels = {l}
  MaxLines = 11
  MAXSTK = 2
INVARIANTS BankAsBelieved NoUnderflow
PROPERTIES EntersByCall LocksUp
CHECK_DEADLOCK FALSE
