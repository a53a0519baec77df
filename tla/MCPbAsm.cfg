SPECIFICATION AsmSpec
CONSTANTS
  L = L
  dot = dot
  X = X
  Plain = {L, X}
  Dotted = {dot}
  Lines <- MCLines
  MAXLINES = 5
  CODESIZE = 8
  CODERANGE = 8
  SCRSIZE = 8
  Ranges = {4}
  MAXESG = 2
  BYTE = 4
  Here = Here
  None = None
INVARIANTS AsmTypeOK PassesAgree JumpsLand DottedLand DataLand
CHECK_DEADLOCK FALSE
