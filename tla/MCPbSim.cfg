SPECIFICATION MCSpec
CONSTANTS
  MAXMEM = 3
  MAXSTK = 3
  BYTE = 2
  INTVECT = 2
  Insts <- MCInsts
  Move <- MCMove
INVARIANT FramesKept
PROPERTIES ReturnRestores FailureResumes
CHECK_DEADLOCK FALSE
