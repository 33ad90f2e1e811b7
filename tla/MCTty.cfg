SPECIFICATION TtyFairSpec
CONSTANTS
  TTY = "TTY"  FS = "FS"
  User = {"u1", "u2"}
  Proc = {"TTY", "FS", "u1", "u2"}
  IrqTask = {"TTY"}
  NrConsoles = 2
  TtyOf <- MCTtyOf  OpsOf <- MCOpsOf
  Keys = {"char", "enter", "backspace", "F1", "F2"}
  KB_IN_BYTES = 1
  Lens = {2}
  Type <- MCType
  ANY = ANY  INTERRUPT = INTERRUPT  NO_TASK = NO_TASK
  HARD_INT = HARD_INT  EMPTY = EMPTY
INVARIANTS  AnswerIsToRequest OnlyResumeDeadlocks
PROPERTIES LinesArrive WritesReturn
CHECK_DEADLOCK FALSE
