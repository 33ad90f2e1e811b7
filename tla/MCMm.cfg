SPECIFICATION MmFairSpec
CONSTANTS
  Slot = {9, 10}
  Proc = {3, 4, 5, 9, 10}
  HasMemory = {9, 10}
  Op = {"FORK", "EXIT", "WAIT", "EXEC"}
  Status = {7}
  InitForks = 1
  IrqTask = {}
  Type <- MCType
  ANY = ANY  INTERRUPT = INTERRUPT  NO_TASK = NO_TASK
  HARD_INT = HARD_INT  EMPTY = EMPTY
INVARIANTS OnlyExecDeadlocks
PROPERTIES ReplyTruth MessageMakesRunnable ForksAnswered OrphansReaped
CHECK_DEADLOCK FALSE
