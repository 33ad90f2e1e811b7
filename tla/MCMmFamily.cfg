SPECIFICATION MmSpec
CONSTANTS
  Slot = {9, 10, 11, 12}
  Proc = {3, 4, 5, 9, 10, 11, 12}
  HasMemory = {9, 10, 11}
  Op = {"FORK", "EXIT"}
  Status = {7}
  InitForks = 1
  IrqTask = {}
  Type <- MCType
  ANY = ANY  INTERRUPT = INTERRUPT  NO_TASK = NO_TASK
  HARD_INT = HARD_INT  EMPTY = EMPTY
INVARIANTS FamilyInv
PROPERTIES ImplementsFamily
CHECK_DEADLOCK FALSE
