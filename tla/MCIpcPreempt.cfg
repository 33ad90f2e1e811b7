SPECIFICATION AtomicSpec
CONSTANTS
  p1 = p1  p2 = p2  tty = tty
  Proc = {p1, p2, tty}
  IrqTask = {tty}
  Type = {req}
  ANY = ANY  INTERRUPT = INTERRUPT  NO_TASK = NO_TASK
  HARD_INT = HARD_INT  EMPTY = EMPTY
INVARIANTS StructureSurvives
PROPERTIES CallsAreAtomic
CHECK_DEADLOCK FALSE
