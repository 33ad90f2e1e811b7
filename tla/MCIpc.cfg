SPECIFICATION Spec
CONSTANTS
  p1 = p1  p2 = p2  p3 = p3  tty = tty
  Proc = {p1, p2, p3, tty}
  IrqTask = {tty}
  Type = {req}
  ANY = ANY  INTERRUPT = INTERRUPT  NO_TASK = NO_TASK
  HARD_INT = HARD_INT  EMPTY = EMPTY
SYMMETRY Interchangeable
INVARIANTS TypeOK BlockedStateAgrees QueueExact NoMissedRendezvous
           NoPendingInterrupt NoSendCycle WalkAgrees
PROPERTIES Rendezvous Fifo ImplementsMailbox
CHECK_DEADLOCK FALSE
