SPECIFICATION HdFairSpec
CONSTANTS
  HD = "HD"  FS = "FS"
  Proc = {"HD", "FS"}  IrqTask = {"HD"}
  CountMod = 4
  NR_PART_PER_DRIVE = 4  NR_SUB_PER_PART = 3  MAX_PRIM = 9  MINOR_hd1a = 16
  Table <- MCTable
  RootDevs = {1, 19, 20, 21, 25}
  Lens = {1, 2, 3, 4, 5, 8}
  Positions = {0, 1, 2, 3}
  Type <- MCType
  ANY = ANY  INTERRUPT = INTERRUPT  NO_TASK = NO_TASK
  HARD_INT = HARD_INT  EMPTY = EMPTY
INVARIANTS DriveInv NoStrayInterrupt InPartition
PROPERTIES RequestsAnswered
CHECK_DEADLOCK FALSE
