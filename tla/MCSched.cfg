SPECIFICATION SchedFairSpec
CONSTANTS
  NR = 5
  User = {3, 4}
  TASK_TTY = 0
  TASK_HD = 1
  MM = 2
  First = 3
  priority <- MCPriority
INVARIANTS RunsReady
PROPERTIES NobodyStarves
