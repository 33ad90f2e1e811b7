SPECIFICATION FairSpec
CONSTANTS
  KB_IN_BYTES = 3
  NR_CONSOLES = 2
  SCREEN_WIDTH = 2
  SCREEN_SIZE = 4
  v_mem_limit = 7
  ReadLen = 2
  Scenarios <- MCScenarios
INVARIANTS ScreenHolds Shown
PROPERTIES KeysInOrder KeyWakes TtyListens
CHECK_DEADLOCK FALSE
