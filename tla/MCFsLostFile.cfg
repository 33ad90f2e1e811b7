CONSTANTS
  Proc = {p1}
  First = p1
  New = {"a", "b"}
  NR_FILES = 1
  NR_FILE_DESC = 1
  NR_INODE = 3
  NrInodes = 6
  NR_DEFAULT_FILE_SECTS = 2
  InstallBit = 6
  InstallSects = 2
  NrSects = 10
  DirCap = 6
  MaxLeaked = 1
  MaxScribbles = 0
  Scribbles = {}
SPECIFICATION Spec
INVARIANTS EveryFileFound
CHECK_DEADLOCK FALSE
