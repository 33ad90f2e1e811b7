CONSTANTS
  Proc = {p1, p2}
  First = p1
  a = a  b = b
  New = {a, b}
  NR_FILES = 2
  NR_FILE_DESC = 2
  NR_INODE = 3
  NrInodes = 6
  NR_DEFAULT_FILE_SECTS = 2
  InstallBit = 6
  InstallSects = 2
  NrSects = 10
  DirCap = 5
  MaxLeaked = 1
  MaxScribbles = 1
  Scribbles <- MCScribbles
SPECIFICATION Spec
SYMMETRY Alike
CONSTRAINTS OneAfterWrite ShortAfterLoss
INVARIANTS CountsInv 
PROPERTIES OpenFilesStay
CHECK_DEADLOCK FALSE
