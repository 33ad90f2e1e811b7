CONSTANTS
  File = {"a", "b"}
  Filp = {"d1", "d2", "d3"}
  FileOf <- MCFileOf
  i_start_sect <- MCStart
  i_nr_sects <- MCNr
  SECTOR_SIZE = 2
  BufSects = 2
  PartSects = 8
  Lens = {2, 3, 5}
SPECIFICATION RdwtSpec
PROPERTIES ImplementsFiles StraightOn
