SPECIFICATION PartSpec
CONSTANTS
  Procs = {p1, p2}
  MANOS_MAXFD = 2
  Paths <- AllPaths
  Sizes = {11, 60}
  Bytes = {"0", "1"}
  MaxStarts = 3
  MaxOffset = 9
INVARIANTS
  PortalsAccounted
  NamesLeadToFiles
