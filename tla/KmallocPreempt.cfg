SPECIFICATION UserSpec
CONSTANTS
  HeapUnits = 13
  MaxBins = 8
  MaxFastBin = 5
  MaxRangeBin = 9
  MaxPreAllocations = 2
  WordUnits = 26
  Requests = {0, 15, 41}
  Procs = {p1, p2}
  NoChunk = NoChunk
INVARIANT FoundIsNotAllocated
