SPECIFICATION PartSpec
CONSTANTS
  Times <- TickTimes
  Requests = {}
  Seconds <- LastSeconds
  NoDate = NoDate
  Names = {"a", "bb"}
  MaxNodes = 4
  MaxPath = 2
  ReadSizes = {2, 3, 5}
  EmptyDirs = FALSE
  Inputs <- Kernel
  useN = TRUE
  WordSize = 128
  INTBUF_SIZE = 3
  SIZE_T_MAX = 255
  Values = {1, 2, 3}
  size = 5
  Top = 5
  SIZE_MAX = 255
  Garbage = {0, 9}
  Least = 1
  \* Three columns and two and a half rows.
  xsize = 6
  ysize = 5
  consFontH = 2
  consFontW = 2
  consTabSpc = 2
  Writers = {w1}
  ConsChars = {"a", "b", "CR", "LF", "TAB", "BS", "FF"}
  Greys = {"white", "black"}
  Colours = {}
  MaxTyped = 5
\* A call ends, nobody need type, and at the end of the input the shell ends.
CHECK_DEADLOCK FALSE
INVARIANTS
  HeapOrdered
  PrintsAndFits
  WalksFollowTree
  DirectoriesListed
  ExecutedAsTyped
  ScreenShowsText
PROPERTIES
  ImplementsPriority
  ImplementsCalendar
  PromptReturns
