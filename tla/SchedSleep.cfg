SPECIFICATION FairSpec
CONSTANTS
  MaxProc = 2
  Sleepers = {2}
  Listers = {}
  Resumers = {}
  Keys = {}
  MaxAlarms = 1
PROPERTY SleepEnds
