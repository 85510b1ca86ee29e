SPECIFICATION FairSpec
CONSTANTS
  MaxProc = 2
  Sleepers = {2}
  Listers = {2}
  Resumers = {2}
  Keys = {"SigAbort", "SigStop"}
  MaxAlarms = 1
INVARIANTS
  TypeOK
PROPERTIES
  ReadyRuns
  DeadRecycled
