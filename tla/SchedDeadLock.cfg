SPECIFICATION Spec
CONSTANTS
  MaxProc = 2
  Sleepers = {}
  Listers = {2}
  Resumers = {}
  Keys = {"SigAbort"}
  MaxAlarms = 1
INVARIANT DeadHoldNoLock
