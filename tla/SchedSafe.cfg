SPECIFICATION SessionSpec
CONSTANTS
  MaxProc = 3
  Sleepers = {}
  Listers = {2, 3}
  Resumers = {3}
  Keys = {"SigAbort", "SigStop"}
  MaxAlarms = 1
INVARIANTS
  SlotsPartitioned
  TableMatchesFreelist
  OnlyRpRuns
  DeadOwnNothing
  LockExcludes
  WaitpidAssertion
PROPERTIES
  StoppedUntilSignalled
