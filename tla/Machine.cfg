SPECIFICATION PartSpec
CONSTANTS
  MaxProc = 4
  Ps = 2
  Waiters = {1}
  Mortals = {3, 4}
  Threads = {t1, t2, t3}
  NoThread = NoThread
  MaxDepth = 3
  AfterSplit = FALSE
  Pids <- TwoPids
  Durations = {1, 2}
  MaxTime = 2
  MaxLives = 2
INVARIANTS
  QueueIsSound
  CursorOnQueue
  RegionsHold
  AlarmsReachSleepers
PROPERTIES
  ImplementsQueue
  PsReturns
  AlarmsFire
