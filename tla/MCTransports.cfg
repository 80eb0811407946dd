\* Every kind of transport, three messages of any class, two lost connections
\* and two runs; Feishu's limits in ticks of 150 seconds.
CONSTANTS
  Arrivals = 3
  MaxRuns = 2
  MaxSessions = 3
  MaxTicks = 2
  MaxBreaks = 2
  MaxTasks = 2
  MaxNow = 6
  Buffer = 2
  MaxRefresh = 1
  MaxUse = 1
  Lives <- TokenLives
SPECIFICATION Spec
INVARIANTS InOrderOnce TextNeverSkipped NoGapInSession UsedTokenAlive
PROPERTIES Reconnects
CHECK_DEADLOCK FALSE
