SPECIFICATION FairSpec
CONSTANTS
  hi = hi  a = a  b = b  idle = idle  s1 = s1
  Thread <- PairThread
  Object <- MCObject
  RT_THREAD_PRIORITY_MAX = 3
  TickMod = 7
  init_tick <- PairInitTick
  Idle = idle
  init_prio <- PairInitPrio
  start_order <- PairStartOrder
  init_value <- MCInitValue
  MaxNest = 1
  flag <- FIFO
  MaxValue = 1
  WaitTimes = {1, 2}
  WaitForever = FALSE
  Detachable = {}
  BlockLocked = FALSE
INVARIANTS
  HighestPriorityRuns
  NoTimerOverdue
PROPERTIES
  TimedWaitEnds
