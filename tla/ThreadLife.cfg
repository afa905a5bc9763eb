SPECIFICATION FairSpec
CONSTANTS
  hi = hi  a = a  b = b  idle = idle
  Thread <- MCThread
  Object = {}
  RT_THREAD_PRIORITY_MAX = 3
  TickMod = 5
  init_tick <- MCInitTick
  Idle = idle
  init_prio <- MCInitPrio
  start_order <- MCStartOrder
  MaxNest = 0
  Static = {hi, a, idle}
  WithCleanup = {hi}
  Manager = {hi, a}
  SleepTimes = {1}
  MaxLives <- MCMaxLives
  TimedTargets = FALSE
INVARIANTS
  ThreadsConsistent
  FreedIsUnreachable
  BuriedOnce
PROPERTIES
  DeadStayDead
  DeadAreReclaimed
