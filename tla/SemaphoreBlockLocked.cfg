SPECIFICATION Spec
CONSTANTS
  hi = hi  a = a  b = b  idle = idle  s1 = s1
  Thread <- MCThread
  Object <- MCObject
  RT_THREAD_PRIORITY_MAX = 3
  TickMod = 5
  init_tick <- MCInitTick
  Idle = idle
  init_prio <- MCInitPrio
  start_order <- MCStartOrder
  init_value <- MCInitValue
  MaxNest = 1
  flag <- FIFO
  MaxValue = 1
  WaitTimes = {1}
  WaitForever = FALSE
  Detachable = {}
  BlockLocked = TRUE
PROPERTIES
  TakeMeansToken
