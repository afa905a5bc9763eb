SPECIFICATION Spec
CONSTANTS
  hi = hi  mid = mid  lo = lo  idle = idle  m1 = m1  m2 = m2
  RT_NULL = RT_NULL  None = None
  Thread <- MCThread
  Object <- OneMutex
  RT_THREAD_PRIORITY_MAX = 4
  TickMod = 5
  init_tick <- MCInitTick
  Idle = idle
  init_prio <- MCInitPrio
  start_order <- MCStartOrder
  MaxNest = 0
  flag <- PRIO
  MaxHold = 2
  WaitTimes = {1}
  WaitForever = TRUE
  SleepTimes = {1}
  Nested = FALSE
INVARIANTS
  StateConsistent
  MutualExclusion
  OwnershipAgrees
  PriorityRestored
  NoPriorityInversion
