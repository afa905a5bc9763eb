SPECIFICATION Spec
CONSTANTS
  hi = hi  a = a  idle = idle  f1 = f1  f2 = f2
  Thread <- MCThread
  Object <- MCObject
  RT_THREAD_PRIORITY_MAX = 3
  TickMod = 5
  init_tick <- MCInitTick
  Idle = idle
  init_prio <- MCInitPrio
  start_order <- MCStartOrder
  MaxNest = 0
  flag = "FIFO"
  suspend_thread = "suspend_thread"
  suspend_sender_thread = "suspend_sender_thread"
  WaitTimes <- MCWaitTimes
  Forever <- MCForever
  Resets = TRUE
  Detaches = TRUE
  NULL = NULL
  Mail = {m1, m2}
  NoMail = NoMail
  size = 2
  Flag = {f1, f2}
  Asks <- MCAsks
  Block = {b1, b2}
  Message = {m1, m2}
  UrgentMessage = {m2}
  NoMessage = NoMessage
  pool_waiters = "pool"
  PoolBlock = {b1, b2}
  pool = pool
  MaxPending = 3
  Kinds = {"mp"}
INVARIANT
  CountsPending
