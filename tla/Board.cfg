SPECIFICATION Spec
CONSTANTS
  mem_size_aligned = 11
  SIZEOF_STRUCT_MEM = 1
  MIN_SIZE_ALIGNED = 2
  Sizes = {1, 2, 3, 5, 11}
  Tmr = {t1, t2}
  Times = {1, 2}
  TickMod = 7
  Thr = {a, b, c}
  NULL = NULL
  MaxDepth = 2
  SectorSize = 4
  PageSize = 2
  Sectors = 4
  FirstSector = 1
  Width = 8
  Contents <- MCContents
  BufferSize = 8
  MaxFrames = 4
  Parts = {"heap", "timers", "switch", "flash", "usart"}
SYMMETRY MCSymmetry
INVARIANTS
  HeapSound
  ExpireInTime
  TypeOK
  FailsOnlyWhenFull
  StopHolds
  ActivatedMeansLinked
  CpuRunsCurrent
  ContextsKept
  NestCounts
  WrittenAsGiven
  LossIsLocal
  LatestFrameDelivered
