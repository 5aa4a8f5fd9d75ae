CONSTANTS
  Requests = {r1, r2}
  DrainDelay = 3
  Window = 4
  FlushTime = 2
  WriteTimeout = 4
  RequestTimeout = 6
  Period = 1
  Threshold = 2
  Graces = {2, 4, 10}
SPECIFICATION Spec
INVARIANTS NoneRefused EndsWithinGrace CutOnlyLate UnflushedExits
PROPERTIES ShutdownEnds
