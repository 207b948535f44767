\* Two CPUs and kblockd: three threads that may run the queue at once,
\* two software queues; a driver that never requeues; a driver-reset
\* path that quiesces the queue once.
CONSTANTS
  NCPU = 2
  NTags = 2
  Depths = {2}
  MaxCycles = 1
  DriverResults = {"OK", "BUSY"}
  DriverRequeues = FALSE
  k = k
  r1 = r1
  q1 = q1
  Kblockd <- k
  Resizers <- MCResizersQuiesce
  Quiescers <- MCQuiescersQuiesce

SPECIFICATION Spec
VIEW MCView

INVARIANT TypeOK RequestAccounting PendingMatchesList
PROPERTY QuiesceNoDispatch
