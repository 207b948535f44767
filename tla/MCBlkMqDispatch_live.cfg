\* One CPU and kblockd, both running the queue; no freeze or quiesce.
CONSTANTS
  NCPU = 1
  NTags = 2
  Depths = {2}
  MaxCycles = 0
  DriverResults = {"OK", "BUSY", "DEV_BUSY", "ERROR"}
  DriverRequeues = TRUE
  k = k
  r1 = r1
  q1 = q1
  Kblockd <- k
  Resizers <- MCResizersQuiesce
  Quiescers <- MCQuiescersResize

SPECIFICATION Spec
VIEW MCView


PROPERTY EveryRequestCompletes BlkMqRequestQueueSpec

\* A request stranded with every submitter asleep for a tag is a state
\* without successor; EveryRequestCompletes reports it as a behaviour that
\* stops with the request allocated. The other runs check deadlock.
CHECK_DEADLOCK FALSE
