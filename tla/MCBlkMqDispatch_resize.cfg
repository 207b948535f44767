\* One CPU and kblockd; blk_mq_update_nr_requests runs once and may
\* shrink the tag depth from 2 to 1.
CONSTANTS
  NCPU = 1
  NTags = 2
  Depths = {1, 2}
  MaxCycles = 1
  DriverResults = {"OK", "BUSY", "DEV_BUSY", "ERROR"}
  DriverRequeues = TRUE
  k = k
  r1 = r1
  q1 = q1
  Kblockd <- k
  Resizers <- MCResizersResize
  Quiescers <- MCQuiescersResize

SPECIFICATION Spec
VIEW MCView

INVARIANT AllocatedWithinDepth
PROPERTY FreezeDrains BlkMqRequestQueueSpec
