\* One CPU and kblockd; a driver-reset path quiesces the queue while
\* blk_mq_update_nr_requests freezes, quiesces and unquiesces it.
CONSTANTS
  NCPU = 1
  NTags = 2
  Depths = {2}
  MaxCycles = 2
  DriverResults = {"OK", "BUSY"}
  DriverRequeues = TRUE
  k = k
  r1 = r1
  q1 = q1
  Kblockd <- k
  Resizers <- MCResizersBoth
  Quiescers <- MCQuiescersBoth

SPECIFICATION Spec
VIEW MCView

PROPERTY QuiesceNoDispatch
