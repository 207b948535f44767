\* One queue with its own two driver tags and three requests: tag
\* starvation is resolved through SCHED_RESTART and the completion's
\* blk_mq_sched_restart, and a driver that stops the queue on BUSY (with a
\* request in flight) restarts it from its completion.
CONSTANTS
  h1 = h1  h2 = h2  a1 = a1  a2 = a2  a3 = a3  b1 = b1
  HCtx <- MCHCtxSingle
  Req <- MCReqSingle
  Home <- MCHomeSingle
  SyncReq = {a3}
  TagList <- MCTagListSingle
  NrHw = 2
  QueueDepth = 2
  ReservedTags = 0
  NrCpu = 3
  SetMap <- MCSetMapThree
  MaxHotplug = 3
  DriverResults = {"OK", "BUSY", "DEV_BUSY", "ERROR"}
  DriverStops = TRUE
  NBudget = 2
  MaxSubmit = 5
SPECIFICATION Spec
INVARIANT DriverTagsOnlyAtDriver
INVARIANT TagSetAllocated
INVARIANT OnlineCpusHaveTags
INVARIANT MapPagesTracked
INVARIANT BudgetAccounting
PROPERTY EveryRequestCompletes
