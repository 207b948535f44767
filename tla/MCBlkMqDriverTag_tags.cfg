\* Two queues sharing two driver tags (a SCSI host with two devices): the
\* shared path of blk_mq_mark_tag_wait with its dispatch_wait entry and
\* recheck, wakeups of the other queue's waiter, a sync request
\* bypass-inserted on hctx->dispatch, and a budget of one that the driver
\* refuses after the bd.last prefetch: driver tags stay with requests at
\* the driver or at the head of a list, and the budget is accounted for.
\* The stall of README section 5, item 5 is a state with no step enabled,
\* so the deadlock check is off; liveness is checked by drivertag_single.
CONSTANTS
  h1 = h1  h2 = h2  a1 = a1  a2 = a2  a3 = a3  b1 = b1
  HCtx <- MCHCtxShared
  Req <- MCReqShared
  Home <- MCHomeShared
  SyncReq = {a1}
  TagList <- MCTagListShared
  NrHw = 1
  QueueDepth = 3
  ReservedTags = 1
  NrCpu = 1
  SetMap <- MCSetMapOne
  MaxHotplug = 0
  DriverResults = {"OK", "BUSY", "ERROR"}
  DriverStops = FALSE
  NBudget = 1
  MaxSubmit = 6
SPECIFICATION Spec
INVARIANT DriverTagsOnlyAtDriver
INVARIANT BudgetAccounting
CHECK_DEADLOCK FALSE
