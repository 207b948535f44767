\* Two queues sharing two driver tags (so the next request's tag is
\* prefetched): the waiter of one is woken by a put
\* on the other; the driver tags stay with requests at the driver.
CONSTANTS
  h1 = h1  h2 = h2  a1 = a1  a2 = a2  a3 = a3  b1 = b1
  HCtx <- MCHCtxShared
  Req <- MCReqShared
  Home <- MCHomeShared
  SyncReq = {a1}
  TagList <- MCTagListShared
  NrHw = 1
  QueueDepth = 3
  ReservedTags = 1
  NrCpu = 1
  SetMap <- MCSetMapOne
  MaxHotplug = 0
  DriverResults = {"OK", "BUSY", "ERROR"}
  DriverStops = FALSE
  NBudget = 1
  MaxSubmit = 6
SPECIFICATION Spec
INVARIANT BudgetAccounting

PROPERTY StrayDriverTagReturns
