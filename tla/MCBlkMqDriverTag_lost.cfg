\* Two queues sharing one driver tag: the waiter of one is woken by a put
\* on the other: does every request complete? A stall is a state with no
\* step enabled, which the liveness property reports.
CONSTANTS
  h1 = h1  h2 = h2  a1 = a1  a2 = a2  a3 = a3  b1 = b1
  HCtx <- MCHCtxShared
  Req <- MCReqShared
  Home <- MCHomeShared
  SyncReq = {a1}
  TagList <- MCTagListShared
  NrHw = 1
  QueueDepth = 1
  ReservedTags = 0
  NrCpu = 1
  SetMap <- MCSetMapOne
  MaxHotplug = 0
  DriverResults = {"OK", "BUSY", "ERROR"}
  DriverStops = FALSE
  NBudget = 3
  MaxSubmit = 6
SPECIFICATION Spec
CHECK_DEADLOCK FALSE
PROPERTY EveryRequestCompletes
