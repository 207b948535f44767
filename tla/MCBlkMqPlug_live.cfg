\* A task plugging on two CPUs while one CPU goes down or comes up. The
\* model stops once every request is done and the hotplug event is used, so
\* deadlock is not checked; EveryRequestCompletes catches a request left
\* behind.
CONSTANTS
  r1 = r1  r2 = r2  r3 = r3
  Req <- MCReq
  CPU = {1, 2}
  Pos = {1, 2}
  MaxPlugged = 2
  MaxHotplug = 1
SPECIFICATION Spec
INVARIANT NoStrandedRequest
PROPERTY FlushInsertsSorted EveryRequestCompletes
CHECK_DEADLOCK FALSE
