\* One request slot reused across lifetimes against the timeout work and a
\* freezer; the device may hang a command, and the driver's ->timeout may
\* answer HANDLED or RESET_TIMER.
CONSTANTS
  TimeoutResults = {"HANDLED", "RESET_TIMER"}
SPECIFICATION Spec
PROPERTY EveryRequestEnds FreezeCompletes
