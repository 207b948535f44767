\* One hotplug event, one resize of the namespace's tag set, and a second
\* namespace queue added to the set and freed again, racing requests
\* that wait on requests of other queues. The model stops once every
\* request is done and all events are used, so deadlock is not
\* checked; ReinitCompletes catches a remap that stops half-way.
CONSTANTS
  dm = dm  ns = ns  ns2 = ns2  adm = adm  d1 = d1  n1 = n1  n2 = n2  a1 = a1
  NoParent = NoParent  NoQueue = NoQueue
  Queue <- MCQueue
  Req <- MCReq
  QueueOf <- MCQueueOf
  Parent <- MCParent
  FrontQueue = {dm}
  TailQueue = {adm}
  TagList <- MCTagList
  MaxHotplug = 1
  MaxResize = 1
  AddQueue = ns2
SPECIFICATION Spec
INVARIANT RemapOnlyDrained
INVARIANT TagSharedConsistent
PROPERTY ReinitCompletes
PROPERTY SharedFlipOnlyFrozen
CHECK_DEADLOCK FALSE
