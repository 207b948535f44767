\* One hotplug event and one resize of the namespace's tag set: may their
\* remaps of the namespace queue overlap?
CONSTANTS
  dm = dm  ns = ns  ns2 = ns2  adm = adm  d1 = d1  n1 = n1  n2 = n2  a1 = a1
  NoParent = NoParent  NoQueue = NoQueue
  Queue <- MCQueue
  Req <- MCReq
  QueueOf <- MCQueueOf
  Parent <- MCParent
  FrontQueue = {dm}
  TailQueue = {adm}
  TagList <- MCTagList
  MaxHotplug = 1
  MaxResize = 1
  AddQueue = ns2
SPECIFICATION Spec
INVARIANT ExclusiveRemap
CHECK_DEADLOCK FALSE
