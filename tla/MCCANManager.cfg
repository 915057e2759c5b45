\* Two requests and one frame of the owner, over any number of restarts.
SPECIFICATION Spec
CONSTANTS
  all = all
  echo = echo
  FilterIds = {all, echo}
  Accepts <- MCAccepts
  MaxFilters = 2
  MaxRequests = 2
  MaxSends = 1
  KernelCap = 1
INVARIANTS
  TypeOK
  Fifo
  SocketOpenInUse
  SpawnSafe
PROPERTIES
  FiltersStable
  StopReturns
  Drains
