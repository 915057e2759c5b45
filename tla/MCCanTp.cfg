\* 5 bytes fit a single frame, 13 fill a first and a consecutive frame, and 130
\* take eighteen consecutive frames, so that the sequence number wraps.
SPECIFICATION Spec
CONSTANTS
  tester = tester
  ecu = ecu
  Sources = {tester, ecu}
  Sizes = {5, 13, 130}
  MaxMessages = 3
  MaxFaults = 2
INVARIANTS
  TypeOK
  DeliveredIntact
  CleanArrives
PROPERTY
  OnceInOrder
\* The behaviour ends when all messages are sent and all faults spent.
CHECK_DEADLOCK FALSE
