SPECIFICATION Spec
CONSTANTS
  Initials <- MCInitials
  Settings <- MCSettings
  Covered <- MCCovered
  Enough = 2
  Exact = 8
  Grain = 4
  DbOpens = {TRUE}
  MaxDriven = 4
  MaxClients = 2
INVARIANTS TypeOK MileageAddsUp NothingOutlivesMain RoutedOnceReady
PROPERTIES ShutdownCompletes ClientsTaken
CHECK_DEADLOCK FALSE
