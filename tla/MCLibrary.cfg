SPECIFICATION Spec
CONSTANTS
  Users = {ann, bob}
  Passwords = {right, wrong}
  DefaultAttempts = 2
  Lockout = 2
  AttemptLimits <- MCAttemptLimits
  MaxFailed = 4
  MaxSize = 2
  MaxFiles = 2
  RecentMax = 3
  LogLevels <- MCLogLevels
  MaxLines = 9
  Frames = {f1, f2}
  Garbled = garbled
  Paths = {p1, p2}
  Counts <- MCCounts
  SizeMax = 8
  MaxFrames = 2
  FaultCodes = {c1, c2}
  MaxFreezeFrames = 2
  MaxEvents = 5
  Vins = {v1, v2}
  Codes = {1, 2}
  CodeLists <- MCCodeLists
  MaxSaves = 3
  SeedSizes <- MCSeedSizes
  Seeds <- MCSeeds
  Keys <- MCKeys
  Vehicles <- MCVehicles
  SensorValues <- MCSensorValues
  Counters <- MCCounters
INVARIANTS LogKeepsNewest RecordingComplete FaultsRemembered SavedWhenTrue
  KeysTellSeedsApart OneCharacterDetected 
PROPERTIES LockoutInTime ReplayInOrder
CHECK_DEADLOCK FALSE
