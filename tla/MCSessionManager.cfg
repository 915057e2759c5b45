\* AgeCap exceeds both timeouts by one. A tick is at most two units late.
SPECIFICATION Spec
CONSTANTS
  s1 = s1
  s2 = s2
  k1 = k1
  k2 = k2
  crc = crc
  aes = aes
  NoSeed = NoSeed
  NoAlgorithm = NoAlgorithm
  Levels = {1, 3}
  Seeds = {s1, s2}
  Keys = {k1, k2}
  Algorithms = {crc, aes}
  KeyFor <- MCKeyFor
  SessionTimeouts = {1, 2}
  SecurityTimeouts = {1, 3}
  DefaultSessionTimeout = 1
  DefaultSecurityTimeout = 3
  TickPeriod = 2
  AgeCap = 4
INVARIANTS
  TypeOK
  FallbackInTime
  RelockInTime
  ClientInSync
  OpenHasSeed
PROPERTY
  ImplementsSession
