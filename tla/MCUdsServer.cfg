\* Sub-functions 0 to 4: seeds of the levels 1 and 3, and both keys around each.
SPECIFICATION Spec
CONSTANTS
  s1 = s1
  k1 = k1
  k2 = k2
  crc = crc
  NoSeed = NoSeed
  NoKey = NoKey
  NoAlgorithm = NoAlgorithm
  BrandsUsed = {"chevrolet", "ford", "toyota", "bmw", "volkswagen", "mercedes", "honda", "nissan"}
  SubLevels = {0, 1, 2, 3, 4}
  Seeds = {s1}
  Keys = {k1, k2}
  Algorithms = {crc}
  KeyFor <- MCKeyFor
  TickPeriod = 0
  AgeCap = 3
INVARIANTS
  TypeOK
  TesterInSync
PROPERTIES
  RefusalChangesNothing
  ImplementsSession
