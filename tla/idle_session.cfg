\* The instance of MCUdsServer.cfg, for one brand.
SPECIFICATION Spec
CONSTANTS
  s1 = s1
  k1 = k1
  k2 = k2
  crc = crc
  NoSeed = NoSeed
  NoKey = NoKey
  NoAlgorithm = NoAlgorithm
  BrandsUsed = {"bmw"}
  SubLevels = {0, 1, 2, 3, 4}
  Seeds = {s1}
  Keys = {k1, k2}
  Algorithms = {crc}
  KeyFor <- MCKeyFor
  TickPeriod = 0
  AgeCap = 3
INVARIANT
  IdleSessionEnds
