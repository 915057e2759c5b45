\* The instance of MCTroubleCodes.cfg, without the fault injector.
SPECIFICATION Spec
CONSTANTS
  c0171 = c0171
  c0172 = c0172
  c0101 = c0101
  c0300 = c0300
  normal = normal
  bad_o2 = bad_o2
  maf_fault = maf_fault
  BrandsUsed = {"chevrolet", "ford", "bmw"}
  Codes = {c0171, c0172, c0101, c0300}
  Profiles = {normal, bad_o2, maf_fault}
  NoCode = NoCode
  Normal = normal
  ActiveDtcs <- MCActiveDtcs
  Faults = {}
INVARIANT
  OldProfileGoes
