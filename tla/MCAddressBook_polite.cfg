SPECIFICATION PoliteSpec
CONSTANTS
  MaxGap = 1
  ScanGap = 2
  IgnoreMaxGap = FALSE
  MaxIndex <- MCMaxIndex
  MaxAddresses = 4
  Request = {r1, r2}
  NoRequest = NoRequest
SYMMETRY Symmetry
INVARIANTS
  AddressesStored
  GivenBehindIndex
  GapBounded
PROPERTIES
  ScanFindsAll
