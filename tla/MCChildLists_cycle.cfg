SPECIFICATION Spec
CONSTANTS
  Node = {nOrg, nDep, nUser, nPlaced}
  Type <- MCPlaces
  Start <- MCPlacesUnder
  None = None
  Fresh = {}
  Ordinary = {nPlaced}
  MayVanish = {}
  Operator = {o1}
  MaxTalks = 1
  MaxCuts = 0
  MaxBusy = 1
  nOrg = nOrg
  nDep = nDep
  nUser = nUser
  nPlaced = nPlaced
INVARIANT
  NoCycle
CHECK_DEADLOCK FALSE
