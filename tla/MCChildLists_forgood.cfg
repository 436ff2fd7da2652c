SPECIFICATION Spec
CONSTANTS
  Node = {nOrg, nDep, nUser, nPlaced}
  Type <- MCPlaces
  Start <- MCPlacesUnder
  None = None
  Fresh = {}
  Ordinary = {nPlaced}
  MayVanish = {}
  Operator = {o1}
  MaxTalks = 2
  MaxCuts = 1
  MaxBusy = 1
  nOrg = nOrg
  nDep = nDep
  nUser = nUser
  nPlaced = nPlaced
PROPERTY
  RetiredForGood
CHECK_DEADLOCK FALSE
