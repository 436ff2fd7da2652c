SPECIFICATION RecordsSpec
CONSTANTS
  Node = {nOrg, nDep, nTeam, nUser, nNew}
  Type <- MCType
  Start <- MCStart
  None = None
  Fresh = {nNew}
  Ordinary = {}
  MayVanish = {nDep}
  Operator = {o1}
  MaxTalks = 2
  MaxCuts = 1
  MaxBusy = 1
  Org = {oOrg, oDiv}
  Over <- MCOver
  Spot = {pOrg, pDiv}
  Base <- MCBase
  Person = {x1, x2}
  Nowhere = Nowhere
  Number = {1}
  NoLimit = 9
  MaxSeatTalks = 3
  MaxLimits = 1
  MaxRecounts = 2
  MaxFailures = 1
  MaxExtra = 1
  Core = {c1, c2}
  Original = c1
  CodeRequest = {q1, q2}
  Block = {0, 1, 2}
  TOP_LEVEL_BLOCK_SIZE = 4
  RESERVED_TOP_LEVEL_LIMIT = 11
  NoBlock = NoBlock
  Id = {i1, i2}
  JoinRequest = {r1, r2, r3}
  IdOf <- MCIdOf
  NoId = NoId
  MaxStarts = 3
  Fetch = {f1, f2}
  Window = 1
  Ahead = 2
  MaxLookup = 1
  MaxTime = 4
  MaxCopies = 1
  nOrg = nOrg
  nDep = nDep
  nTeam = nTeam
  nUser = nUser
  nNew = nNew
  oOrg = oOrg
  oDiv = oDiv
  pOrg = pOrg
  pDiv = pDiv
  i1 = i1
  i2 = i2
  r1 = r1
  r2 = r2
  r3 = r3
  f1 = f1
  f2 = f2
INVARIANTS
  TypeOK
  NeverTooFew
  KindsFit
  SeatsTypeOK
  NeverTooLow
  NoneBeyondLimit
  FirstIdsTypeOK
  NoFirstIdTwice
  JoiningTypeOK
  OneIdentity
  SignedTypeOK
  ActedOnOnce
  RevokedStaysRefused
  RetryIsEnough
SYMMETRY MCSymmetry
CHECK_DEADLOCK FALSE
