SPECIFICATION LiveSpec
CONSTANTS
  Node = {nOrg, nDep, nUser, nPlaced}
  Type <- MCType
  Start <- MCStart
  None = None
  Fresh = {}
  Ordinary = {nPlaced}
  MayVanish = {}
  Operator = {o1, o2}
  MaxTalks = 2
  MaxCuts = 1
  MaxBusy = 1
  Branch = {bTop, bMid, bLeaf}
  Up <- MCUp
  Nobody = Nobody
  Orderer = {o1}
  MaxSuspends = 1
  MaxResumes = 1
  MaxUnheard = 1
  Loop = {l1, l2}
  MaxInstance = 4
  MaxCopyStarts = 2
  MaxOutages = 1
  MaxLong = 1
  o1 = o1
  o2 = o2
  nOrg = nOrg
  nDep = nDep
  nUser = nUser
  nPlaced = nPlaced
  bTop = bTop
  bMid = bMid
  bLeaf = bLeaf
INVARIANTS
  ShutdownsTypeOK
  LockHasCause
  CopiesTypeOK
PROPERTIES
  FindsItsWay
  RefusedForGood
  LocksSpread
  LocksLift
  UnusedIsNoticed
  ComesBack
CHECK_DEADLOCK FALSE
