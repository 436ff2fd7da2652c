SPECIFICATION Spec
CONSTANTS
  Nodes = {nOrg, nMachine, nNew, nMore}
  Cores = {coreA, coreB}
  Machines = {nMachine}
  Counts = {1, 2}
  MaxValue = 2
  AdoptTo = {coreB}
  Talks = {t1, t2}
  MaxIds = 5
  nOrg = nOrg
  nNew = nNew
  nMachine = nMachine
  nMore = nMore
  coreA = coreA
  coreB = coreB
  CoreOf <- MCCoreOf
  MayAsk <- MCMayAsk
  FirstId <- MCFirstId
SYMMETRY Alike
INVARIANTS
  TypeOK
  NoIdTwice
  OneNodePerId
PROPERTIES
  BasisIsFresh
  NoneBeyondSwitch
CHECK_DEADLOCK FALSE
