SPECIFICATION Spec
CONSTANTS
  Nodes = {nOrg, nMachine, nNew, nMore}
  Cores = {coreA, coreB}
  Machines = {nMachine}
  Counts = {1, 2}
  MaxValue = 2
  AdoptTo = {coreA, coreB}
  Talks = {t1}
  MaxIds = 3
  nOrg = nOrg
  nNew = nNew
  nMachine = nMachine
  nMore = nMore
  coreA = coreA
  coreB = coreB
  CoreOf <- MCCoreOfTwo
  MayAsk <- MCMayAsk
  FirstId <- MCFirstId
INVARIANT
  OneNodePerId
CHECK_DEADLOCK FALSE
