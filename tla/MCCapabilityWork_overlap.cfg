SPECIFICATION KeptSpec
CONSTANTS
  Commands = {c1}
  Services = {sFirst, sSecond}
  Instances = {iA, iB, iC}
  Executions = {1, 2}
  Calls = {k1, k2}
  Sweeps = {z1}
  Unsteady = {}
  Defers = TRUE
  Deadlines = {}
  MaxCrashes = 1
  NoOne = NoOne
  sFirst = sFirst
  sSecond = sSecond
  iA = iA
  iB = iB
  iC = iC
  ServiceOf <- MCServiceOf
  Requests <- MCReports
SYMMETRY Alike
INVARIANTS
  SuccessHasAnswer
  HeldByOne
PROPERTIES
  KeepsLease
CHECK_DEADLOCK FALSE
