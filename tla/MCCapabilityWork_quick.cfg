SPECIFICATION Spec
CONSTANTS
  Commands = {c1}
  Services = {sFirst, sSecond}
  Instances = {iA, iC}
  Executions = {1, 2}
  Calls = {k1}
  Sweeps = {z1}
  Unsteady = {}
  Defers = FALSE
  Deadlines = {}
  MaxCrashes = 0
  NoOne = NoOne
  sFirst = sFirst
  sSecond = sSecond
  iA = iA
  iB = iB
  iC = iC
  ServiceOf <- MCServiceOfTwo
  Requests <- MCReports
INVARIANT
  FinishIsAlwaysNoticed
CHECK_DEADLOCK FALSE
