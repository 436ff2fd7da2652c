SPECIFICATION KeptSpec
CONSTANTS
  Commands = {c1}
  Services = {sFirst, sSecond}
  Instances = {iA, iC}
  Executions = {1, 2, 3}
  Calls = {k1}
  Sweeps = {z1}
  Unsteady = {iC}
  Defers = TRUE
  Deadlines = {c1}
  MaxCrashes = 0
  NoOne = NoOne
  sFirst = sFirst
  sSecond = sSecond
  iA = iA
  iB = iB
  iC = iC
  ServiceOf <- MCServiceOfTwo
  Requests <- MCRequests
INVARIANTS
  TypeOK
  ResultIsTrue
  SuccessIsEarned
  FinishIsNoticed
PROPERTIES
  FinishedIsFinal
CHECK_DEADLOCK FALSE
