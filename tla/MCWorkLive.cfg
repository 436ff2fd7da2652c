SPECIFICATION WorkSpec
CONSTANTS
  Commands = {c1, c2}
  Services = {sFirst, sSecond}
  Instances = {iA, iB, iC}
  Executions = {1, 2, 3}
  Calls = {k1}
  Sweeps = {z1}
  Unsteady = {iA}
  Defers = TRUE
  Deadlines = {c2}
  MaxCrashes = 0
  NoOne = NoOne
  c1 = c1
  c2 = c2
  sFirst = sFirst
  sSecond = sSecond
  iA = iA
  iB = iB
  iC = iC
  ServiceOf <- MCServiceOf
  Requests <- MCEitherWay
PROPERTIES
  SilenceIsNoticed
  FinishIsTold
  ResultComes
  RipeIsOffered
CHECK_DEADLOCK FALSE
