SPECIFICATION Spec
CONSTANTS
  c1 = c1
  c2 = c2
  d1 = d1
  d2 = d2
  d3 = d3
  d4 = d4
  d5 = d5
  d6 = d6
  d7 = d7
  d8 = d8
  d9 = d9
  f1 = f1
  f2 = f2
  None = None
  Configs = {c1, c2}
  Deliveries = {d1, d2, d3, d4, d5, d6, d7, d8, d9}
  ConfigOf <- Sent
  FingerprintOf <- Kind
  Threshold <- Counts
  Cools <- FirstCools
  FirstLimit <- One
  Limits = {2}
  Runners = {}
  Requests = {}
  MaxTasks = 6
  MaxEdits = 1
  MaxCrashes = 0
  MaxStops = 0
  MaxFaults = 0
SYMMETRY AlertSymmetry
INVARIANTS ThrottleCounts
