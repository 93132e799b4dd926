SPECIFICATION FairSpec
CONSTANTS
  c1 = c1
  d1 = d1
  d2 = d2
  d3 = d3
  f1 = f1
  f2 = f2
  r1 = r1
  r2 = r2
  None = None
  Configs = {c1}
  Deliveries = {d1, d3}
  ConfigOf <- Sent
  FingerprintOf <- Kind
  Threshold <- One
  Cools <- NoneCools
  FirstLimit <- One
  Limits = {2}
  Runners = {r1, r2}
  Requests = {k1}
  MaxTasks = 2
  MaxEdits = 0
  MaxCrashes = 0
  MaxStops = 1
  MaxFaults = 0
PROPERTY EveryTaskEnds
