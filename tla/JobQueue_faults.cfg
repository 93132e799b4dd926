SPECIFICATION Spec
CONSTANTS
  p1 = p1
  p2 = p2
  r1 = r1
  r2 = r2
  d1 = d1
  d2 = d2
  d3 = d3
  None = None
  PRs = {p1}
  Repos = {r1}
  RepoOf <- OneRepo
  Deliveries = {d1, d2}
  PROf <- TwoThenOne
  Pushes = {d1, d2}
  Handlers = {h1, h2}
  Workers = {w1, w2}
  MaxAttempts = 2
  MaxJobs = 2
  MaxSends <- Once
  MaxReruns = 1
  MaxCrashes = 1
  MaxStops = 0
  MaxFaults = 1
SYMMETRY Symmetric
INVARIANTS TypeOK OneRunningPerPR RunningOwned AttemptsBounded AckedDeliveryRecorded SupersededCauses SupersededHasSuccessor
PROPERTIES FinalStateKept LifecycleSpec
