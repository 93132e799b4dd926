SPECIFICATION Spec
CONSTANTS
  p1 = p1
  p2 = p2
  r1 = r1
  r2 = r2
  d1 = d1
  d2 = d2
  d3 = d3
  None = None
  PRs = {p1, p2}
  Repos = {r1}
  RepoOf <- OneRepo
  Deliveries = {d1, d3}
  PROf <- TwoThenOne
  Pushes = {d3}
  Handlers = {h1}
  Workers = {w1, w2}
  MaxAttempts = 2
  MaxJobs = 2
  MaxSends <- Once
  MaxReruns = 0
  MaxCrashes = 0
  MaxStops = 0
  MaxFaults = 0
SYMMETRY WorkerSymmetry
INVARIANTS CanceledByOwnPR
