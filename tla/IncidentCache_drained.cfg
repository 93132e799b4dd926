SPECIFICATION FairSpec
CONSTANTS
  ra = ra
  da = da
  da2 = da2
  pa = pa
  pa2 = pa2
  Repos = {ra}
  Trees = {da, da2}
  RepoOfTree <- Belongs
  Runs = {pa, pa2}
  Tests = {pa2}
  TreeOf <- Uses
  Janitor = Janitor
  None = None
  Legacy = {ra}
  MaxRepos = 1
  MaxBytes = 3
  Sizes = {1, 4}
  Disk = {TRUE, FALSE}
  MaxStarts = 2
  MaxCrashes = 1
  MaxFaults = 1
INVARIANTS TypeOK MirrorHeld
PROPERTIES UsedKept Drained
