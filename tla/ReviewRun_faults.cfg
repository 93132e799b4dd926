SPECIFICATION Spec
CONSTANTS
  codex = codex
  severe = severe
  NoJob = NoJob
  Reviewers <- OneReviewer
  Issues = {severe}
  Blocking = {severe}
  CarriedAs <- Titled
  MaxHead = 2
  MaxEvents = 1
  MaxRuns = 2
  MaxUpsets = 2
INVARIANTS TypeOK OpenIsShown VetoesBounded BlockingHeld
PROPERTY LedgerSpec
