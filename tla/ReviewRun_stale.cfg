SPECIFICATION Spec
CONSTANTS
  codex = codex
  severe = severe
  NoJob = NoJob
  Reviewers <- OneReviewer
  Issues = {severe}
  Blocking = {severe}
  CarriedAs <- Titled
  MaxHead = 3
  MaxEvents = 1
  MaxRuns = 3
  MaxUpsets = 0
PROPERTY DismissesOlder
