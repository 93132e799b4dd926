SPECIFICATION ConsoleSpec
CONSTANTS
    None = None
    Blank = Blank
    Redacted = Redacted
    MaxCalls = 2
    StartJobs = 1
    MaxJobs = 2
    MaxPage = 2
    PageSizes <- MCPageSizes
    AlertConfigs <- MCAlertConfigs
    StartTasks = 1
    MaxTasks = 2
    MaxTaskPage = 2
    TaskPageSize = 1
    TaskFilters <- MCTaskFilters
    LinkedTask = None
    MaxConfigs = 3
    Projects <- MCProjects
    MaxSkillTasks = 2
    MaxReports = 2
    Keys <- MCKeys
    SecretKeys <- MCSecretKeys
    DefaultKeys <- MCDefaultKeys
    StoredKeys <- MCStoredKeys
    Groups <- MCGroups
    ReviewerKey <- MCReviewerKey
    Visited <- Tabs
    MaxClicks <- AllClicks
    MaxSelects = 1
    MaxEvents <- AllEvents
CHECK_DEADLOCK FALSE
INVARIANTS ConsoleTypeOK BusyTells FormFollows
PROPERTIES TypedStays SavesKeepRest ShownIsSelected
