SPECIFICATION FairConsole
CONSTANTS
    None = None
    Blank = Blank
    Redacted = Redacted
    MaxCalls = 2
    StartJobs = 1
    MaxJobs = 2
    MaxPage = 2
    PageSizes <- MCPageSizes
    AlertConfigs <- MCAlertConfigs
    StartTasks = 1
    MaxTasks = 2
    MaxTaskPage = 2
    TaskPageSize = 1
    TaskFilters <- MCTaskFilters
    LinkedTask = 1
    MaxConfigs = 3
    Projects <- MCProjects
    MaxSkillTasks = 1
    MaxReports = 2
    Keys <- MCKeys
    SecretKeys <- MCSecretKeys
    DefaultKeys <- MCDefaultKeys
    StoredKeys <- MCStoredKeys
    Groups <- MCGroups
    ReviewerKey <- MCReviewerKey
    Visited <- WatchTabs
    MaxClicks <- WatchClicks
    MaxSelects = 1
    MaxEvents <- OneEvent
CHECK_DEADLOCK FALSE

PROPERTIES RowsSettle TasksSettle GenerationEnds
