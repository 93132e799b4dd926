------------------------------ MODULE Console -------------------------------
(***************************************************************************)
(* The admin console (App.jsx, App): the panels of the tabs, of which the  *)
(* open one is mounted, over one server.  Opening another tab unmounts a   *)
(* panel in the middle of whatever it was doing and mounts another; what   *)
(* the unmounted one has asked the server to do is still done.             *)
(***************************************************************************)
EXTENDS JobsPanel, TasksPanel, ConfigsPanel, SkillsPanel, SettingsPanel, ChatPanel,
        AnalyticsPanel

CONSTANTS
    Visited,     \* bound: the tabs the admin opens
    MaxClicks,   \* bound: tab -> what the admin has done in all after a click there
    MaxSelects,  \* bound: how often the admin opens another tab
    MaxEvents    \* bound: tab -> the requests that failed or were given up, and what
                 \* workers, webhooks and restarts did, in all after one there

ASSUME ConsoleAssumption ==
    /\ Visited \subseteq Tabs /\ MaxSelects \in Nat
    /\ MaxClicks \in [Tabs -> Nat] /\ MaxEvents \in [Tabs -> Nat]

VARIABLES clicks, selects, events   \* what is used up of the bounds

bounds == <<clicks, selects, events>>
vars == <<tab, jobsVars, tasksVars, configsVars, skillsVars, settingsVars, chatVars, analyticsVars,
          bounds>>

\* The console opens on the jobs, or on the alert tasks when the link names one.
ConsoleInit ==
    /\ tab = IF LinkedTask = None THEN "jobs" ELSE "alert_tasks"
    /\ JobsInit /\ TasksInit /\ ConfigsInit /\ SkillsInit /\ SettingsInit /\ ChatInit
    /\ AnalyticsInit
    /\ clicks = 0 /\ selects = 0 /\ events = 0

SelectTab(t) ==
    /\ t # tab /\ selects < MaxSelects
    /\ tab' = t
    /\ JobsSelect(t) /\ TasksSelect(t) /\ ConfigsSelect(t)
    /\ SkillsSelect(t) /\ SettingsSelect(t) /\ ChatSelect(t) /\ AnalyticsSelect(t)
    /\ selects' = selects + 1
    /\ UNCHANGED <<clicks, events>>

---------------------------------------------------------------------------
\* A step of one panel leaves the tab and the others alone.
KeepExceptJobs == UNCHANGED <<tab, tasksVars, configsVars, skillsVars, settingsVars, chatVars, analyticsVars>>
KeepExceptTasks == UNCHANGED <<tab, jobsVars, configsVars, skillsVars, settingsVars, chatVars, analyticsVars>>
KeepExceptConfigs == UNCHANGED <<tab, jobsVars, tasksVars, skillsVars, settingsVars, chatVars, analyticsVars>>
KeepExceptSkills == UNCHANGED <<tab, jobsVars, tasksVars, configsVars, settingsVars, chatVars, analyticsVars>>
KeepExceptSettings == UNCHANGED <<tab, jobsVars, tasksVars, configsVars, skillsVars, chatVars, analyticsVars>>
KeepExceptChat == UNCHANGED <<tab, jobsVars, tasksVars, configsVars, skillsVars, settingsVars, analyticsVars>>
KeepExceptAnalytics == UNCHANGED <<tab, jobsVars, tasksVars, configsVars, skillsVars, settingsVars, chatVars>>

User ==
    /\ clicks < MaxClicks[tab] /\ clicks' = clicks + 1
    /\ UNCHANGED <<selects, events>>
    /\ \/ JobsUser /\ KeepExceptJobs
       \/ TasksUser /\ KeepExceptTasks
       \/ ConfigsUser /\ KeepExceptConfigs
       \/ SkillsUser /\ KeepExceptSkills
       \/ SettingsUser /\ KeepExceptSettings
       \/ ChatUser /\ KeepExceptChat
       \/ AnalyticsUser /\ KeepExceptAnalytics

Fail ==
    /\ events < MaxEvents[tab] /\ events' = events + 1
    /\ UNCHANGED <<clicks, selects>>
    /\ \/ JobsFail /\ KeepExceptJobs
       \/ TasksFail /\ KeepExceptTasks
       \/ ConfigsFail /\ KeepExceptConfigs
       \/ SkillsFail /\ KeepExceptSkills
       \/ SettingsFail /\ KeepExceptSettings
       \/ ChatFail /\ KeepExceptChat
       \/ AnalyticsFail /\ KeepExceptAnalytics

\* What happens at the server besides what the console asks of it.
Event ==
    /\ events < MaxEvents[tab] /\ events' = events + 1
    /\ UNCHANGED <<clicks, selects>>
    /\ \/ JobsServer /\ KeepExceptJobs
       \/ TasksServer /\ KeepExceptTasks
       \/ ServerRestarts /\ UNCHANGED <<skillsLocal, skillCalls>> /\ KeepExceptSkills

\* The server works on the requests and on the generations it has started.
Server ==
    /\ UNCHANGED bounds
    /\ \/ (\E op \in JobOps : JobsServe(op)) /\ KeepExceptJobs
       \/ (\E op \in TaskOps : TasksServe(op)) /\ KeepExceptTasks
       \/ (\E op \in ConfigOps : ConfigsServe(op)) /\ KeepExceptConfigs
       \/ (\E op \in SkillOps : SkillsServe(op)) /\ KeepExceptSkills
       \/ GeneratorEnds /\ UNCHANGED <<skillsLocal, skillCalls>> /\ KeepExceptSkills
       \/ (\E op \in SettingOps : SettingsServe(op)) /\ KeepExceptSettings
       \/ (\E op \in ChatOps : ChatServe(op)) /\ KeepExceptChat
       \/ (\E op \in ReportOps : AnalyticsServe(op)) /\ KeepExceptAnalytics

\* Answers arrive and intervals elapse.
Browser ==
    /\ UNCHANGED bounds
    /\ \/ ((\E op \in JobOps : JobsDeliver(op)) \/ JobsPoll) /\ KeepExceptJobs
       \/ ((\E op \in TaskOps : TasksDeliver(op)) \/ TasksPoll) /\ KeepExceptTasks
       \/ (\E op \in ConfigOps : ConfigsDeliver(op)) /\ KeepExceptConfigs
       \/ ((\E op \in SkillOps : SkillsDeliver(op)) \/ SkillsPoll) /\ KeepExceptSkills
       \/ (\E op \in SettingOps : SettingsDeliver(op)) /\ KeepExceptSettings
       \/ (\E op \in ChatOps : ChatDeliver(op)) /\ KeepExceptChat
       \/ (\E op \in ReportOps : AnalyticsDeliver(op)) /\ KeepExceptAnalytics

ConsoleNext == (\E t \in Visited : SelectTab(t)) \/ User \/ Fail \/ Event \/ Server \/ Browser

ConsoleSpec == ConsoleInit /\ [][ConsoleNext]_vars

---------------------------------------------------------------------------
(***************************************************************************)
(* Fairness.  Intervals elapse while their panel is mounted, the server    *)
(* works on every kind of request and its answers arrive: fetchJSON waits  *)
(* for none longer than its timeout, and a poll that was given up is asked *)
(* again.  A generation ends, at the latest after 30 minutes.  Nothing is  *)
(* assumed of the admin, the workers, the failures or a restart.           *)
(***************************************************************************)
FairJobs ==
    /\ WF_vars(JobsPoll /\ KeepExceptJobs /\ UNCHANGED bounds)
    /\ WF_vars(JobsServe("list") /\ KeepExceptJobs /\ UNCHANGED bounds)
    /\ WF_vars(JobsDeliver("list") /\ KeepExceptJobs /\ UNCHANGED bounds)
    /\ WF_vars((\E op \in JobOps \ {"list"} : JobsServe(op)) /\ KeepExceptJobs /\ UNCHANGED bounds)
    /\ WF_vars((\E op \in JobOps \ {"list"} : JobsDeliver(op)) /\ KeepExceptJobs /\ UNCHANGED bounds)

FairTasks ==
    /\ WF_vars(TasksPoll /\ KeepExceptTasks /\ UNCHANGED bounds)
    /\ \A op \in {"list", "detail"} :
          /\ WF_vars(TasksServe(op) /\ KeepExceptTasks /\ UNCHANGED bounds)
          /\ WF_vars(TasksDeliver(op) /\ KeepExceptTasks /\ UNCHANGED bounds)
    /\ WF_vars((\E op \in TaskWrites : TasksServe(op)) /\ KeepExceptTasks /\ UNCHANGED bounds)
    /\ WF_vars((\E op \in TaskWrites : TasksDeliver(op)) /\ KeepExceptTasks /\ UNCHANGED bounds)

FairSkills ==
    /\ WF_vars(SkillsPoll /\ KeepExceptSkills /\ UNCHANGED bounds)
    /\ WF_vars(SkillsServe("status") /\ KeepExceptSkills /\ UNCHANGED bounds)
    /\ WF_vars(SkillsDeliver("status") /\ KeepExceptSkills /\ UNCHANGED bounds)
    /\ WF_vars((\E op \in SkillOps \ {"status"} : SkillsServe(op)) /\ KeepExceptSkills /\ UNCHANGED bounds)
    /\ WF_vars((\E op \in SkillOps \ {"status"} : SkillsDeliver(op)) /\ KeepExceptSkills /\ UNCHANGED bounds)
    /\ WF_vars(GeneratorEnds /\ UNCHANGED <<skillsLocal, skillCalls>> /\ KeepExceptSkills /\ UNCHANGED bounds)

FairConsole == ConsoleSpec /\ FairJobs /\ FairTasks /\ FairSkills

---------------------------------------------------------------------------
\* The types of all panels.
ConsoleTypeOK ==
    /\ tab \in Tabs
    /\ JobsTypeOK /\ TasksTypeOK /\ ConfigsTypeOK /\ SkillsTypeOK /\ SettingsTypeOK /\ ChatTypeOK
    /\ AnalyticsTypeOK

\* The flags for a job's detail, for saving and testing a configuration, for a
\* generation, a probe and a report, with the buttons they disable, are true of
\* the requests that are open, across answers, failures, timeouts and tab
\* changes: none stays set with nothing under way, or is cleared too early.
BusyTells == DetailBusyTells /\ ConfigsBusyTells /\ GeneratingTells /\ ProbeBusyTells /\ CreatingTells

=============================================================================
