----------------------------- MODULE MCConsole ------------------------------
\* Instances of the console for TLC.
EXTENDS Console

MCPageSizes == {1, 2}
MCProjects == {1, 2}
MCTaskFilters == {"queued"}
MCAlertConfigs == {"prod", "test"}

\* Two groups: a secret and a model that are stored, a model that is not and
\* has a default.
MCKeys == {"gitea_token", "model", "claude_model"}
MCSecretKeys == {"gitea_token"}
MCDefaultKeys == {"claude_model"}
MCStoredKeys == {"gitea_token", "model"}
MCGroups == {{"gitea_token", "model"}, {"claude_model"}}
MCReviewerKey == [codex |-> "model", claude |-> "claude_model"]

\* How much the admin has done in all when he last clicks in a tab: in the
\* panels that watch something change by itself, in all of them, and only in
\* the one of the alert configurations.
WatchTabs == {"jobs", "alert_tasks", "skills"}
ConfigTabs == {"alert_configs"}
WatchClicks == [t \in Tabs |-> IF t \notin WatchTabs THEN 0 ELSE IF t = "alert_tasks" THEN 2 ELSE 3]
ConfigClicks == [t \in Tabs |-> IF t = "alert_configs" THEN 4 ELSE 0]
AllClicks == [t \in Tabs |-> IF t \in WatchTabs THEN 2 ELSE IF t = "alert_configs" THEN 5 ELSE 3]

\* Failures and what happens at the server, likewise: fewer where the first tab
\* multiplies the others, and where there are most clicks.
AllEvents == [t \in Tabs |-> IF t \in {"jobs", "alert_configs"} THEN 1 ELSE 2]
OneEvent == [t \in Tabs |-> 1]
NoEvents == [t \in Tabs |-> 0]

=============================================================================
