----------------------------- MODULE TasksPanel -----------------------------
(***************************************************************************)
(* The panel of alert analysis tasks: a filtered page of the task list and *)
(* a drawer with one task, both polled every 2 s (App.jsx,                 *)
(* AnalysisTasksPanel and AnalysisTaskDrawer), over the task handlers of   *)
(* the console server.                                                     *)
(*                                                                         *)
(* No answer is ever cancelled here: what an old answer spoils, the next   *)
(* polls have to repair.                                                   *)
(***************************************************************************)
EXTENDS ConsoleRequests

CONSTANTS
    AlertConfigs,  \* the alert configurations tasks are made for
    StartTasks,    \* bound: tasks the server has at first
    MaxTasks,      \* bound: tasks the server ever has
    MaxTaskPage,   \* bound: the last page the admin turns to
    TaskPageSize,  \* page_size of load
    TaskFilters,   \* bound: the statuses the admin filters by
    LinkedTask     \* the task of the link the console was opened by, or None

ASSUME TasksAssumption ==
    /\ StartTasks \in Nat /\ MaxTasks \in Nat /\ MaxTaskPage \in Nat \ {0} /\ TaskPageSize \in Nat \ {0}
    /\ LinkedTask \in Nat \cup {None}
    /\ AlertConfigs # {} /\ None \notin AlertConfigs

VARIABLES
    tasks,       \* the task table: id -> config and status
    taskView,    \* page, status and configId; None for every status or config
    taskRows,    \* tasks, hasMore and configs
    selectedTask,
    taskDetail,
    taskCalls

tasksLocal == <<taskView, taskRows, selectedTask, taskDetail>>
tasksVars == <<tasks, tasksLocal, taskCalls>>

TaskStatuses == {"queued", "running", "cancel_requested", "ended", "canceled"}
TaskWrites == {"cancel", "retry"}
TaskOps == {"list", "detail"} \cup TaskWrites

FirstTaskView == [page |-> 1, status |-> None, config |-> None]
NoTaskRows == [rows |-> {}, more |-> FALSE, configs |-> {}]

Task(i) == [id |-> i, status |-> tasks[i].status]
Alive(status) == status \in {"queued", "running", "cancel_requested"}

\* A page of the tasks that pass the filters, newest first.
TaskPage(view) ==
    LET passes(i) == view.status \in {None, tasks[i].status} /\ view.config \in {None, tasks[i].config}
        newer(i)  == Cardinality({j \in DOMAIN tasks : j > i /\ passes(j)})
        skipped   == (view.page - 1) * TaskPageSize
        passing   == {i \in DOMAIN tasks : passes(i)}
    IN  [rows    |-> {Task(i) : i \in {j \in passing : newer(j) \in skipped..(skipped + TaskPageSize - 1)}},
         more    |-> Cardinality(passing) > skipped + TaskPageSize,
         configs |-> AlertConfigs]

---------------------------------------------------------------------------
\* load() and loadDetail() with a view and a selection; without a selection
\* loadDetail() asks nothing.
LoadTasks(view) == {Ask("list", view, None)}
LoadDetail(sel) == IF sel = None THEN {} ELSE {Ask("detail", sel, None)}
\* Mutant: it does not clear the detail either.
DetailKept(sel) == taskDetail

DetailAfter(sel) == IF sel = None THEN None ELSE taskDetail

TasksInit ==
    /\ tasks = [i \in 1..StartTasks |-> [config |-> CHOOSE c \in AlertConfigs : TRUE, status |-> "queued"]]
    /\ taskView = FirstTaskView
    /\ taskRows = NoTaskRows
    /\ taskDetail = None
    /\ selectedTask = LinkedTask
    /\ taskCalls = IF tab = "alert_tasks" THEN LoadTasks(FirstTaskView) \cup LoadDetail(LinkedTask) ELSE {}

\* The tab becomes t.  A panel that is mounted opens the linked task again.
TasksSelect(t) ==
    IF (t = "alert_tasks") = (tab = "alert_tasks") THEN UNCHANGED tasksVars
    ELSE /\ taskView' = FirstTaskView
         /\ taskRows' = NoTaskRows
         /\ taskDetail' = None
         /\ selectedTask' = LinkedTask
         /\ taskCalls' = Orphans(taskCalls, TaskWrites) \cup
               (IF t = "alert_tasks" THEN LoadTasks(FirstTaskView) \cup LoadDetail(LinkedTask) ELSE {})
         /\ UNCHANGED tasks

\* Another page or filter: both effects depend on `load' and run again.
ViewTasks(view) ==
    /\ view # taskView
    /\ taskView' = view
    /\ taskDetail' = DetailAfter(selectedTask)
    /\ taskCalls' = taskCalls \cup LoadTasks(view) \cup LoadDetail(selectedTask)
    /\ UNCHANGED <<tasks, taskRows, selectedTask>>

TurnTaskPage ==
    \/ taskView.page > 1 /\ ViewTasks([taskView EXCEPT !.page = @ - 1])
    \/ taskRows.more /\ taskView.page < MaxTaskPage /\ ViewTasks([taskView EXCEPT !.page = @ + 1])

\* A filter is changed, the other one is kept.
StatusView(s) == [page |-> 1, status |-> s, config |-> taskView.config]
ConfigOnlyView(c) == [page |-> 1, status |-> taskView.status, config |-> c]
FilterTasks ==
    \/ \E s \in TaskFilters \cup {None} : ViewTasks(StatusView(s))
    \/ \E c \in taskRows.configs \cup {None} : ViewTasks(ConfigOnlyView(c))

RefreshTasks ==
    /\ taskCalls' = taskCalls \cup LoadTasks(taskView)
    /\ UNCHANGED <<tasks, tasksLocal>>

\* setSelectedId(sel): the effect of loadDetail runs when it is a change.
Selects(sel, calls) ==
    /\ selectedTask' = sel
    /\ taskDetail' = IF sel = selectedTask THEN taskDetail ELSE DetailAfter(sel)
    /\ taskCalls' = calls \cup (IF sel = selectedTask THEN {} ELSE LoadDetail(sel))

SelectTask ==
    /\ \E sel \in {r.id : r \in taskRows.rows} \cup {None} : sel # selectedTask /\ Selects(sel, taskCalls)
    /\ UNCHANGED <<tasks, taskView, taskRows>>

\* The buttons of the drawer act on the task it shows.
PressTask(op) ==
    /\ selectedTask # None /\ taskDetail # None
    /\ IF op = "cancel" THEN taskDetail.status \in {"queued", "running"} ELSE ~Alive(taskDetail.status)
    /\ taskCalls' = taskCalls \cup {Ask(op, taskDetail.id, [view |-> taskView, selected |-> selectedTask])}
    /\ UNCHANGED <<tasks, tasksLocal>>

TasksUser ==
    /\ tab = "alert_tasks" /\ Room(taskCalls)
    /\ TurnTaskPage \/ FilterTasks \/ RefreshTasks \/ SelectTask \/ (\E op \in TaskWrites : PressTask(op))

\* The interval of 2 s, set up again with every view and selection.
TasksPoll ==
    /\ tab = "alert_tasks" /\ Room(taskCalls)
    /\ taskCalls' = taskCalls \cup LoadTasks(taskView) \cup LoadDetail(selectedTask)
    /\ taskDetail' = DetailAfter(selectedTask)
    /\ UNCHANGED <<tasks, taskView, taskRows, selectedTask>>

---------------------------------------------------------------------------
\* The alerts that come in and the analysis workers; a running analysis that
\* is to be canceled notices.
NewTask == Cardinality(DOMAIN tasks) + 1
WithNewTask(config) ==
    [i \in DOMAIN tasks \cup {NewTask} |->
        IF i = NewTask THEN [config |-> config, status |-> "queued"] ELSE tasks[i]]

TasksServer ==
    /\ tab = "alert_tasks"
    /\ \/ NewTask <= MaxTasks /\ \E c \in AlertConfigs : tasks' = WithNewTask(c)
       \/ \E i \in DOMAIN tasks :
             \/ tasks[i].status = "queued" /\ tasks' = [tasks EXCEPT ![i].status = "running"]
             \/ tasks[i].status = "running" /\ tasks' = [tasks EXCEPT ![i].status = "ended"]
             \/ tasks[i].status = "cancel_requested" /\ tasks' = [tasks EXCEPT ![i].status = "canceled"]
    /\ UNCHANGED <<tasksLocal, taskCalls>>

\* RequestAnalysisTaskCancel and RetryAnalysisTask.  A refusal ends the
\* request: its answer changes nothing but the message.
Refused(c) == taskCalls' = taskCalls \ {c} /\ UNCHANGED tasks
ServeTaskCancel(c) ==
    /\ c.op = "cancel"
    /\ IF ~Alive(tasks[c.on].status) THEN Refused(c)
       ELSE /\ tasks' = [tasks EXCEPT ![c.on].status =
                              IF tasks[c.on].status = "queued" THEN "canceled" ELSE "cancel_requested"]
            /\ taskCalls' = AfterServing(taskCalls, c, None)
ServeRetry(c) ==
    /\ c.op = "retry"
    /\ IF Alive(tasks[c.on].status) \/ NewTask > MaxTasks THEN Refused(c)
       ELSE /\ tasks' = WithNewTask(tasks[c.on].config)
            /\ taskCalls' = AfterServing(taskCalls, c, [id |-> NewTask, status |-> "queued"])
ServeTaskRead(c) ==
    /\ c.op \notin TaskWrites
    /\ IF c.op = "detail" /\ c.on \notin DOMAIN tasks THEN Refused(c)
       ELSE /\ taskCalls' = AfterServing(taskCalls, c, IF c.op = "list" THEN TaskPage(c.on) ELSE Task(c.on))
            /\ UNCHANGED tasks

TasksServe(op) ==
    /\ \E c \in Unserved(taskCalls) : c.op = op /\ (ServeTaskCancel(c) \/ ServeRetry(c) \/ ServeTaskRead(c))
    /\ UNCHANGED tasksLocal

---------------------------------------------------------------------------
DeliverTasks(c) ==
    /\ c.op = "list"
    /\ taskRows' = c.answer
    /\ taskCalls' = taskCalls \ {c}
    /\ UNCHANGED <<taskView, selectedTask, taskDetail>>

DeliverDetail(c) ==
    /\ c.op = "detail"
    /\ taskDetail' = c.answer
    /\ taskCalls' = taskCalls \ {c}
    /\ UNCHANGED <<taskView, taskRows, selectedTask>>

\* cancelTask and retryTask go on with the closures of their own render.
DeliverTaskCancel(c) ==
    /\ c.op = "cancel"
    /\ taskCalls' = (taskCalls \ {c}) \cup LoadTasks(c.from.view) \cup LoadDetail(c.from.selected)
    /\ UNCHANGED tasksLocal

DeliverRetry(c) ==
    /\ c.op = "retry"
    /\ Selects(c.answer.id, (taskCalls \ {c}) \cup LoadTasks(c.from.view))
    /\ UNCHANGED <<taskView, taskRows>>

TasksDeliver(op) ==
    /\ tab = "alert_tasks"
    /\ \E c \in Arrived(taskCalls) :
          /\ c.op = op
          /\ DeliverTasks(c) \/ DeliverDetail(c) \/ DeliverTaskCancel(c) \/ DeliverRetry(c)
    /\ UNCHANGED tasks

TasksFail ==
    /\ tab = "alert_tasks"
    /\ \E c \in Waiting(taskCalls) : taskCalls' \in GivenUp(taskCalls, c, TaskWrites)
    /\ UNCHANGED <<tasks, tasksLocal>>

TasksNext ==
    \/ \E t \in Tabs : TasksSelect(t) /\ tab' = t
    \/ /\ \/ TasksUser \/ TasksPoll \/ TasksServer \/ TasksFail
          \/ \E op \in TaskOps : TasksServe(op) \/ TasksDeliver(op)
       /\ UNCHANGED tab

TasksSpec == tab \in Tabs /\ TasksInit /\ [][TasksNext]_<<tab, tasksVars>>

---------------------------------------------------------------------------
TaskRecords == [id : Nat \ {0}, status : TaskStatuses]

\* The types of what the panel keeps.
TasksTypeOK ==
    /\ DOMAIN tasks \subseteq Nat \ {0}
    /\ \A i \in DOMAIN tasks : tasks[i] \in [config : AlertConfigs, status : TaskStatuses]
    /\ taskView.page \in Nat \ {0} /\ taskView.config \in AlertConfigs \cup {None}
    /\ taskRows.rows \subseteq TaskRecords /\ taskRows.configs \subseteq AlertConfigs
    /\ taskDetail \in TaskRecords \cup {None}
    /\ \A c \in taskCalls : c.op \in TaskOps /\ c.phase \in {"sent", "served", "orphan"}

\* When the admin and the server come to rest on the tab, the list is the page
\* that is chosen and the drawer shows the task that is selected with the
\* status it has: no answer is cancelled, the polls repair what an old one did.
TasksSettle ==
    <>[](tab = "alert_tasks") =>
        <>[](/\ taskRows = TaskPage(taskView)
             /\ taskDetail = IF selectedTask = None THEN None ELSE Task(selectedTask))

=============================================================================
