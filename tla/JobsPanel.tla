----------------------------- MODULE JobsPanel ------------------------------
(***************************************************************************)
(* The panel of review jobs: a page of the job list that is polled, and a  *)
(* drawer that shows one job (App.jsx, JobsPanel and JobLogsDrawer), over  *)
(* the job handlers of the console server.                                 *)
(*                                                                         *)
(* The detail of the drawer's job is fetched by an effect whose cleanup    *)
(* cancels it when the drawer moves on ("detail"); `refresh' fetches the   *)
(* job its closure remembers and nothing cancels that ("again").  The      *)
(* statistics and the messages are left out; that the statistics may fail, *)
(* and end a refresh early, is not.                                        *)
(***************************************************************************)
EXTENDS ConsoleRequests

CONSTANTS
    StartJobs, \* bound: jobs the server has at first
    MaxJobs,   \* bound: jobs the server ever has
    MaxPage,   \* bound: the last page the admin turns to
    PageSizes  \* the values of the page size selector

ASSUME JobsAssumption ==
    /\ StartJobs \in Nat /\ MaxJobs \in Nat /\ MaxPage \in Nat \ {0}
    /\ PageSizes \subseteq Nat \ {0} /\ \E s \in PageSizes : \A t \in PageSizes : s <= t

VARIABLES
    jobStatus,      \* the job table: id -> status, ids are 1, 2, ...
    jobView,        \* page and pageSize
    jobRows,        \* jobs and hasMore
    jobsBusy,       \* loading
    drawer,         \* drawerJobId
    shownJob,       \* selectedJob
    detailLoading,
    jobCalls

jobsLocal == <<jobView, jobRows, jobsBusy, drawer, shownJob, detailLoading>>
jobsVars == <<jobStatus, jobsLocal, jobCalls>>

JobStatuses == {"pending", "running", "ended", "canceled"}
JobWrites == {"rerun", "cancel"}
JobOps == {"list", "refresh", "stats", "detail", "again"} \cup JobWrites
FirstView == [page |-> 1, size |-> CHOOSE s \in PageSizes : \A t \in PageSizes : s <= t]
NoRows == [rows |-> {}, more |-> FALSE]

Jobs == DOMAIN jobStatus
Job(i) == [id |-> i, status |-> jobStatus[i]]

\* A page of the list, newest job first.
PageOf(view) ==
    LET newest == Cardinality(Jobs)
        skipped == (view.page - 1) * view.size
    IN  [rows |-> {Job(i) : i \in {j \in Jobs : j + skipped <= newest /\ newest < j + skipped + view.size}},
         more |-> newest > skipped + view.size]

Load(view, busy) == Ask("list", view, busy)

---------------------------------------------------------------------------
\* Mutant: the detail effect has no cleanup.
NoCleanup(calls) == calls

\* The cleanup of the detail effect: `cancelled = true'.
Cleanup(calls) == {c \in calls : c.op # "detail"}

\* setDrawerJobId(d) and the effect that runs when it is a change; `calls'
\* are the requests that are open besides.
MoveDrawer(d, calls) ==
    /\ drawer' = d
    /\ detailLoading' = (detailLoading \/ (d # drawer /\ d # None))
    /\ jobCalls' = IF d = drawer THEN calls
                   ELSE Cleanup(calls) \cup (IF d = None THEN {} ELSE {Ask("detail", d, None)})

\* refresh(), as the render whose closure is [view, drawer] would run it: the
\* list and the statistics together, then the job of the drawer.
RefreshAs(closure) == Ask("refresh", closure.view, closure.drawer)
Closure == [view |-> jobView, drawer |-> drawer]

---------------------------------------------------------------------------
JobsInit ==
    /\ jobStatus = [i \in 1..StartJobs |-> "pending"]
    /\ jobView = FirstView
    /\ jobRows = NoRows
    /\ drawer = None
    /\ shownJob = None
    /\ detailLoading = FALSE
    /\ jobsBusy = (tab = "jobs")
    /\ jobCalls = IF tab = "jobs" THEN {Load(FirstView, TRUE)} ELSE {}

\* The tab becomes t: the panel is mounted and loads its first page, is
\* unmounted and forgets everything, or stays.
JobsSelect(t) ==
    IF (t = "jobs") = (tab = "jobs") THEN UNCHANGED jobsVars
    ELSE /\ jobView' = FirstView
         /\ jobRows' = NoRows
         /\ drawer' = None
         /\ shownJob' = None
         /\ detailLoading' = FALSE
         /\ jobsBusy' = (t = "jobs")
         /\ jobCalls' = Orphans(jobCalls, JobWrites)
                        \cup (IF t = "jobs" THEN {Load(FirstView, TRUE)} ELSE {})
         /\ UNCHANGED jobStatus

\* Another page or page size: loadJobs has new dependencies, so the effect
\* loads the list again.
View(view) ==
    /\ view # jobView
    /\ jobView' = view
    /\ jobsBusy' = TRUE
    /\ jobCalls' = jobCalls \cup {Load(view, TRUE)}
    /\ UNCHANGED <<jobStatus, jobRows, drawer, shownJob, detailLoading>>

\* Mutant: the button is not disabled on the first page.
AlwaysPrevious == TRUE

HasPrevious == jobView.page > 1
TurnPage ==
    \/ HasPrevious /\ View([jobView EXCEPT !.page = @ - 1])
    \/ jobRows.more /\ jobView.page < MaxPage /\ View([jobView EXCEPT !.page = @ + 1])

ResizePage == \E s \in PageSizes : View([page |-> 1, size |-> s])

Refresh ==
    /\ ~jobsBusy
    /\ jobsBusy' = TRUE
    /\ jobCalls' = jobCalls \cup {RefreshAs(Closure)}
    /\ UNCHANGED <<jobStatus, jobView, jobRows, drawer, shownJob, detailLoading>>

OpenDrawer ==
    \E j \in jobRows.rows :
       /\ j.id # drawer
       /\ MoveDrawer(j.id, jobCalls)
       /\ UNCHANGED <<jobStatus, jobView, jobRows, jobsBusy, shownJob>>

CloseDrawer ==
    /\ drawer # None
    /\ MoveDrawer(None, jobCalls)
    /\ shownJob' = None
    /\ UNCHANGED <<jobStatus, jobView, jobRows, jobsBusy>>

\* The buttons of the drawer act on the job it shows.
Press(op) ==
    /\ drawer # None /\ ~detailLoading /\ shownJob # None
    /\ op = "cancel" => shownJob.status = "pending"
    /\ jobCalls' = jobCalls \cup {Ask(op, shownJob.id, Closure)}
    /\ UNCHANGED <<jobStatus, jobsLocal>>

JobsUser ==
    /\ tab = "jobs" /\ Room(jobCalls)
    /\ TurnPage \/ ResizePage \/ Refresh \/ OpenDrawer \/ CloseDrawer \/ (\E op \in JobWrites : Press(op))

\* The interval of 10 s, set up again with every view.
PolledView == jobView
JobsPoll ==
    /\ tab = "jobs" /\ Room(jobCalls)
    /\ jobCalls' = jobCalls \cup {Load(PolledView, FALSE)}
    /\ UNCHANGED <<jobStatus, jobsLocal>>

---------------------------------------------------------------------------
\* The server: the worker and the webhooks.
NewJob == Cardinality(Jobs) + 1
WithNewJob == [i \in Jobs \cup {NewJob} |-> IF i = NewJob THEN "pending" ELSE jobStatus[i]]

WorkOnJobs ==
    \/ \E i \in Jobs :
          \/ jobStatus[i] = "pending" /\ jobStatus' = [jobStatus EXCEPT ![i] = "running"]
          \/ jobStatus[i] = "running" /\ \E s \in {"ended", "pending"} : jobStatus' = [jobStatus EXCEPT ![i] = s]
    \/ NewJob <= MaxJobs /\ jobStatus' = WithNewJob

JobsServer == tab = "jobs" /\ WorkOnJobs /\ UNCHANGED <<jobsLocal, jobCalls>>

\* handleJobRerun inserts a new pending job; handleJobCancel cancels a job
\* that is pending.  A refusal (and a rerun past the bound) ends the request:
\* its answer changes nothing but the message.
ServeRerun(c) ==
    /\ c.op = "rerun"
    /\ \/ /\ NewJob <= MaxJobs
          /\ jobStatus' = WithNewJob
          /\ jobCalls' = AfterServing(jobCalls, c, [id |-> NewJob, status |-> "pending"])
       \/ NewJob > MaxJobs /\ jobCalls' = jobCalls \ {c} /\ UNCHANGED jobStatus
ServeCancel(c) ==
    /\ c.op = "cancel"
    /\ \/ /\ jobStatus[c.on] = "pending"
          /\ jobStatus' = [jobStatus EXCEPT ![c.on] = "canceled"]
          /\ jobCalls' = AfterServing(jobCalls, c, [id |-> c.on, status |-> "canceled"])
       \/ jobStatus[c.on] # "pending" /\ jobCalls' = jobCalls \ {c} /\ UNCHANGED jobStatus
ServeRead(c) ==
    /\ c.op \notin JobWrites
    /\ jobCalls' = AfterServing(jobCalls, c,
                      IF c.op \in {"detail", "again"} THEN Job(c.on) ELSE PageOf(c.on))
    /\ UNCHANGED jobStatus

JobsServe(op) ==
    /\ \E c \in Unserved(jobCalls) : c.op = op /\ (ServeRerun(c) \/ ServeCancel(c) \/ ServeRead(c))
    /\ UNCHANGED jobsLocal

---------------------------------------------------------------------------
\* The answer of a page of the list, asked for by the view, a poll or a
\* refresh, whatever the view is by now.
DeliverList(c) ==
    /\ c.op \in {"list", "refresh"}
    /\ jobRows' = c.answer
    /\ jobsBusy' = (jobsBusy /\ c.op = "list" /\ ~c.from)
    /\ jobCalls' = (jobCalls \ {c}) \cup
          (IF c.op = "refresh" THEN {Served(Ask("stats", None, c.from), None)} ELSE {})
    /\ UNCHANGED <<jobView, drawer, shownJob, detailLoading>>

\* The last of a refresh's first two requests has come.
DeliverStats(c) ==
    /\ c.op = "stats"
    /\ jobCalls' = (jobCalls \ {c}) \cup (IF c.from = None THEN {} ELSE {Ask("again", c.from, None)})
    /\ UNCHANGED jobsLocal

DeliverJob(c) ==
    /\ c.op \in {"detail", "again"}
    /\ shownJob' = c.answer
    /\ detailLoading' = (detailLoading /\ c.op # "detail")
    /\ jobCalls' = jobCalls \ {c}
    /\ UNCHANGED <<jobView, jobRows, jobsBusy, drawer>>

\* rerunJob moves the drawer to the new job, then runs the refresh of the
\* render in which the button was pressed.
DeliverRerun(c) ==
    /\ c.op = "rerun"
    /\ MoveDrawer(c.answer.id, (jobCalls \ {c}) \cup {RefreshAs(c.from)})
    /\ jobsBusy' = TRUE
    /\ UNCHANGED <<jobView, jobRows, shownJob>>

DeliverCancel(c) ==
    /\ c.op = "cancel"
    /\ shownJob' = c.answer
    /\ jobsBusy' = TRUE
    /\ jobCalls' = (jobCalls \ {c}) \cup {RefreshAs(c.from)}
    /\ UNCHANGED <<jobView, jobRows, drawer, detailLoading>>

JobsDeliver(op) ==
    /\ tab = "jobs"
    /\ \E c \in Arrived(jobCalls) :
          /\ c.op = op
          /\ DeliverList(c) \/ DeliverStats(c) \/ DeliverJob(c) \/ DeliverRerun(c) \/ DeliverCancel(c)
    /\ UNCHANGED jobStatus

\* What is left of a refresh whose statistics have failed.
AloneList(c) == [op |-> "list", on |-> c.on, from |-> TRUE, phase |-> c.phase, answer |-> c.answer]

\* A request is given up.  A list that fails does not stop its refresh, as
\* loadJobs catches it; failing statistics do, and the list stays alone.
JobsFail ==
    /\ tab = "jobs"
    /\ \E c \in Waiting(jobCalls) :
          \/ /\ jobCalls' \in IF c.op = "refresh"
                              THEN {(jobCalls \ {c}) \cup {Served(Ask("stats", None, c.from), None)}}
                              ELSE GivenUp(jobCalls, c, JobWrites)
             /\ jobsBusy' = (jobsBusy /\ c.op # "refresh" /\ ~(c.op = "list" /\ c.from))
             /\ detailLoading' = (detailLoading /\ c.op # "detail")
          \/ /\ c.op = "refresh"
             /\ jobCalls' = (jobCalls \ {c}) \cup {AloneList(c)}
             /\ UNCHANGED <<jobsBusy, detailLoading>>
    /\ UNCHANGED <<jobStatus, jobView, jobRows, drawer, shownJob>>

JobsNext ==
    \/ \E t \in Tabs : JobsSelect(t) /\ tab' = t
    \/ /\ \/ JobsUser \/ JobsPoll \/ JobsServer \/ JobsFail
          \/ \E op \in JobOps : JobsServe(op) \/ JobsDeliver(op)
       /\ UNCHANGED tab

JobsSpec == tab \in Tabs /\ JobsInit /\ [][JobsNext]_<<tab, jobsVars>>

---------------------------------------------------------------------------
JobRecords == [id : Nat \ {0}, status : JobStatuses]
JobViews == [page : Nat \ {0}, size : Nat \ {0}]

\* The types of what the panel keeps; a row, or the job of the drawer, is a
\* job of the table with a status it had.
JobsTypeOK ==
    /\ jobStatus \in [Jobs -> JobStatuses] /\ Jobs \subseteq Nat \ {0}
    /\ jobView \in JobViews
    /\ jobRows.rows \subseteq JobRecords /\ jobRows.more \in BOOLEAN
    /\ jobsBusy \in BOOLEAN /\ detailLoading \in BOOLEAN
    /\ shownJob \in JobRecords \cup {None}
    /\ drawer \in (Nat \ {0}) \cup {None}
    /\ \A c \in jobCalls : c.op \in JobOps /\ c.phase \in {"sent", "served", "orphan"}

\* The drawer says that it is loading as long as the detail of its own job is
\* asked for, and no longer: however many jobs were opened, closed and run
\* again meanwhile, the spinner is not left on, and not taken for an answer.
DetailBusyTells ==
    tab = "jobs" /\ drawer # None =>
        (detailLoading <=> \E c \in jobCalls : c.op = "detail" /\ c.on = drawer)

\* When the admin and the server come to rest on the jobs tab, the rows and
\* the pager are those of the page and the size that are chosen, whatever
\* order the answers of older pages came in.
RowsSettle == <>[](tab = "jobs") => <>[](jobRows = PageOf(jobView))

=============================================================================
