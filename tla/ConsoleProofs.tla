---------------------------- MODULE ConsoleProofs ---------------------------
(***************************************************************************)
(* Proofs about the panels that show lists and details (JobsPanel,         *)
(* TasksPanel, SkillsPanel, AnalyticsPanel), and about the console that is *)
(* composed of all panels (Console).                                       *)
(***************************************************************************)
EXTENDS Console, FormProofs, FiniteSetTheorems

---------------------------------------------------------------------------
(***************************************************************************)
(* Review jobs.  Whatever the panel keeps of a job is of a job of the      *)
(* table; the one request for a detail that an effect waits for is of the  *)
(* job in the drawer.                                                      *)
(***************************************************************************)
Rows == [id : Jobs, status : JobStatuses]
IsPage(p) == p.rows \subseteq Rows /\ p.more \in BOOLEAN

JobCall(c) ==
    /\ c = [op |-> c.op, on |-> c.on, from |-> c.from, phase |-> c.phase, answer |-> c.answer]
    /\ c.op \in JobOps /\ c.phase \in {"sent", "served", "orphan"}
    /\ c.phase = "orphan" => c.op \in JobWrites

\* What a request names, and what it is answered.
JobCallOf(c) ==
    /\ c.op \in {"list", "refresh"} => c.on \in JobViews /\ (c.phase = "served" => IsPage(c.answer))
    /\ c.op = "list" => c.from \in BOOLEAN
    /\ c.op \in {"refresh", "stats"} => c.from \in Jobs \cup {None}
    /\ c.op \in {"detail", "again"} \cup JobWrites => c.on \in Jobs /\ (c.phase = "served" => c.answer \in Rows)
    /\ c.op \in JobWrites => c.from.view \in JobViews /\ c.from.drawer \in Jobs \cup {None}

Details(calls) == {c \in calls : c.op = "detail"}

JobTableInv == jobStatus \in [Jobs -> JobStatuses] /\ IsFiniteSet(Jobs) /\ Jobs = 1..Cardinality(Jobs)
JobPageInv ==
    /\ jobView \in JobViews /\ IsPage(jobRows) /\ jobsBusy \in BOOLEAN /\ detailLoading \in BOOLEAN
    /\ shownJob \in Rows \cup {None} /\ drawer \in Jobs \cup {None}
JobCallsInv == \A c \in jobCalls : JobCall(c) /\ JobCallOf(c)
DetailInv ==
    /\ \A c \in Details(jobCalls) : c.on = drawer /\ drawer # None
    /\ \A c, d \in Details(jobCalls) : c = d
    /\ drawer # None => (detailLoading <=> Details(jobCalls) # {})
    /\ tab # "jobs" => drawer = None /\ \A c \in jobCalls : c.phase = "orphan"
JobsInv == JobTableInv /\ JobPageInv /\ JobCallsInv /\ DetailInv

\* The first page of the smallest size.
LEMMA FirstJobView == FirstView \in JobViews
  <1> DEFINE size == CHOOSE s \in PageSizes : \A t \in PageSizes : s <= t
  <1>1. \E s \in PageSizes : \A t \in PageSizes : s <= t
    BY JobsAssumption
  <1>2. size \in PageSizes
    BY <1>1
  <1>3. size \in Nat \ {0} /\ FirstView = [page |-> 1, size |-> size]
    BY <1>2, JobsAssumption DEF FirstView
  <1> HIDE DEF size
  <1> QED
    BY <1>3 DEF JobViews

\* A page of the table, and a job of it.
LEMMA PageTypes ==
    ASSUME JobTableInv
    PROVE  (\A view : IsPage(PageOf(view))) /\ (\A i \in Jobs : Job(i) \in Rows)
  <1>1. \A i \in Jobs : Job(i) \in Rows
    BY DEF JobTableInv, Job, Rows
  <1> QED
    BY <1>1 DEF IsPage, PageOf

\* A request of the panel that is sent.
LEMMA JobAsk ==
    ASSUME NEW op \in JobOps, NEW on, NEW from
    PROVE  /\ JobCall(Ask(op, on, from)) /\ Ask(op, on, from).phase = "sent"
           /\ Ask(op, on, from).op = op /\ Ask(op, on, from).on = on /\ Ask(op, on, from).from = from
  BY DEF JobCall, Ask

\* The request for a page of the list.
LEMMA LoadAsk ==
    ASSUME NEW view \in JobViews, NEW busy \in BOOLEAN
    PROVE  JobCall(Load(view, busy)) /\ JobCallOf(Load(view, busy)) /\ Load(view, busy).op = "list"
  <1>1. "list" \in JobOps
    BY DEF JobOps
  <1>2. Load(view, busy) = Ask("list", view, busy)
    BY DEF Load
  <1>3. JobCall(Load(view, busy)) /\ Load(view, busy).phase = "sent" /\ Load(view, busy).op = "list"
        /\ Load(view, busy).on = view /\ Load(view, busy).from = busy
    BY <1>1, <1>2, JobAsk
  <1> QED
    BY <1>3 DEF JobCallOf, JobWrites

\* A request that nobody waits for any more.
LEMMA JobOrphan ==
    ASSUME NEW c, JobCall(c), JobCallOf(c), c.op \in JobWrites, c.phase # "served"
    PROVE  LET d == [c EXCEPT !.phase = "orphan"]
           IN  JobCall(d) /\ JobCallOf(d) /\ d.phase = "orphan" /\ d.op = c.op
  <1>1. [c EXCEPT !.phase = "orphan"] =
           [op |-> c.op, on |-> c.on, from |-> c.from, phase |-> "orphan", answer |-> c.answer]
    BY DEF JobCall
  <1> QED
    BY <1>1 DEF JobCall, JobCallOf

\* What is of the table stays so when jobs are added and change their status.
LEMMA JobsGrow ==
    ASSUME JobsInv, JobTableInv', Jobs \subseteq Jobs'
    PROVE  /\ \A p : IsPage(p) => IsPage(p)'
           /\ \A c : JobCallOf(c) => JobCallOf(c)'
           /\ Rows \subseteq Rows'
  <1>1. Rows \subseteq Rows'
    BY DEF Rows
  <1>2. ASSUME NEW p, IsPage(p) PROVE IsPage(p)'
    BY <1>1, <1>2 DEF IsPage
  <1> QED
    BY <1>1, <1>2 DEF JobCallOf

\* The invariant holds at the start.
LEMMA JobsStart == ASSUME tab \in Tabs, JobsInit PROVE JobsInv
  <1>1. Jobs = 1..StartJobs /\ StartJobs \in Nat
    BY JobsAssumption DEF JobsInit, Jobs
  <1>2. IsFiniteSet(Jobs) /\ Cardinality(Jobs) = StartJobs
    BY <1>1, FS_Interval
  <1>3. JobTableInv
    BY <1>1, <1>2 DEF JobsInit, JobTableInv, JobStatuses
  <1>4. JobPageInv
    BY FirstJobView DEF JobsInit, JobPageInv, NoRows, IsPage
  <1> DEFINE first == Load(FirstView, TRUE)
  <1>5. JobCall(first) /\ JobCallOf(first) /\ first.op = "list"
    BY LoadAsk, FirstJobView
  <1>6. jobCalls = IF tab = "jobs" THEN {first} ELSE {}
    BY DEF JobsInit
  <1> HIDE DEF first
  <1>7. JobCallsInv /\ DetailInv
    BY <1>5, <1>6 DEF JobsInit, JobCallsInv, DetailInv, Details
  <1> QED
    BY <1>3, <1>4, <1>7 DEF JobsInv

\* The requests that are left when the panel is unmounted, and the first one
\* of a panel that is mounted.
LEMMA JobsSelectStep ==
    ASSUME JobsInv, NEW t \in Tabs, JobsSelect(t), tab' = t PROVE JobsInv'
  <1> USE DEF JobsInv
  <1>1. CASE (t = "jobs") = (tab = "jobs")
    <2>1. UNCHANGED jobsVars
      BY <1>1 DEF JobsSelect
    <2>2. tab' # "jobs" => tab # "jobs"
      BY <1>1
    <2> QED
      BY <2>1, <2>2 DEF jobsVars, jobsLocal, JobTableInv, Jobs, JobPageInv, IsPage, Rows, JobCallsInv, JobCallOf, DetailInv
  <1>2. CASE (t = "jobs") # (tab = "jobs")
    <2> DEFINE first == Load(FirstView, TRUE)
    <2>1. /\ jobView' = FirstView /\ jobRows' = NoRows /\ drawer' = None /\ shownJob' = None
          /\ detailLoading' = FALSE /\ jobsBusy' = (t = "jobs")
          /\ jobCalls' = Orphans(jobCalls, JobWrites) \cup (IF t = "jobs" THEN {first} ELSE {})
          /\ UNCHANGED jobStatus
      BY <1>2, Zenon DEF JobsSelect
    <2>2. \A c \in jobCalls : c.op \in JobWrites /\ c.phase # "served" =>
             LET d == [c EXCEPT !.phase = "orphan"]
             IN  JobCall(d) /\ JobCallOf(d) /\ d.phase = "orphan" /\ d.op = c.op
      BY JobOrphan DEF JobCallsInv
    <2>3. \A c \in Orphans(jobCalls, JobWrites) : JobCall(c) /\ JobCallOf(c) /\ c.phase = "orphan"
      BY <2>2 DEF Orphans, JobCallsInv
    <2>4. JobCall(first) /\ JobCallOf(first) /\ first.op = "list"
      BY LoadAsk, FirstJobView
    <2> HIDE DEF first
    <2>5. JobCallsInv'
      BY <2>1, <2>3, <2>4 DEF JobCallsInv, JobCallOf, IsPage, Rows, Jobs
    <2>6. Details(jobCalls') = {}
      BY <2>1, <2>3, <2>4 DEF Details, JobCall, JobWrites
    <2>7. DetailInv'
      BY <2>1, <2>3, <2>6 DEF DetailInv
    <2>8. JobPageInv'
      <3>1. IsPage(NoRows)'
        BY DEF IsPage, NoRows
      <3>2. jobsBusy' \in BOOLEAN
        BY <2>1
      <3> QED
        BY <2>1, <3>1, <3>2, FirstJobView DEF JobPageInv
    <2> QED
      BY <2>1, <2>5, <2>7, <2>8 DEF JobTableInv, Jobs
  <1> QED
    BY <1>1, <1>2

\* The drawer moves: `rest' are requests that were open, or new ones that are
\* not for a detail.
LEMMA MoveDrawerStep ==
    ASSUME JobsInv, NEW d \in Jobs \cup {None}, NEW rest, MoveDrawer(d, rest),
           Jobs' = Jobs, tab = "jobs", tab' = "jobs",
           Details(rest) = Details(jobCalls), \A c \in rest : JobCall(c) /\ JobCallOf(c)
    PROVE  /\ drawer' \in Jobs \cup {None} /\ detailLoading' \in BOOLEAN
           /\ \A c \in jobCalls' : JobCall(c) /\ JobCallOf(c)
           /\ DetailInv'
  <1> USE DEF JobsInv
  <1> DEFINE new == Ask("detail", d, None)
  <1>1. JobCall(new) /\ new.op = "detail" /\ new.on = d /\ new.phase = "sent" /\ (d \in Jobs => JobCallOf(new))
    BY JobAsk DEF JobOps, JobCallOf, JobWrites
  <1>2. /\ drawer' = d /\ detailLoading' = (detailLoading \/ (d # drawer /\ d # None))
        /\ jobCalls' = IF d = drawer THEN rest
                       ELSE Cleanup(rest) \cup (IF d = None THEN {} ELSE {new})
    BY DEF MoveDrawer
  <1> HIDE DEF new
  <1>3. detailLoading' \in BOOLEAN
    BY <1>2
  <1>4. \A c \in jobCalls' : JobCall(c) /\ JobCallOf(c)
    BY <1>1, <1>2 DEF Cleanup
  <1>5. Details(jobCalls') = IF d = drawer THEN Details(jobCalls) ELSE IF d = None THEN {} ELSE {new}
    BY <1>1, <1>2 DEF Details, Cleanup
  <1>6. DetailInv'
    <2>1. CASE d = drawer
      BY <1>2, <1>5, <2>1 DEF DetailInv
    <2>2. CASE d # drawer
      BY <1>1, <1>2, <1>5, <2>2 DEF DetailInv
    <2> QED
      BY <2>1, <2>2
  <1> QED
    BY <1>2, <1>3, <1>4, <1>6

\* A request that is not for a detail joins those that are open.
LEMMA JobAdded ==
    ASSUME JobsInv, NEW c, JobCall(c), JobCallOf(c), c.op # "detail", jobCalls' = jobCalls \cup {c},
           UNCHANGED <<jobStatus, drawer, detailLoading>>, tab = "jobs", tab' = "jobs"
    PROVE  JobCallsInv' /\ DetailInv'
  <1>1. Details(jobCalls') = Details(jobCalls)
    BY DEF Details
  <1>2. DetailInv'
    BY <1>1 DEF JobsInv, DetailInv
  <1>3. JobCallsInv'
    BY DEF JobsInv, JobCallsInv, JobCallOf, IsPage, Rows, Jobs
  <1> QED
    BY <1>2, <1>3

\* What the admin does.
LEMMA JobsUserStep ==
    ASSUME JobsInv, JobsUser, UNCHANGED tab PROVE JobsInv'
  <1> USE DEF JobsInv
  <1>0. tab = "jobs" /\ tab' = "jobs" /\ UNCHANGED jobStatus
    BY DEF JobsUser, TurnPage, View, ResizePage, Refresh, OpenDrawer, CloseDrawer, Press
  <1>1. JobTableInv' /\ Jobs' = Jobs /\ Rows' = Rows /\ (\A p : IsPage(p)' <=> IsPage(p))
    BY <1>0 DEF JobTableInv, Jobs, Rows, IsPage
  <1>2. ASSUME NEW view \in JobViews, View(view) PROVE JobsInv'
    <2> DEFINE c == Load(view, TRUE)
    <2>1. JobCall(c) /\ JobCallOf(c) /\ c.op = "list"
      BY LoadAsk
    <2>2. /\ jobCalls' = jobCalls \cup {c} /\ jobView' = view /\ jobsBusy' = TRUE
          /\ UNCHANGED <<jobStatus, jobRows, drawer, shownJob, detailLoading>>
      BY <1>2 DEF View
    <2> HIDE DEF c
    <2>3. JobCallsInv' /\ DetailInv'
      BY <1>0, <2>1, <2>2, JobAdded
    <2>4. JobPageInv'
      BY <1>1, <2>2 DEF JobPageInv
    <2> QED
      BY <1>1, <2>3, <2>4
  <1>3. CASE TurnPage
    <2>1. jobView.page \in Nat \ {0}
      BY DEF JobPageInv, JobViews
    <2>2. \/ jobView.page > 1 /\ View([jobView EXCEPT !.page = jobView.page - 1])
          \/ View([jobView EXCEPT !.page = jobView.page + 1])
      BY <1>3 DEF TurnPage, HasPrevious
    <2> DEFINE Turns(p) == View([jobView EXCEPT !.page = p])
    <2>3. jobView.page > 1 => jobView.page - 1 \in Nat \ {0}
      BY <2>1
    <2>4. jobView.page + 1 \in Nat \ {0}
      BY <2>1
    <2>5. (jobView.page > 1 /\ Turns(jobView.page - 1)) \/ Turns(jobView.page + 1)
      BY <2>2
    <2> HIDE DEF Turns
    <2>6. PICK p \in Nat \ {0} : Turns(p)
      BY <2>3, <2>4, <2>5
    <2>7. [jobView EXCEPT !.page = p] \in JobViews
      BY <2>6 DEF JobPageInv, JobViews
    <2> QED
      BY <1>2, <2>6, <2>7 DEF Turns
  <1>4. CASE ResizePage
    BY <1>2, <1>4, JobsAssumption DEF ResizePage, JobViews
  <1>5. CASE Refresh
    <2> DEFINE c == RefreshAs(Closure)
    <2>1. JobCall(c) /\ JobCallOf(c) /\ c.op = "refresh"
      BY JobAsk DEF RefreshAs, Closure, JobOps, JobCallOf, JobWrites, JobPageInv
    <2>2. /\ jobCalls' = jobCalls \cup {c} /\ jobsBusy' = TRUE
          /\ UNCHANGED <<jobStatus, jobView, jobRows, drawer, shownJob, detailLoading>>
      BY <1>5 DEF Refresh
    <2> HIDE DEF c
    <2>3. JobCallsInv' /\ DetailInv'
      BY <1>0, <2>1, <2>2, JobAdded
    <2>4. JobPageInv'
      BY <1>1, <2>2 DEF JobPageInv
    <2> QED
      BY <1>1, <2>3, <2>4
  <1>6. ASSUME NEW d \in Jobs \cup {None}, MoveDrawer(d, jobCalls), UNCHANGED <<jobView, jobRows, jobsBusy>>,
               shownJob' \in {shownJob, None}
        PROVE  JobsInv'
    <2>1. /\ drawer' \in Jobs \cup {None} /\ detailLoading' \in BOOLEAN
          /\ \A c \in jobCalls' : JobCall(c) /\ JobCallOf(c)
          /\ DetailInv'
      BY <1>0, <1>1, <1>6, MoveDrawerStep DEF JobCallsInv
    <2>2. JobCallsInv'
      BY <1>1, <2>1 DEF JobCallsInv, JobCallOf
    <2>3. JobPageInv'
      BY <1>1, <1>6, <2>1 DEF JobPageInv
    <2> QED
      BY <1>1, <2>1, <2>2, <2>3
  <1>7. CASE OpenDrawer
    <2>1. PICK j \in jobRows.rows : MoveDrawer(j.id, jobCalls) /\ UNCHANGED <<jobStatus, jobView, jobRows, jobsBusy, shownJob>>
      BY <1>7 DEF OpenDrawer
    <2>2. j.id \in Jobs
      BY <2>1 DEF JobPageInv, IsPage, Rows
    <2> QED
      BY <1>6, <2>1, <2>2
  <1>8. CASE CloseDrawer
    BY <1>6, <1>8 DEF CloseDrawer
  <1>9. ASSUME NEW op \in JobWrites, Press(op) PROVE JobsInv'
    <2> DEFINE c == Ask(op, shownJob.id, Closure)
    <2>1. shownJob.id \in Jobs /\ op \in JobOps
      BY <1>9 DEF Press, JobPageInv, Rows, JobOps
    <2>2. JobCall(c) /\ JobCallOf(c) /\ c.op # "detail"
      BY <2>1, JobAsk DEF Closure, JobCallOf, JobWrites, JobPageInv
    <2>3. jobCalls' = jobCalls \cup {c} /\ UNCHANGED <<jobStatus, jobsLocal>>
      BY <1>9 DEF Press
    <2> HIDE DEF c
    <2>4. JobCallsInv' /\ DetailInv'
      BY <1>0, <2>2, <2>3, JobAdded DEF jobsLocal
    <2>5. JobPageInv'
      BY <1>1, <2>3 DEF JobPageInv, jobsLocal
    <2> QED
      BY <1>1, <2>4, <2>5
  <1> QED
    BY <1>3, <1>4, <1>5, <1>7, <1>8, <1>9 DEF JobsUser

\* The interval of the list.
LEMMA JobsPollStep ==
    ASSUME JobsInv, JobsPoll, UNCHANGED tab PROVE JobsInv'
  <1> USE DEF JobsInv
  <1> DEFINE c == Load(PolledView, FALSE)
  <1>1. JobCall(c) /\ JobCallOf(c) /\ c.op = "list"
    BY LoadAsk DEF PolledView, JobPageInv
  <1>2. jobCalls' = jobCalls \cup {c} /\ UNCHANGED <<jobStatus, jobsLocal>> /\ tab = "jobs"
    BY DEF JobsPoll
  <1> HIDE DEF c
  <1>3. JobCallsInv' /\ DetailInv'
    BY <1>1, <1>2, JobAdded DEF jobsLocal
  <1> QED
    BY <1>2, <1>3 DEF jobsLocal, JobTableInv, Jobs, JobPageInv, IsPage, Rows

\* A job is added to the table.
LEMMA NewJobStep ==
    ASSUME JobTableInv, jobStatus' = WithNewJob
    PROVE  JobTableInv' /\ Jobs \subseteq Jobs' /\ NewJob \in Jobs'
  <1>1. NewJob \in Nat \ {0} /\ Cardinality(Jobs) \in Nat /\ NewJob = Cardinality(Jobs) + 1 /\ NewJob \notin Jobs
    BY FS_CardinalityType DEF JobTableInv, NewJob
  <1>2. Jobs' = Jobs \cup {NewJob}
    BY DEF WithNewJob, Jobs
  <1>3. IsFiniteSet(Jobs') /\ Cardinality(Jobs') = NewJob
    BY <1>1, <1>2, FS_AddElement DEF JobTableInv
  <1>4. Jobs' = 1..Cardinality(Jobs')
    BY <1>1, <1>2, <1>3 DEF JobTableInv
  <1>5. jobStatus' \in [Jobs' -> JobStatuses]
    BY <1>2 DEF WithNewJob, JobTableInv, JobStatuses
  <1> QED
    BY <1>2, <1>3, <1>4, <1>5 DEF JobTableInv

\* A job of the table changes its status.
LEMMA StatusStep ==
    ASSUME JobTableInv, NEW i \in Jobs, NEW s \in JobStatuses, jobStatus' = [jobStatus EXCEPT ![i] = s]
    PROVE  JobTableInv' /\ Jobs' = Jobs
  <1>1. Jobs' = Jobs
    BY DEF Jobs
  <1> QED
    BY <1>1 DEF JobTableInv

\* Workers and webhooks change the table only.
LEMMA JobsServerStep ==
    ASSUME JobsInv, WorkOnJobs, UNCHANGED <<tab, jobsLocal, jobCalls>> PROVE JobsInv'
  <1> USE DEF JobsInv
  <1>1. JobTableInv' /\ Jobs \subseteq Jobs'
    <2>1. CASE jobStatus' = WithNewJob
      BY <2>1, NewJobStep
    <2>2. CASE \E i \in Jobs, s \in JobStatuses : jobStatus' = [jobStatus EXCEPT ![i] = s]
      BY <2>2, StatusStep
    <2> QED
      BY <2>1, <2>2 DEF WorkOnJobs, JobStatuses
  <1>2. JobPageInv'
    BY <1>1, JobsGrow DEF JobPageInv, jobsLocal
  <1>3. JobCallsInv'
    BY <1>1, JobsGrow DEF JobCallsInv
  <1> QED
    BY <1>1, <1>2, <1>3 DEF DetailInv, Details, jobsLocal

\* The server answers.
LEMMA JobsServeStep ==
    ASSUME JobsInv, NEW op \in JobOps, JobsServe(op), UNCHANGED tab PROVE JobsInv'
  <1> USE DEF JobsInv
  <1>1. PICK c \in jobCalls : c.phase # "served" /\ (ServeRerun(c) \/ ServeCancel(c) \/ ServeRead(c))
    BY DEF JobsServe, Unserved
  <1>2. JobCall(c) /\ JobCallOf(c) /\ UNCHANGED jobsLocal
    BY DEF JobCallsInv, JobsServe
  <1>3. ASSUME JobTableInv', Jobs \subseteq Jobs', c.op # "detail", jobCalls' = jobCalls \ {c}
        PROVE  JobsInv'
    <2>1. JobCallsInv' /\ JobPageInv'
      BY <1>2, <1>3, JobsGrow DEF JobCallsInv, JobPageInv, jobsLocal
    <2>2. Details(jobCalls') = Details(jobCalls)
      BY <1>3 DEF Details
    <2> QED
      BY <1>2, <1>3, <2>1, <2>2 DEF DetailInv, jobsLocal
  <1>4. ASSUME JobTableInv', Jobs \subseteq Jobs', NEW answer, jobCalls' = AfterServing(jobCalls, c, answer),
               c.op \in {"list", "refresh"} => IsPage(answer)',
               c.op \in {"detail", "again"} \cup JobWrites => answer \in Rows'
        PROVE  JobsInv'
    <2> DEFINE d == Served(c, answer)
    <2>1. /\ d = [op |-> c.op, on |-> c.on, from |-> c.from, phase |-> "served", answer |-> answer]
          /\ jobCalls' = (jobCalls \ {c}) \cup (IF c.phase = "orphan" THEN {} ELSE {d})
      BY <1>4 DEF AfterServing, Served
    <2> HIDE DEF d
    <2>2. JobCallOf(c)'
      BY <1>2, <1>4, JobsGrow
    <2>3. JobCall(d) /\ JobCallOf(d)'
      BY <1>2, <1>4, <2>1, <2>2 DEF JobCall, JobCallOf
    <2>4. JobCallsInv' /\ JobPageInv'
      BY <1>2, <1>4, <2>1, <2>3, JobsGrow DEF JobCallsInv, JobPageInv, jobsLocal
    <2>5. Details(jobCalls') = (Details(jobCalls) \ {c}) \cup (IF c \in Details(jobCalls) THEN {d} ELSE {})
      BY <1>2, <2>1 DEF Details, JobCall, JobWrites
    <2>6. tab # "jobs" => \A e \in jobCalls' : e.phase = "orphan"
      BY <2>1 DEF DetailInv
    <2>7. \A e \in Details(jobCalls') : e.on = drawer /\ drawer # None
      BY <2>1, <2>5 DEF DetailInv
    <2>8. \A e, f \in Details(jobCalls') : e = f
      BY <2>5 DEF DetailInv
    <2>9. Details(jobCalls') = {} <=> Details(jobCalls) = {}
      BY <2>5
    <2>10. DetailInv'
      BY <1>2, <2>6, <2>7, <2>8, <2>9 DEF DetailInv, jobsLocal
    <2> QED
      BY <1>4, <2>4, <2>10
  <1>5. CASE ServeRerun(c)
    <2>1. c.op = "rerun"
      BY <1>5 DEF ServeRerun
    <2>2. CASE UNCHANGED jobStatus /\ jobCalls' = jobCalls \ {c}
      <3>1. JobTableInv' /\ Jobs' = Jobs
        BY <2>2 DEF JobTableInv, Jobs
      <3> QED
        BY <1>3, <2>1, <2>2, <3>1
    <2>3. CASE jobStatus' = WithNewJob /\ jobCalls' = AfterServing(jobCalls, c, [id |-> NewJob, status |-> "pending"])
      <3>1. JobTableInv' /\ Jobs \subseteq Jobs' /\ NewJob \in Jobs'
        BY <2>3, NewJobStep
      <3>2. [id |-> NewJob, status |-> "pending"] \in Rows'
        BY <3>1 DEF Rows, JobStatuses
      <3> QED
        BY <1>4, <2>1, <2>3, <3>1, <3>2
    <2> QED
      BY <1>5, <2>2, <2>3 DEF ServeRerun
  <1>6. CASE ServeCancel(c)
    <2>1. c.op = "cancel" /\ c.on \in Jobs
      BY <1>2, <1>6 DEF ServeCancel, JobCallOf, JobWrites
    <2>2. CASE UNCHANGED jobStatus /\ jobCalls' = jobCalls \ {c}
      <3>1. JobTableInv' /\ Jobs' = Jobs
        BY <2>2 DEF JobTableInv, Jobs
      <3> QED
        BY <1>3, <2>1, <2>2, <3>1
    <2>3. CASE /\ jobStatus' = [jobStatus EXCEPT ![c.on] = "canceled"]
               /\ jobCalls' = AfterServing(jobCalls, c, [id |-> c.on, status |-> "canceled"])
      <3>1. JobTableInv' /\ Jobs' = Jobs
        BY <2>1, <2>3, StatusStep DEF JobStatuses
      <3>2. [id |-> c.on, status |-> "canceled"] \in Rows'
        BY <2>1, <3>1 DEF Rows, JobStatuses
      <3> QED
        BY <1>4, <2>1, <2>3, <3>1, <3>2
    <2> QED
      BY <1>6, <2>2, <2>3 DEF ServeCancel
  <1>7. CASE ServeRead(c)
    <2>0. PICK answer : answer = IF c.op \in {"detail", "again"} THEN Job(c.on) ELSE PageOf(c.on)
      OBVIOUS
    <2>1. c.op \notin JobWrites /\ UNCHANGED jobStatus /\ jobCalls' = AfterServing(jobCalls, c, answer)
      BY <1>7, <2>0 DEF ServeRead
    <2>2. JobTableInv' /\ Jobs' = Jobs /\ Rows' = Rows
      BY <2>1 DEF JobTableInv, Jobs, Rows
    <2>3. c.op \in {"detail", "again"} => answer \in Rows'
      BY <1>2, <2>0, <2>2, PageTypes DEF JobCallOf
    <2>4. c.op \in {"list", "refresh"} => IsPage(answer)'
      <3>1. c.op \in {"list", "refresh"} => IsPage(answer)
        BY <2>0, PageTypes
      <3> QED
        BY <2>2, <3>1, JobsGrow
    <2> QED
      BY <1>4, <2>1, <2>2, <2>3, <2>4
  <1> QED
    BY <1>1, <1>5, <1>6, <1>7

\* What changes neither the details that are waited for nor the drawer.
LEMMA DetailStaysWaited ==
    ASSUME DetailInv, UNCHANGED <<drawer, detailLoading>>, tab = "jobs", tab' = "jobs",
           Details(jobCalls') = Details(jobCalls)
    PROVE  DetailInv'
  BY DEF DetailInv

\* Answers arrive.
LEMMA JobsDeliverStep ==
    ASSUME JobsInv, NEW op \in JobOps, JobsDeliver(op), UNCHANGED tab PROVE JobsInv'
  <1> USE DEF JobsInv
  <1>1. PICK c \in jobCalls : c.phase = "served"
            /\ (DeliverList(c) \/ DeliverStats(c) \/ DeliverJob(c) \/ DeliverRerun(c) \/ DeliverCancel(c))
    BY DEF JobsDeliver, Arrived
  <1>2. JobCall(c) /\ JobCallOf(c) /\ tab = "jobs" /\ tab' = "jobs" /\ UNCHANGED jobStatus
    BY DEF JobCallsInv, JobsDeliver
  <1>3. JobTableInv' /\ Jobs' = Jobs /\ Rows' = Rows /\ (\A p : IsPage(p)' <=> IsPage(p))
        /\ (\A d : JobCallOf(d)' <=> JobCallOf(d))
    BY <1>2 DEF JobTableInv, Jobs, Rows, IsPage, JobCallOf
  <1>4. CASE DeliverList(c)
    <2> DEFINE d == Served(Ask("stats", None, c.from), None)
    <2>1. d = [op |-> "stats", on |-> None, from |-> c.from, phase |-> "served", answer |-> None]
      BY DEF Served, Ask
    <2>2. /\ c.op \in {"list", "refresh"} /\ jobRows' = c.answer /\ UNCHANGED <<jobView, drawer, shownJob, detailLoading>>
          /\ jobsBusy' = (jobsBusy /\ c.op = "list" /\ ~c.from)
          /\ jobCalls' = (jobCalls \ {c}) \cup (IF c.op = "refresh" THEN {d} ELSE {})
      BY <1>4 DEF DeliverList
    <2> HIDE DEF d
    <2>3. c.op = "refresh" => JobCall(d) /\ JobCallOf(d) /\ d.op = "stats"
      BY <1>2, <2>1 DEF JobCall, JobCallOf, JobOps, JobWrites
    <2>4. JobCallsInv'
      BY <1>3, <2>2, <2>3 DEF JobCallsInv
    <2>5. Details(jobCalls') = Details(jobCalls)
      BY <2>2, <2>3 DEF Details
    <2>6. IsPage(c.answer) /\ jobsBusy' \in BOOLEAN
      BY <1>1, <1>2, <2>2 DEF JobCallOf
    <2> QED
      BY <1>2, <1>3, <2>2, <2>4, <2>5, <2>6, DetailStaysWaited DEF JobPageInv
  <1>5. CASE DeliverStats(c)
    <2> DEFINE d == Ask("again", c.from, None)
    <2>1. /\ c.op = "stats" /\ UNCHANGED jobsLocal
          /\ jobCalls' = (jobCalls \ {c}) \cup (IF c.from = None THEN {} ELSE {d})
      BY <1>5 DEF DeliverStats
    <2>2. c.from # None => JobCall(d) /\ JobCallOf(d) /\ d.op = "again"
      BY <1>2, <2>1, JobAsk DEF JobCallOf, JobOps, JobWrites
    <2> HIDE DEF d
    <2>3. JobCallsInv'
      BY <1>3, <2>1, <2>2 DEF JobCallsInv
    <2>4. Details(jobCalls') = Details(jobCalls)
      BY <2>1, <2>2 DEF Details
    <2> QED
      BY <1>2, <1>3, <2>1, <2>3, <2>4, DetailStaysWaited DEF JobPageInv, jobsLocal
  <1>6. CASE DeliverJob(c)
    <2>1. /\ c.op \in {"detail", "again"} /\ shownJob' = c.answer /\ jobCalls' = jobCalls \ {c}
          /\ detailLoading' = (detailLoading /\ c.op # "detail")
          /\ UNCHANGED <<jobView, jobRows, jobsBusy, drawer>>
      BY <1>6 DEF DeliverJob
    <2>2. c.answer \in Rows
      BY <1>1, <1>2, <2>1 DEF JobCallOf
    <2>3. JobCallsInv'
      BY <1>3, <2>1 DEF JobCallsInv
    <2>4. JobPageInv'
      BY <1>3, <2>1, <2>2 DEF JobPageInv
    <2>5. Details(jobCalls') = IF c.op = "detail" THEN {} ELSE Details(jobCalls)
      BY <2>1 DEF Details, DetailInv
    <2>6. DetailInv'
      BY <1>2, <2>1, <2>5 DEF DetailInv
    <2> QED
      BY <1>3, <2>3, <2>4, <2>6
  <1>7. ASSUME c.op \in JobWrites
        PROVE  /\ JobCall(RefreshAs(c.from)) /\ JobCallOf(RefreshAs(c.from)) /\ RefreshAs(c.from).op = "refresh"
               /\ c.answer \in Rows
    <2>1. c.from.view \in JobViews /\ c.from.drawer \in Jobs \cup {None} /\ c.answer \in Rows
      BY <1>1, <1>2, <1>7 DEF JobCallOf
    <2> QED
      BY <2>1, JobAsk DEF RefreshAs, JobCallOf, JobOps, JobWrites
  <1>8. CASE DeliverRerun(c)
    <2> DEFINE rest == (jobCalls \ {c}) \cup {RefreshAs(c.from)}
    <2>1. /\ c.op = "rerun" /\ MoveDrawer(c.answer.id, rest) /\ jobsBusy' = TRUE
          /\ UNCHANGED <<jobView, jobRows, shownJob>>
      BY <1>8 DEF DeliverRerun
    <2>2. \A d \in rest : JobCall(d) /\ JobCallOf(d)
      BY <1>7, <2>1 DEF JobCallsInv, JobWrites
    <2>3. Details(rest) = Details(jobCalls)
      BY <1>7, <2>1 DEF Details, JobWrites
    <2>4. c.answer.id \in Jobs
      BY <1>7, <2>1 DEF Rows, JobWrites
    <2> HIDE DEF rest
    <2>5. /\ drawer' \in Jobs \cup {None} /\ detailLoading' \in BOOLEAN
          /\ \A d \in jobCalls' : JobCall(d) /\ JobCallOf(d)
          /\ DetailInv'
      BY <1>2, <1>3, <2>1, <2>2, <2>3, <2>4, MoveDrawerStep
    <2>6. JobPageInv'
      BY <1>3, <2>1, <2>5 DEF JobPageInv
    <2> QED
      BY <1>3, <2>5, <2>6 DEF JobCallsInv
  <1>9. CASE DeliverCancel(c)
    <2>1. /\ c.op = "cancel" /\ shownJob' = c.answer /\ jobsBusy' = TRUE
          /\ jobCalls' = (jobCalls \ {c}) \cup {RefreshAs(c.from)}
          /\ UNCHANGED <<jobView, jobRows, drawer, detailLoading>>
      BY <1>9 DEF DeliverCancel
    <2>2. JobCallsInv'
      BY <1>3, <1>7, <2>1 DEF JobCallsInv, JobWrites
    <2>3. Details(jobCalls') = Details(jobCalls)
      BY <1>7, <2>1 DEF Details, JobWrites
    <2>4. JobPageInv'
      BY <1>3, <1>7, <2>1 DEF JobPageInv, JobWrites
    <2> QED
      BY <1>2, <1>3, <2>1, <2>2, <2>3, <2>4, DetailStaysWaited
  <1> QED
    BY <1>1, <1>4, <1>5, <1>6, <1>8, <1>9

\* A request fails or is given up.
LEMMA JobsFailStep ==
    ASSUME JobsInv, JobsFail, UNCHANGED tab PROVE JobsInv'
  <1> USE DEF JobsInv
  <1>1. tab = "jobs" /\ tab' = "jobs" /\ UNCHANGED <<jobStatus, jobView, jobRows, drawer, shownJob>>
    BY DEF JobsFail
  <1>2. JobTableInv' /\ Jobs' = Jobs /\ Rows' = Rows /\ (\A p : IsPage(p)' <=> IsPage(p))
        /\ (\A d : JobCallOf(d)' <=> JobCallOf(d))
    BY <1>1 DEF JobTableInv, Jobs, Rows, IsPage, JobCallOf
  <1>3. PICK c \in jobCalls :
          /\ c.phase # "orphan"
          /\ \/ /\ jobCalls' \in IF c.op = "refresh"
                              THEN {(jobCalls \ {c}) \cup {Served(Ask("stats", None, c.from), None)}}
                              ELSE GivenUp(jobCalls, c, JobWrites)
                /\ jobsBusy' = (jobsBusy /\ c.op # "refresh" /\ ~(c.op = "list" /\ c.from))
                /\ detailLoading' = (detailLoading /\ c.op # "detail")
             \/ /\ c.op = "refresh"
                /\ jobCalls' = (jobCalls \ {c}) \cup {AloneList(c)}
                /\ UNCHANGED <<jobsBusy, detailLoading>>
    BY DEF JobsFail, Waiting
  <1>4. JobCall(c) /\ JobCallOf(c)
    BY DEF JobCallsInv
  <1>5. PICK d : /\ jobCalls' = jobCalls \ {c} \/ jobCalls' = (jobCalls \ {c}) \cup {d}
                 /\ jobCalls' = jobCalls \ {c} \/ (JobCall(d) /\ JobCallOf(d) /\ d.op # "detail" /\ c.op # "detail")
    <2>1. CASE c.op = "refresh" /\ jobCalls' = (jobCalls \ {c}) \cup {Served(Ask("stats", None, c.from), None)}
      <3> DEFINE e == Served(Ask("stats", None, c.from), None)
      <3>1. e = [op |-> "stats", on |-> None, from |-> c.from, phase |-> "served", answer |-> None]
        BY DEF Served, Ask
      <3>2. JobCall(e) /\ JobCallOf(e) /\ e.op = "stats"
        BY <1>4, <2>1, <3>1 DEF JobCall, JobCallOf, JobOps, JobWrites
      <3> HIDE DEF e
      <3>3. c.op # "detail" /\ e.op # "detail" /\ jobCalls' = (jobCalls \ {c}) \cup {e}
        BY <2>1, <3>2 DEF e
      <3> QED
        BY <3>2, <3>3
    <2>2. CASE c.op # "refresh" /\ jobCalls' \in GivenUp(jobCalls, c, JobWrites)
      <3>1. jobCalls' = jobCalls \ {c}
            \/ (c.op \in JobWrites /\ c.phase = "sent" /\ jobCalls' = (jobCalls \ {c}) \cup {[c EXCEPT !.phase = "orphan"]})
        BY <2>2 DEF GivenUp
      <3>2. c.op \in JobWrites /\ c.phase = "sent" =>
               LET e == [c EXCEPT !.phase = "orphan"] IN JobCall(e) /\ JobCallOf(e) /\ e.op = c.op
        BY <1>4, JobOrphan
      <3> QED
        BY <3>1, <3>2 DEF JobWrites
    <2>3. CASE c.op = "refresh" /\ jobCalls' = (jobCalls \ {c}) \cup {AloneList(c)}
      <3>1. PICK b \in BOOLEAN : b = TRUE
        OBVIOUS
      <3> DEFINE e == [op |-> "list", on |-> c.on, from |-> b, phase |-> c.phase, answer |-> c.answer]
      <3>2. e = AloneList(c)
        BY <3>1 DEF AloneList
      <3>3. JobCall(e) /\ JobCallOf(e) /\ e.op = "list"
        BY <1>4, <2>3 DEF JobCall, JobCallOf, JobOps, JobWrites
      <3>4. jobCalls' = (jobCalls \ {c}) \cup {e}
        BY <2>3, <3>2
      <3> HIDE DEF e
      <3>5. c.op # "detail" /\ e.op # "detail"
        BY <2>3, <3>3
      <3> QED
        BY <3>3, <3>4, <3>5
    <2> QED
      BY <1>3, <2>1, <2>2, <2>3
  <1>6. JobCallsInv'
    BY <1>2, <1>5 DEF JobCallsInv
  <1>7. jobsBusy' \in BOOLEAN /\ detailLoading' \in BOOLEAN
    BY <1>3 DEF JobPageInv
  <1>8. JobPageInv'
    BY <1>1, <1>2, <1>7 DEF JobPageInv
  <1>9. detailLoading' = (detailLoading /\ c.op # "detail")
    BY <1>3 DEF JobPageInv
  <1>10. Details(jobCalls') = IF c.op = "detail" THEN {} ELSE Details(jobCalls)
    BY <1>5 DEF Details, DetailInv
  <1>11. DetailInv'
    BY <1>1, <1>9, <1>10 DEF DetailInv
  <1> QED
    BY <1>2, <1>6, <1>8, <1>11

\* Every step of the panel and of the server.
LEMMA JobsStep ==
    ASSUME JobsInv, [JobsNext]_<<tab, jobsVars>> PROVE JobsInv'
  <1>1. ASSUME NEW t \in Tabs, JobsSelect(t), tab' = t PROVE JobsInv'
    BY <1>1, JobsSelectStep
  <1>2. CASE JobsServer /\ UNCHANGED tab
    BY <1>2, JobsServerStep DEF JobsServer
  <1>3. CASE UNCHANGED <<tab, jobsVars>>
    BY <1>3 DEF jobsVars, jobsLocal, JobsInv, JobTableInv, Jobs, JobPageInv, IsPage, Rows, JobCallsInv, JobCallOf, DetailInv
  <1> QED
    BY <1>1, <1>2, <1>3, JobsUserStep, JobsPollStep, JobsServeStep, JobsDeliverStep, JobsFailStep DEF JobsNext

\* The invariant gives the types.
LEMMA JobsTyped == JobsInv => JobsTypeOK
  <1>1. ASSUME JobsInv PROVE Jobs \subseteq Nat \ {0}
    BY <1>1, FS_CardinalityType DEF JobsInv, JobTableInv
  <1> QED
    BY <1>1 DEF JobsInv, JobTableInv, JobPageInv, IsPage, Rows, JobRecords, JobCallsInv, JobCall, JobsTypeOK

\* What the panel of the jobs keeps is of its types.
THEOREM JobsTypeCorrect == JobsSpec => []JobsTypeOK
  <1>1. JobsInv => JobsTypeOK
    BY JobsTyped
  <1>2. tab \in Tabs /\ JobsInit => JobsInv
    BY JobsStart
  <1>3. JobsInv /\ [JobsNext]_<<tab, jobsVars>> => JobsInv'
    BY JobsStep
  <1> QED
    BY <1>1, <1>2, <1>3, PTL DEF JobsSpec

\* The invariant gives what the drawer says.
LEMMA JobsTells == JobsInv => DetailBusyTells
  BY DEF JobsInv, DetailInv, Details, DetailBusyTells

\* The drawer says that it is loading as long as the detail of its own job is
\* asked for.
THEOREM LoadingTrue == JobsSpec => []DetailBusyTells
  <1>1. JobsInv => DetailBusyTells
    BY JobsTells
  <1>2. tab \in Tabs /\ JobsInit => JobsInv
    BY JobsStart
  <1>3. JobsInv /\ [JobsNext]_<<tab, jobsVars>> => JobsInv'
    BY JobsStep
  <1> QED
    BY <1>1, <1>2, <1>3, PTL DEF JobsSpec

---------------------------------------------------------------------------
(***************************************************************************)
(* Alert analysis tasks: whatever the panel keeps of a task is of a task   *)
(* of the table.                                                           *)
(***************************************************************************)
StoredTasks == [config : AlertConfigs, status : TaskStatuses]
ShownTasks == [id : DOMAIN tasks, status : TaskStatuses]
IsTaskPage(p) == p.rows \subseteq ShownTasks /\ p.configs \subseteq AlertConfigs
IsTaskView(v) ==
    /\ v = [page |-> v.page, status |-> v.status, config |-> v.config]
    /\ v.page \in Nat \ {0} /\ v.config \in AlertConfigs \cup {None}

TaskCall(c) ==
    /\ c = [op |-> c.op, on |-> c.on, from |-> c.from, phase |-> c.phase, answer |-> c.answer]
    /\ c.op \in TaskOps /\ c.phase \in {"sent", "served", "orphan"}

TaskCallOf(c) ==
    /\ c.op \in TaskWrites => c.on \in DOMAIN tasks
    /\ c.op = "list" /\ c.phase = "served" => IsTaskPage(c.answer)
    /\ c.op = "detail" /\ c.phase = "served" => c.answer \in ShownTasks

TaskTableInv ==
    /\ IsFiniteSet(DOMAIN tasks) /\ DOMAIN tasks = 1..Cardinality(DOMAIN tasks)
    /\ tasks \in [DOMAIN tasks -> StoredTasks]
TaskPageInv == IsTaskView(taskView) /\ IsTaskPage(taskRows) /\ taskDetail \in ShownTasks \cup {None}
TaskCallsInv == \A c \in taskCalls : TaskCall(c) /\ TaskCallOf(c)
TasksInv == TaskTableInv /\ TaskPageInv /\ TaskCallsInv

\* What is of the table stays so when tasks are added and change their status.
LEMMA TasksGrow ==
    ASSUME DOMAIN tasks \subseteq DOMAIN tasks'
    PROVE  /\ ShownTasks \subseteq ShownTasks'
           /\ \A p : IsTaskPage(p) => IsTaskPage(p)'
           /\ \A c : TaskCallOf(c) => TaskCallOf(c)'
  <1>1. ShownTasks \subseteq ShownTasks'
    BY DEF ShownTasks
  <1>2. ASSUME NEW p, IsTaskPage(p) PROVE IsTaskPage(p)'
    BY <1>1, <1>2 DEF IsTaskPage
  <1> QED
    BY <1>1, <1>2 DEF TaskCallOf

\* The requests of load and loadDetail.
LEMMA TaskAsk ==
    /\ \A view : \A c \in LoadTasks(view) : TaskCall(c) /\ TaskCallOf(c)
    /\ \A sel : \A c \in LoadDetail(sel) : TaskCall(c) /\ TaskCallOf(c)
  BY DEF LoadTasks, LoadDetail, Ask, TaskCall, TaskCallOf, TaskOps, TaskWrites

\* A request that nobody waits for any more.
LEMMA TaskOrphan ==
    ASSUME NEW c, TaskCall(c), TaskCallOf(c)
    PROVE  TaskCall([c EXCEPT !.phase = "orphan"]) /\ TaskCallOf([c EXCEPT !.phase = "orphan"])
  <1>1. [c EXCEPT !.phase = "orphan"] =
           [op |-> c.op, on |-> c.on, from |-> c.from, phase |-> "orphan", answer |-> c.answer]
    BY DEF TaskCall
  <1> QED
    BY <1>1 DEF TaskCall, TaskCallOf

\* A page of the table, and a task of it.
LEMMA TaskPageTypes ==
    ASSUME TaskTableInv
    PROVE  (\A view : IsTaskPage(TaskPage(view))) /\ (\A i \in DOMAIN tasks : Task(i) \in ShownTasks)
  <1>1. \A i \in DOMAIN tasks : Task(i) \in ShownTasks
    BY DEF TaskTableInv, StoredTasks, Task, ShownTasks
  <1> QED
    BY <1>1 DEF IsTaskPage, TaskPage

\* The panel as it is mounted.
LEMMA FirstTasks ==
    IsTaskView(FirstTaskView) /\ IsTaskPage(NoTaskRows)
  BY DEF IsTaskView, FirstTaskView, IsTaskPage, NoTaskRows

\* The invariant holds at the start.
LEMMA TasksStart == ASSUME tab \in Tabs, TasksInit PROVE TasksInv
  <1>1. DOMAIN tasks = 1..StartTasks /\ StartTasks \in Nat
    BY TasksAssumption DEF TasksInit
  <1>2. IsFiniteSet(DOMAIN tasks) /\ Cardinality(DOMAIN tasks) = StartTasks
    BY <1>1, FS_Interval
  <1>3. (CHOOSE c \in AlertConfigs : TRUE) \in AlertConfigs
    BY TasksAssumption
  <1>4. tasks \in [DOMAIN tasks -> StoredTasks]
    BY <1>1, <1>3 DEF TasksInit, StoredTasks, TaskStatuses
  <1>5. TaskTableInv
    BY <1>1, <1>2, <1>4 DEF TaskTableInv
  <1>6. TaskPageInv
    BY FirstTasks DEF TasksInit, TaskPageInv
  <1>7. TaskCallsInv
    BY TaskAsk DEF TasksInit, TaskCallsInv
  <1> QED
    BY <1>5, <1>6, <1>7 DEF TasksInv

\* Steps of the browser: the table stays.
LEMMA TableStays ==
    ASSUME TaskTableInv, UNCHANGED tasks
    PROVE  /\ TaskTableInv' /\ ShownTasks' = ShownTasks
           /\ (\A p : IsTaskPage(p)' <=> IsTaskPage(p)) /\ (\A c : TaskCallOf(c)' <=> TaskCallOf(c))
  BY DEF TaskTableInv, ShownTasks, IsTaskPage, TaskCallOf

\* Opening and closing the tab.
LEMMA TasksSelectStep ==
    ASSUME TasksInv, NEW t \in Tabs, TasksSelect(t) PROVE TasksInv'
  <1> USE DEF TasksInv
  <1>1. CASE UNCHANGED tasksVars
    BY <1>1, TableStays DEF tasksVars, tasksLocal, TaskPageInv, TaskCallsInv
  <1>2. CASE ~UNCHANGED tasksVars
    <2>1. /\ taskView' = FirstTaskView /\ taskRows' = NoTaskRows /\ taskDetail' = None
          /\ taskCalls' = Orphans(taskCalls, TaskWrites) \cup
                (IF t = "alert_tasks" THEN LoadTasks(FirstTaskView) \cup LoadDetail(LinkedTask) ELSE {})
          /\ UNCHANGED tasks
      BY <1>2, Zenon DEF TasksSelect
    <2>2. \A c \in taskCalls : TaskCall([c EXCEPT !.phase = "orphan"]) /\ TaskCallOf([c EXCEPT !.phase = "orphan"])
      BY TaskOrphan DEF TaskCallsInv
    <2>3. \A c \in taskCalls' : TaskCall(c) /\ TaskCallOf(c)
      BY <2>1, <2>2, TaskAsk DEF TaskCallsInv, Orphans
    <2> QED
      BY <2>1, <2>3, FirstTasks, TableStays DEF TaskPageInv, TaskCallsInv
  <1> QED
    BY <1>1, <1>2

\* What the admin does, and the interval.
LEMMA TasksUserStep ==
    ASSUME TasksInv, TasksUser \/ TasksPoll PROVE TasksInv'
  <1> USE DEF TasksInv
  <1>0. UNCHANGED tasks
    BY DEF TasksUser, TasksPoll, TurnTaskPage, FilterTasks, ViewTasks, RefreshTasks, SelectTask, PressTask
  <1>1. ASSUME NEW view, IsTaskView(view), ViewTasks(view) PROVE TasksInv'
    <2>1. \A c \in taskCalls' : TaskCall(c) /\ TaskCallOf(c)
      BY <1>1, TaskAsk DEF ViewTasks, TaskCallsInv
    <2> QED
      BY <1>0, <1>1, <2>1, TableStays DEF ViewTasks, DetailAfter, TaskPageInv, TaskCallsInv
  <1>2. CASE TurnTaskPage
    <2>1. taskView.page \in Nat \ {0}
      BY DEF TaskPageInv, IsTaskView
    <2>2. ASSUME NEW p \in Nat \ {0} PROVE IsTaskView([taskView EXCEPT !.page = p])
      <3>1. [taskView EXCEPT !.page = p] = [page |-> p, status |-> taskView.status, config |-> taskView.config]
        BY DEF TaskPageInv, IsTaskView
      <3> QED
        BY <2>2, <3>1 DEF TaskPageInv, IsTaskView
    <2>3. CASE taskView.page > 1 /\ ViewTasks([taskView EXCEPT !.page = taskView.page - 1])
      <3>1. taskView.page - 1 \in Nat \ {0}
        BY <2>1, <2>3
      <3> QED
        BY <1>1, <2>2, <2>3, <3>1
    <2>4. CASE ViewTasks([taskView EXCEPT !.page = taskView.page + 1])
      <3>1. taskView.page + 1 \in Nat \ {0}
        BY <2>1
      <3> QED
        BY <1>1, <2>2, <2>4, <3>1
    <2> QED
      BY <1>2, <2>3, <2>4 DEF TurnTaskPage
  <1>3. CASE FilterTasks
    <2>1. ASSUME NEW s PROVE IsTaskView(StatusView(s))
      BY DEF TaskPageInv, IsTaskView, StatusView
    <2>2. ASSUME NEW c \in AlertConfigs \cup {None} PROVE IsTaskView(ConfigOnlyView(c))
      BY DEF TaskPageInv, IsTaskView, ConfigOnlyView
    <2>3. taskRows.configs \subseteq AlertConfigs
      BY DEF TaskPageInv, IsTaskPage
    <2> QED
      BY <1>1, <1>3, <2>1, <2>2, <2>3 DEF FilterTasks
  <1>4. CASE RefreshTasks
    BY <1>0, <1>4, TaskAsk, TableStays DEF RefreshTasks, tasksLocal, TaskPageInv, TaskCallsInv
  <1>5. CASE SelectTask
    <2>1. PICK sel : Selects(sel, taskCalls) /\ UNCHANGED <<tasks, taskView, taskRows>>
      BY <1>5 DEF SelectTask
    <2>2. \A c \in taskCalls' : TaskCall(c) /\ TaskCallOf(c)
      BY <2>1, TaskAsk DEF Selects, TaskCallsInv
    <2> QED
      BY <1>0, <2>1, <2>2, TableStays DEF Selects, DetailAfter, TaskPageInv, TaskCallsInv
  <1>6. ASSUME NEW op \in TaskWrites, PressTask(op) PROVE TasksInv'
    <2> DEFINE c == Ask(op, taskDetail.id, [view |-> taskView, selected |-> selectedTask])
    <2>1. taskDetail.id \in DOMAIN tasks
      BY <1>6 DEF PressTask, TaskPageInv, ShownTasks
    <2>2. TaskCall(c) /\ TaskCallOf(c)
      BY <2>1 DEF Ask, TaskCall, TaskCallOf, TaskOps, TaskWrites
    <2>3. taskCalls' = taskCalls \cup {c} /\ UNCHANGED tasksLocal
      BY <1>6 DEF PressTask
    <2> HIDE DEF c
    <2> QED
      BY <1>0, <2>2, <2>3, TableStays DEF tasksLocal, TaskPageInv, TaskCallsInv
  <1>7. CASE TasksPoll
    <2>1. \A c \in taskCalls' : TaskCall(c) /\ TaskCallOf(c)
      BY <1>7, TaskAsk DEF TasksPoll, TaskCallsInv
    <2> QED
      BY <1>0, <1>7, <2>1, TableStays DEF TasksPoll, DetailAfter, TaskPageInv, TaskCallsInv
  <1> QED
    BY <1>2, <1>3, <1>4, <1>5, <1>6, <1>7 DEF TasksUser

\* The table is extended by a task.
LEMMA NewTaskStep ==
    ASSUME TaskTableInv, NEW config \in AlertConfigs, tasks' = WithNewTask(config)
    PROVE  TaskTableInv' /\ DOMAIN tasks \subseteq DOMAIN tasks'
  <1>1. NewTask \in Nat \ {0} /\ Cardinality(DOMAIN tasks) \in Nat /\ NewTask = Cardinality(DOMAIN tasks) + 1
        /\ NewTask \notin DOMAIN tasks
    BY FS_CardinalityType DEF TaskTableInv, NewTask
  <1>2. DOMAIN tasks' = DOMAIN tasks \cup {NewTask}
    BY DEF WithNewTask
  <1>3. IsFiniteSet(DOMAIN tasks') /\ Cardinality(DOMAIN tasks') = NewTask
    BY <1>1, <1>2, FS_AddElement DEF TaskTableInv
  <1>4. DOMAIN tasks' = 1..Cardinality(DOMAIN tasks')
    BY <1>1, <1>2, <1>3 DEF TaskTableInv
  <1>5. [config |-> config, status |-> "queued"] \in StoredTasks
    BY DEF StoredTasks, TaskStatuses
  <1>6. tasks' \in [DOMAIN tasks' -> StoredTasks]
    BY <1>2, <1>5 DEF WithNewTask, TaskTableInv
  <1> QED
    BY <1>2, <1>3, <1>4, <1>6 DEF TaskTableInv

\* A task of the table changes its status.
LEMMA TaskStatusStep ==
    ASSUME TaskTableInv, NEW i \in DOMAIN tasks, NEW s \in TaskStatuses, tasks' = [tasks EXCEPT ![i].status = s]
    PROVE  TaskTableInv' /\ DOMAIN tasks' = DOMAIN tasks
  <1>1. DOMAIN tasks' = DOMAIN tasks /\ tasks' = [tasks EXCEPT ![i] = [tasks[i] EXCEPT !.status = s]]
    OBVIOUS
  <1>2. [tasks[i] EXCEPT !.status = s] \in StoredTasks
    BY DEF TaskTableInv, StoredTasks
  <1>3. tasks' \in [DOMAIN tasks' -> StoredTasks]
    BY <1>1, <1>2 DEF TaskTableInv
  <1> QED
    BY <1>1, <1>3 DEF TaskTableInv

\* The panel is left alone while the table grows.
LEMMA TasksServerStep ==
    ASSUME TasksInv, TasksServer PROVE TasksInv'
  <1> USE DEF TasksInv
  <1>1. TaskTableInv' /\ DOMAIN tasks \subseteq DOMAIN tasks'
    <2>1. CASE \E c \in AlertConfigs : tasks' = WithNewTask(c)
      BY <2>1, NewTaskStep
    <2>2. CASE \E i \in DOMAIN tasks, s \in TaskStatuses : tasks' = [tasks EXCEPT ![i].status = s]
      BY <2>2, TaskStatusStep
    <2> QED
      BY <2>1, <2>2 DEF TasksServer, TaskStatuses
  <1>2. UNCHANGED <<tasksLocal, taskCalls>>
    BY DEF TasksServer
  <1> QED
    BY <1>1, <1>2, TasksGrow DEF tasksLocal, TaskPageInv, TaskCallsInv

\* The server answers.
LEMMA TasksServeStep ==
    ASSUME TasksInv, NEW op \in TaskOps, TasksServe(op) PROVE TasksInv'
  <1> USE DEF TasksInv
  <1>1. PICK c \in taskCalls : ServeTaskCancel(c) \/ ServeRetry(c) \/ ServeTaskRead(c)
    BY DEF TasksServe, Unserved
  <1>2. TaskCall(c) /\ TaskCallOf(c) /\ UNCHANGED tasksLocal
    BY DEF TaskCallsInv, TasksServe
  <1>3. CASE Refused(c)
    BY <1>2, <1>3, TableStays DEF Refused, tasksLocal, TaskPageInv, TaskCallsInv
  <1>4. ASSUME TaskTableInv', DOMAIN tasks \subseteq DOMAIN tasks', NEW answer,
               taskCalls' = AfterServing(taskCalls, c, answer),
               c.op = "list" => IsTaskPage(answer)', c.op = "detail" => answer \in ShownTasks'
        PROVE  TasksInv'
    <2> DEFINE d == Served(c, answer)
    <2>1. /\ d = [op |-> c.op, on |-> c.on, from |-> c.from, phase |-> "served", answer |-> answer]
          /\ taskCalls' = (taskCalls \ {c}) \cup (IF c.phase = "orphan" THEN {} ELSE {d})
      BY <1>4 DEF AfterServing, Served
    <2> HIDE DEF d
    <2>2. TaskCall(d) /\ TaskCallOf(d)'
      BY <1>2, <1>4, <2>1 DEF TaskCall, TaskCallOf
    <2>3. TaskCallsInv'
      BY <1>4, <2>1, <2>2, TasksGrow DEF TaskCallsInv
    <2> QED
      BY <1>2, <1>4, <2>3, TasksGrow DEF TaskPageInv, tasksLocal
  <1>5. CASE ServeTaskCancel(c) /\ ~Refused(c)
    <2>1. c.op = "cancel" /\ c.on \in DOMAIN tasks /\ taskCalls' = AfterServing(taskCalls, c, None)
      BY <1>2, <1>5 DEF ServeTaskCancel, TaskCallOf, TaskWrites
    <2>2. PICK s \in TaskStatuses : tasks' = [tasks EXCEPT ![c.on].status = s]
      BY <1>5 DEF ServeTaskCancel, TaskStatuses
    <2>3. TaskTableInv' /\ DOMAIN tasks' = DOMAIN tasks
      BY <2>1, <2>2, TaskStatusStep
    <2> QED
      BY <1>4, <2>1, <2>3
  <1>6. CASE ServeRetry(c) /\ ~Refused(c)
    <2>1. /\ c.op = "retry" /\ c.on \in DOMAIN tasks /\ tasks' = WithNewTask(tasks[c.on].config)
          /\ taskCalls' = AfterServing(taskCalls, c, [id |-> NewTask, status |-> "queued"])
      BY <1>2, <1>6 DEF ServeRetry, TaskCallOf, TaskWrites
    <2>2. tasks[c.on].config \in AlertConfigs
      BY <2>1 DEF TaskTableInv, StoredTasks
    <2>3. TaskTableInv' /\ DOMAIN tasks \subseteq DOMAIN tasks'
      BY <2>1, <2>2, NewTaskStep
    <2> QED
      BY <1>4, <2>1, <2>3
  <1>7. CASE ServeTaskRead(c) /\ ~Refused(c)
    <2>1. PICK answer : answer = IF c.op = "list" THEN TaskPage(c.on) ELSE Task(c.on)
      OBVIOUS
    <2>2. /\ taskCalls' = AfterServing(taskCalls, c, answer) /\ UNCHANGED tasks
          /\ c.op = "detail" => c.on \in DOMAIN tasks
      BY <1>7, <2>1 DEF ServeTaskRead
    <2>3. c.op = "list" => IsTaskPage(answer)
      BY <2>1, TaskPageTypes
    <2>4. c.op = "detail" => answer \in ShownTasks
      BY <2>1, <2>2, TaskPageTypes
    <2>5. TaskTableInv' /\ DOMAIN tasks' = DOMAIN tasks /\ (c.op = "list" => IsTaskPage(answer)')
          /\ (c.op = "detail" => answer \in ShownTasks')
      BY <2>2, <2>3, <2>4, TableStays
    <2> QED
      BY <1>4, <2>2, <2>5
  <1> QED
    BY <1>1, <1>3, <1>5, <1>6, <1>7

\* Answers arrive, and requests fail.
LEMMA TasksDeliverStep ==
    ASSUME TasksInv, (\E op \in TaskOps : TasksDeliver(op)) \/ TasksFail PROVE TasksInv'
  <1> USE DEF TasksInv
  <1>0. UNCHANGED tasks
    BY DEF TasksDeliver, TasksFail
  <1>1. CASE TasksFail
    <2>1. PICK c \in taskCalls : taskCalls' \in GivenUp(taskCalls, c, TaskWrites) /\ UNCHANGED tasksLocal
      BY <1>1 DEF TasksFail, Waiting
    <2>2. TaskCall([c EXCEPT !.phase = "orphan"]) /\ TaskCallOf([c EXCEPT !.phase = "orphan"])
      BY TaskOrphan DEF TaskCallsInv
    <2>3. \A d \in taskCalls' : TaskCall(d) /\ TaskCallOf(d)
      BY <2>1, <2>2 DEF GivenUp, TaskCallsInv
    <2> QED
      BY <1>0, <2>1, <2>3, TableStays DEF tasksLocal, TaskPageInv, TaskCallsInv
  <1>2. ASSUME NEW c \in taskCalls, c.phase = "served",
               DeliverTasks(c) \/ DeliverDetail(c) \/ DeliverTaskCancel(c) \/ DeliverRetry(c)
        PROVE  TasksInv'
    <2>1. \A d \in taskCalls' : TaskCall(d) /\ TaskCallOf(d)
      BY <1>2, TaskAsk DEF DeliverTasks, DeliverDetail, DeliverTaskCancel, DeliverRetry, Selects, TaskCallsInv
    <2>2. TaskCall(c) /\ TaskCallOf(c)
      BY DEF TaskCallsInv
    <2>3. IsTaskView(taskView') /\ IsTaskPage(taskRows') /\ taskDetail' \in ShownTasks \cup {None}
      <3>1. CASE DeliverTasks(c)
        BY <1>2, <2>2, <3>1 DEF DeliverTasks, TaskCallOf, TaskPageInv
      <3>2. CASE DeliverDetail(c)
        BY <1>2, <2>2, <3>2 DEF DeliverDetail, TaskCallOf, TaskPageInv
      <3>3. CASE DeliverTaskCancel(c)
        BY <3>3 DEF DeliverTaskCancel, tasksLocal, TaskPageInv
      <3>4. CASE DeliverRetry(c)
        BY <3>4 DEF DeliverRetry, Selects, DetailAfter, TaskPageInv
      <3> QED
        BY <1>2, <3>1, <3>2, <3>3, <3>4
    <2> QED
      BY <1>0, <2>1, <2>3, TableStays DEF TaskPageInv, TaskCallsInv
  <1> QED
    BY <1>1, <1>2 DEF TasksDeliver, Arrived

\* Every step of the panel and of the server.
LEMMA TasksStep ==
    ASSUME TasksInv, [TasksNext]_<<tab, tasksVars>> PROVE TasksInv'
  <1>1. CASE UNCHANGED <<tab, tasksVars>>
    BY <1>1, TableStays DEF tasksVars, tasksLocal, TasksInv, TaskPageInv, TaskCallsInv
  <1> QED
    BY <1>1, TasksSelectStep, TasksUserStep, TasksServerStep, TasksServeStep, TasksDeliverStep DEF TasksNext

\* The invariant gives the types.
LEMMA TasksTyped == TasksInv => TasksTypeOK
  <1>1. ASSUME TasksInv PROVE DOMAIN tasks \subseteq Nat \ {0}
    BY <1>1, FS_CardinalityType DEF TasksInv, TaskTableInv
  <1> QED
    BY <1>1 DEF TasksInv, TaskTableInv, StoredTasks, TaskPageInv, IsTaskView, IsTaskPage, ShownTasks, TaskRecords,
                TaskCallsInv, TaskCall, TasksTypeOK

\* What the panel of the tasks keeps is of its types.
THEOREM TasksTypeCorrect == TasksSpec => []TasksTypeOK
  <1>1. TasksInv => TasksTypeOK
    BY TasksTyped
  <1>2. tab \in Tabs /\ TasksInit => TasksInv
    BY TasksStart
  <1>3. TasksInv /\ [TasksNext]_<<tab, tasksVars>> => TasksInv'
    BY TasksStep
  <1> QED
    BY <1>1, <1>2, <1>3, PTL DEF TasksSpec

---------------------------------------------------------------------------
(***************************************************************************)
(* Project skills.  At most one generation is waited for: by the request   *)
(* that starts it, then by the poll; it is of the project selected, and so *)
(* is every detail that is still waited for.                               *)
(***************************************************************************)
SkillTaskRecords == [project : Projects, status : GenerationStates, version : Nat]

SkillCall(c) ==
    /\ c = [op |-> c.op, on |-> c.on, from |-> c.from, phase |-> c.phase, answer |-> c.answer]
    /\ c.op \in SkillOps /\ c.phase \in {"sent", "served", "orphan"}
    /\ c.phase = "orphan" => c.op \in SkillWrites
    /\ c.op \in SkillWrites => c.on \in Projects
    /\ c.op = "status" => c.on \in TaskIds

Starting(calls) == {c \in calls : c.op \in SkillWrites /\ c.phase # "orphan"}

TableInv ==
    /\ skillVersion \in [Projects -> Nat]
    /\ IsFiniteSet(TaskIds) /\ TaskIds = 1..Cardinality(TaskIds)
    /\ \A i \in TaskIds : skillTasks[i] \in SkillTaskRecords
SkillPageInv ==
    /\ selected \in Projects \cup {None} /\ skill \in Skills \cup {None}
    /\ projectsShown \in BOOLEAN /\ listIsNewer \in BOOLEAN /\ skillLoading \in BOOLEAN /\ generating \in BOOLEAN
SkillCallsInv == \A c \in skillCalls : SkillCall(c)
\* What is waited for is of the project selected.
SelectedInv ==
    /\ \A c \in skillCalls : c.op = "skill" =>
          c.on = selected /\ selected \in Projects
          /\ (c.phase = "served" => c.answer \in Skills /\ c.answer.project = selected)
    /\ \A c \in Starting(skillCalls) :
          c.on = selected
          /\ (c.phase = "served" /\ c.answer # None => c.answer \in TaskIds /\ skillTasks[c.answer].project = selected)
    /\ generationTask # None => generationTask \in TaskIds /\ skillTasks[generationTask].project = selected
    /\ \A c \in skillCalls : c.op = "status" =>
          c.on = generationTask
          /\ (c.phase = "served" /\ c.answer # None => c.answer \in SkillTaskRecords /\ c.answer.project = selected)
GeneratingInv ==
    /\ generating <=> generationTask # None \/ Starting(skillCalls) # {}
    /\ generationTask # None => Starting(skillCalls) = {}
    /\ \A c, d \in Starting(skillCalls) : c = d
    /\ generating => selected # None
    /\ tab # "skills" => ~generating /\ \A c \in skillCalls : c.phase = "orphan"
SkillsInv == TableInv /\ SkillPageInv /\ SkillCallsInv /\ SelectedInv /\ GeneratingInv

OfSelected == skill' # skill /\ skill' # None => skill'.project = selected'

\* The numbers of tasks are no null value.
LEMMA TaskNumbers == ASSUME TableInv PROVE TaskIds \subseteq Nat \ {0} /\ None \notin TaskIds /\ Cardinality(TaskIds) \in Nat
  <1>1. Cardinality(TaskIds) \in Nat
    BY FS_CardinalityType DEF TableInv
  <1> QED
    BY <1>1, SkillsAssumption DEF TableInv

\* The invariant holds at the start.
LEMMA SkillsStart == ASSUME tab \in Tabs, SkillsInit PROVE SkillsInv
  <1>1. TaskIds = {} /\ 1..0 = {}
    BY DEF SkillsInit, TaskIds
  <1>2. IsFiniteSet(TaskIds) /\ Cardinality(TaskIds) = 0
    BY <1>1, FS_EmptySet
  <1>3. TableInv
    BY <1>1, <1>2 DEF SkillsInit, TableInv
  <1>4. SkillPageInv
    BY DEF SkillsInit, SkillPageInv
  <1>5. SkillCallsInv /\ SelectedInv /\ GeneratingInv
    BY DEF SkillsInit, SkillCallsInv, SkillCall, SelectedInv, GeneratingInv, Starting, LoadProjects, Ask, SkillOps, SkillWrites
  <1> QED
    BY <1>3, <1>4, <1>5 DEF SkillsInv

\* A request that nobody waits for any more.
LEMMA SkillOrphan ==
    ASSUME NEW c, SkillCall(c), c.op \in SkillWrites
    PROVE  SkillCall([c EXCEPT !.phase = "orphan"])
           /\ [c EXCEPT !.phase = "orphan"].op = c.op /\ [c EXCEPT !.phase = "orphan"].phase = "orphan"
  <1>1. [c EXCEPT !.phase = "orphan"] =
           [op |-> c.op, on |-> c.on, from |-> c.from, phase |-> "orphan", answer |-> c.answer]
    BY DEF SkillCall
  <1> QED
    BY <1>1 DEF SkillCall

\* Opening and closing the tab.
LEMMA SkillsSelectStep ==
    ASSUME SkillsInv, NEW t \in Tabs, SkillsSelect(t), tab' = t PROVE SkillsInv' /\ OfSelected
  <1> USE DEF SkillsInv
  <1>1. CASE (t = "skills") = (tab = "skills")
    <2>1. UNCHANGED skillsVars
      BY <1>1 DEF SkillsSelect
    <2>2. tab' # "skills" => tab # "skills"
      BY <1>1
    <2> QED
      BY <2>1, <2>2 DEF skillsVars, skillsServer, skillsLocal, TableInv, TaskIds, SkillPageInv, SkillCallsInv, SkillCall,
                        SelectedInv, GeneratingInv, OfSelected
  <1>2. CASE (t = "skills") # (tab = "skills")
    <2>1. /\ projectsShown' = FALSE /\ listIsNewer' = FALSE
          /\ selected' = None /\ skill' = None /\ skillLoading' = FALSE
          /\ generating' = FALSE /\ generationTask' = None
          /\ skillCalls' = Orphans(skillCalls, SkillWrites) \cup (IF t = "skills" THEN {LoadProjects} ELSE {})
          /\ UNCHANGED skillVersion /\ UNCHANGED skillTasks
      BY <1>2, Zenon DEF SkillsSelect, skillsServer
    <2>2. \A c \in skillCalls : c.op \in SkillWrites =>
             SkillCall([c EXCEPT !.phase = "orphan"])
             /\ [c EXCEPT !.phase = "orphan"].op = c.op /\ [c EXCEPT !.phase = "orphan"].phase = "orphan"
      BY SkillOrphan DEF SkillCallsInv
    <2>3. \A c \in Orphans(skillCalls, SkillWrites) : SkillCall(c) /\ c.phase = "orphan"
      BY <2>2 DEF Orphans, SkillCallsInv
    <2>4. SkillCall(LoadProjects) /\ LoadProjects.op = "projects" /\ LoadProjects.phase = "sent"
      BY DEF SkillCall, LoadProjects, Ask, SkillOps, SkillWrites
    <2>5. SkillCallsInv'
      BY <2>1, <2>3, <2>4 DEF SkillCallsInv, SkillCall, TaskIds
    <2>6. Starting(skillCalls') = {} /\ \A c \in skillCalls' : c.op \notin {"skill", "status"}
      BY <2>1, <2>3, <2>4 DEF Starting, SkillCall, SkillWrites
    <2>7. SelectedInv' /\ GeneratingInv'
      BY <2>1, <2>3, <2>6 DEF SelectedInv, GeneratingInv, Starting
    <2> QED
      BY <2>1, <2>5, <2>7 DEF TableInv, TaskIds, SkillPageInv, OfSelected
  <1> QED
    BY <1>1, <1>2

\* What the admin does.
LEMMA SkillsUserStep ==
    ASSUME SkillsInv, SkillsUser, UNCHANGED tab PROVE SkillsInv' /\ OfSelected
  <1> USE DEF SkillsInv
  <1>0. tab = "skills" /\ UNCHANGED skillsServer
    BY DEF SkillsUser, PickProject, RefreshProjects, Generate
  <1>1. TableInv' /\ TaskIds' = TaskIds /\ skillTasks' = skillTasks
    BY <1>0 DEF skillsServer, TableInv, TaskIds
  <1>2. CASE PickProject
    <2>1. PICK p \in Projects : SelectProject(p)
      BY <1>2 DEF PickProject
    <2> DEFINE c == Ask("skill", p, None)
    <2>2. SkillCall(c) /\ c.op = "skill" /\ c.phase = "sent" /\ c.on = p
      BY DEF SkillCall, Ask, SkillOps, SkillWrites
    <2> HIDE DEF c
    <2>3. /\ ~generating /\ UNCHANGED <<projectsShown, skill, generating, generationTask>>
          /\ selected' = p /\ listIsNewer' = FALSE /\ skillLoading' = TRUE
          /\ skillCalls' = CleanupSkill(skillCalls) \cup {c}
      BY <1>2, <2>1 DEF PickProject, SelectProject, c
    <2>4. generationTask = None /\ Starting(skillCalls) = {} /\ Starting(skillCalls') = {}
      BY <2>2, <2>3 DEF GeneratingInv, Starting, CleanupSkill, SkillWrites
    <2>5. SkillCallsInv'
      BY <1>1, <2>2, <2>3 DEF SkillCallsInv, SkillCall, CleanupSkill
    <2>6. \A d \in skillCalls : d.op # "status"
      BY <1>1, <2>4, TaskNumbers DEF SelectedInv, SkillCallsInv, SkillCall
    <2>7. SelectedInv'
      BY <2>2, <2>3, <2>4, <2>6 DEF SelectedInv, CleanupSkill
    <2>8. GeneratingInv' /\ SkillPageInv' /\ OfSelected
      BY <1>0, <2>3, <2>4 DEF GeneratingInv, SkillPageInv, OfSelected
    <2> QED
      BY <1>1, <2>5, <2>7, <2>8
  <1>3. CASE RefreshProjects
    <2>1. SkillCall(LoadProjects) /\ LoadProjects.op = "projects" /\ LoadProjects.phase = "sent"
      BY DEF SkillCall, LoadProjects, Ask, SkillOps, SkillWrites
    <2>2. skillCalls' = skillCalls \cup {LoadProjects} /\ UNCHANGED skillsLocal
      BY <1>3 DEF RefreshProjects
    <2>3. Starting(skillCalls') = Starting(skillCalls)
      BY <2>1, <2>2 DEF Starting, SkillWrites
    <2>4. SkillCallsInv'
      BY <1>1, <2>1, <2>2 DEF SkillCallsInv, SkillCall
    <2>5. SelectedInv'
      BY <1>1, <2>1, <2>2, <2>3 DEF SelectedInv, skillsLocal
    <2>6. GeneratingInv' /\ SkillPageInv' /\ OfSelected
      BY <1>0, <2>2, <2>3 DEF GeneratingInv, SkillPageInv, OfSelected, skillsLocal
    <2> QED
      BY <1>1, <2>4, <2>5, <2>6
  <1>4. CASE Generate
    <2> DEFINE c == Ask("generate", selected, None)
    <2>1. /\ selected # None /\ ~generating /\ generating' = TRUE /\ generationTask' = None
          /\ skillCalls' = skillCalls \cup {c}
          /\ UNCHANGED <<projectsShown, listIsNewer, selected, skill, skillLoading>>
      BY <1>4 DEF Generate
    <2>2. SkillCall(c) /\ c.op = "generate" /\ c.phase = "sent" /\ c.on = selected
      BY <2>1 DEF SkillCall, Ask, SkillOps, SkillWrites, SkillPageInv
    <2> HIDE DEF c
    <2>3. generationTask = None /\ Starting(skillCalls') = {c}
      BY <2>1, <2>2 DEF GeneratingInv, Starting, SkillWrites
    <2>4. SkillCallsInv'
      BY <1>1, <2>1, <2>2 DEF SkillCallsInv, SkillCall
    <2>5. SelectedInv'
      BY <1>1, <2>1, <2>2, <2>3 DEF SelectedInv
    <2>6. GeneratingInv' /\ SkillPageInv' /\ OfSelected
      BY <1>0, <2>1, <2>3 DEF GeneratingInv, SkillPageInv, OfSelected
    <2> QED
      BY <1>1, <2>4, <2>5, <2>6
  <1> QED
    BY <1>2, <1>3, <1>4 DEF SkillsUser

\* The interval of the generation that is watched.
LEMMA SkillsPollStep ==
    ASSUME SkillsInv, SkillsPoll, UNCHANGED tab PROVE SkillsInv' /\ OfSelected
  <1> USE DEF SkillsInv
  <1> DEFINE c == Ask("status", generationTask, None)
  <1>1. /\ generationTask # None /\ skillCalls' = skillCalls \cup {c} /\ UNCHANGED skillsLocal
        /\ UNCHANGED skillsServer /\ tab = "skills"
    BY DEF SkillsPoll
  <1>2. TableInv' /\ TaskIds' = TaskIds /\ skillTasks' = skillTasks
    BY <1>1 DEF skillsServer, TableInv, TaskIds
  <1>3. SkillCall(c) /\ c.op = "status" /\ c.phase = "sent" /\ c.on = generationTask
    BY <1>1 DEF SkillCall, Ask, SkillOps, SkillWrites, SelectedInv
  <1> HIDE DEF c
  <1>4. Starting(skillCalls') = Starting(skillCalls)
    BY <1>1, <1>3 DEF Starting, SkillWrites
  <1>5. SkillCallsInv'
    BY <1>1, <1>2, <1>3 DEF SkillCallsInv, SkillCall
  <1>6. SelectedInv'
    BY <1>1, <1>2, <1>3, <1>4 DEF SelectedInv, skillsLocal
  <1>7. GeneratingInv' /\ SkillPageInv' /\ OfSelected
    BY <1>1, <1>4 DEF GeneratingInv, SkillPageInv, OfSelected, skillsLocal
  <1> QED
    BY <1>2, <1>5, <1>6, <1>7

\* Steps that change the tasks, but neither what they are of nor the requests.
LEMMA SkillTasksStep ==
    ASSUME SkillsInv, UNCHANGED <<tab, skillsLocal, skillCalls>>,
           TableInv', TaskIds \subseteq TaskIds',
           \A i \in TaskIds : skillTasks'[i].project = skillTasks[i].project
    PROVE  SkillsInv' /\ OfSelected
  <1> USE DEF SkillsInv
  <1>1. SkillCallsInv'
    BY DEF SkillCallsInv, SkillCall
  <1>2. Starting(skillCalls') = Starting(skillCalls)
    BY DEF Starting
  <1>3. SelectedInv'
    BY <1>2 DEF SelectedInv, skillsLocal
  <1>4. GeneratingInv' /\ SkillPageInv' /\ OfSelected
    BY <1>2 DEF GeneratingInv, SkillPageInv, OfSelected, skillsLocal
  <1> QED
    BY <1>1, <1>3, <1>4

\* A generation ends, and the process restarts.
LEMMA SkillsWorkStep ==
    ASSUME SkillsInv, GeneratorEnds \/ ServerRestarts, UNCHANGED <<tab, skillsLocal, skillCalls>>
    PROVE  SkillsInv' /\ OfSelected
  <1> USE DEF SkillsInv
  <1>1. CASE GeneratorEnds
    <2>1. PICK i \in TaskIds :
             /\ skillTasks[i].status = "running"
             /\ \/ LET p == skillTasks[i].project
                   IN  /\ skillVersion' = [skillVersion EXCEPT ![p] = @ + 1]
                       /\ skillTasks' = [skillTasks EXCEPT ![i].status = "done", ![i].version = skillVersion[p] + 1]
                \/ skillTasks' = [skillTasks EXCEPT ![i].status = "failed"] /\ UNCHANGED skillVersion
      BY <1>1 DEF GeneratorEnds
    <2>2. skillTasks[i] \in SkillTaskRecords
      BY <2>1 DEF TableInv
    <2>3. CASE skillTasks' = [skillTasks EXCEPT ![i].status = "failed"] /\ UNCHANGED skillVersion
      <3>1. TaskIds' = TaskIds /\ \A j \in TaskIds : skillTasks'[j] = IF j = i THEN [skillTasks[i] EXCEPT !.status = "failed"] ELSE skillTasks[j]
        BY <2>1, <2>3 DEF TaskIds
      <3>2. [skillTasks[i] EXCEPT !.status = "failed"] \in SkillTaskRecords
            /\ [skillTasks[i] EXCEPT !.status = "failed"].project = skillTasks[i].project
        BY <2>2 DEF SkillTaskRecords, GenerationStates
      <3>3. TableInv'
        BY <2>3, <3>1, <3>2 DEF TableInv
      <3> QED
        BY <3>1, <3>2, <3>3, SkillTasksStep
    <2>4. CASE LET p == skillTasks[i].project
               IN  /\ skillVersion' = [skillVersion EXCEPT ![p] = @ + 1]
                   /\ skillTasks' = [skillTasks EXCEPT ![i].status = "done", ![i].version = skillVersion[p] + 1]
      <3> DEFINE p == skillTasks[i].project
                 done == [skillTasks[i] EXCEPT !.status = "done", !.version = skillVersion[p] + 1]
      <3>1. TaskIds' = TaskIds /\ \A j \in TaskIds : skillTasks'[j] = IF j = i THEN done ELSE skillTasks[j]
        BY <2>1, <2>4 DEF TaskIds
      <3>2. p \in Projects /\ skillVersion[p] + 1 \in Nat
        BY <2>2 DEF SkillTaskRecords, TableInv
      <3>3. done \in SkillTaskRecords /\ done.project = p
        BY <2>2, <3>2 DEF SkillTaskRecords, GenerationStates
      <3>4. TableInv'
        BY <2>4, <3>1, <3>2, <3>3 DEF TableInv
      <3> QED
        BY <3>1, <3>3, <3>4, SkillTasksStep
    <2> QED
      BY <2>1, <2>3, <2>4
  <1>2. CASE ServerRestarts
    <2>1. TaskIds' = TaskIds /\ \A i \in TaskIds : skillTasks'[i] = [skillTasks[i] EXCEPT !.status = "gone"]
      BY <1>2 DEF ServerRestarts, TaskIds
    <2>2. \A i \in TaskIds : /\ [skillTasks[i] EXCEPT !.status = "gone"] \in SkillTaskRecords
                             /\ [skillTasks[i] EXCEPT !.status = "gone"].project = skillTasks[i].project
      BY DEF TableInv, SkillTaskRecords, GenerationStates
    <2>3. TableInv'
      BY <1>2, <2>1, <2>2 DEF ServerRestarts, TableInv
    <2> QED
      BY <2>1, <2>2, <2>3, SkillTasksStep
  <1> QED
    BY <1>1, <1>2

\* The server answers a request of the panel, or puts `d' in its place.
LEMMA SkillsAnswerStep ==
    ASSUME SkillsInv, UNCHANGED <<tab, skillsLocal>>,
           TableInv', TaskIds \subseteq TaskIds',
           \A i \in TaskIds : skillTasks'[i].project = skillTasks[i].project,
           NEW c \in skillCalls, NEW d, c.phase # "served",
           skillCalls' = (skillCalls \ {c}) \cup (IF c.phase = "orphan" /\ d.phase = "served" THEN {} ELSE {d}),
           d = [op |-> d.op, on |-> c.on, from |-> d.from, phase |-> d.phase, answer |-> d.answer],
           d.op = c.op \/ (c.op = "generate" /\ d.op = "create"),
           d.phase = "served" \/ (d.phase = c.phase /\ c.op = "generate"),
           d.phase = "served" =>
               /\ c.op = "skill" => d.answer \in Skills /\ d.answer.project = c.on
               /\ c.op \in SkillWrites /\ d.answer # None =>
                     d.answer \in TaskIds' /\ skillTasks'[d.answer].project = c.on
               /\ c.op = "status" /\ d.answer # None =>
                     d.answer \in SkillTaskRecords /\ d.answer.project = skillTasks[c.on].project
    PROVE  SkillsInv' /\ OfSelected
  <1> USE DEF SkillsInv
  <1>0. SkillCall(c)
    BY DEF SkillCallsInv
  <1>1. SkillCall(d)' /\ (d.op \in SkillWrites <=> c.op \in SkillWrites)
    BY <1>0 DEF SkillCall, SkillOps, SkillWrites
  <1>2. SkillCallsInv'
    BY <1>1 DEF SkillCallsInv, SkillCall
  <1>3. Starting(skillCalls') = (Starting(skillCalls) \ {c}) \cup (IF c \in Starting(skillCalls) THEN {d} ELSE {})
    BY <1>0, <1>1 DEF Starting, SkillCall, SkillWrites
  <1>4. SkillPageInv' /\ OfSelected
    BY DEF SkillPageInv, OfSelected, skillsLocal
  <1>5. GeneratingInv'
    <2>1. Starting(skillCalls') = {} <=> Starting(skillCalls) = {}
      BY <1>3 DEF Starting
    <2>2. \A e, f \in Starting(skillCalls') : e = f
      BY <1>3 DEF GeneratingInv
    <2>3. tab # "skills" => \A e \in skillCalls' : e.phase = "orphan"
      BY DEF GeneratingInv
    <2> QED
      BY <2>1, <2>2, <2>3 DEF GeneratingInv, skillsLocal
  <1>6. SelectedInv'
    <2>1. \A e \in Starting(skillCalls') :
             e.on = selected
             /\ (e.phase = "served" /\ e.answer # None => e.answer \in TaskIds' /\ skillTasks'[e.answer].project = selected)
      BY <1>3 DEF SelectedInv, Starting
    <2>2. \A e \in skillCalls' : e.op = "skill" =>
             e.on = selected /\ selected \in Projects
             /\ (e.phase = "served" => e.answer \in Skills /\ e.answer.project = selected)
      BY DEF SelectedInv
    <2>3. \A e \in skillCalls' : e.op = "status" =>
             e.on = generationTask
             /\ (e.phase = "served" /\ e.answer # None => e.answer \in SkillTaskRecords /\ e.answer.project = selected)
      BY <1>0, TaskNumbers DEF SelectedInv, SkillCall
    <2>4. generationTask # None => generationTask \in TaskIds' /\ skillTasks'[generationTask].project = selected
      BY DEF SelectedInv
    <2> QED
      BY <2>1, <2>2, <2>3, <2>4 DEF SelectedInv, skillsLocal
  <1> QED
    BY <1>2, <1>4, <1>5, <1>6

\* A generation is looked for, started, or asked about.
LEMMA SkillsServeStep ==
    ASSUME SkillsInv, NEW op \in SkillOps, SkillsServe(op), UNCHANGED tab PROVE SkillsInv' /\ OfSelected
  <1> USE DEF SkillsInv
  <1>1. PICK c \in skillCalls : c.phase # "served" /\ (ServeGenerate(c) \/ ServeCreateTask(c) \/ ServeSkillRead(c))
    BY DEF SkillsServe, Unserved
  <1>2. SkillCall(c) /\ UNCHANGED <<tab, skillsLocal>>
    BY DEF SkillCallsInv, SkillsServe
  <1>3. ASSUME NEW answer, skillCalls' = AfterServing(skillCalls, c, answer)
        PROVE  LET d == Served(c, answer)
               IN  /\ skillCalls' = (skillCalls \ {c}) \cup (IF c.phase = "orphan" /\ d.phase = "served" THEN {} ELSE {d})
                   /\ d = [op |-> d.op, on |-> c.on, from |-> d.from, phase |-> d.phase, answer |-> d.answer]
                   /\ d.op = c.op /\ d.phase = "served" /\ d.answer = answer
    BY <1>3 DEF AfterServing, Served
  <1>4. CASE ServeGenerate(c)
    <2>1. c.op = "generate" /\ UNCHANGED <<skillVersion, skillTasks>>
      BY <1>4 DEF ServeGenerate, skillsServer
    <2>2. TableInv' /\ TaskIds' = TaskIds
      BY <2>1 DEF TableInv, TaskIds
    <2>3. CASE \E i \in Running(c.on) : skillCalls' = AfterServing(skillCalls, c, i)
      <3>1. PICK i \in Running(c.on) : skillCalls' = AfterServing(skillCalls, c, i)
        BY <2>3
      <3>2. i \in TaskIds /\ skillTasks[i].project = c.on
        BY <3>1 DEF Running
      <3> DEFINE d == Served(c, i)
      <3>3. /\ skillCalls' = (skillCalls \ {c}) \cup (IF c.phase = "orphan" /\ d.phase = "served" THEN {} ELSE {d})
            /\ d = [op |-> d.op, on |-> c.on, from |-> d.from, phase |-> d.phase, answer |-> d.answer]
            /\ d.op = c.op /\ d.phase = "served" /\ d.answer = i
        BY <1>3, <3>1
      <3> HIDE DEF d
      <3> QED
        BY <1>1, <1>2, <2>1, <2>2, <3>2, <3>3, SkillsAnswerStep
    <2>4. CASE skillCalls' = (skillCalls \ {c}) \cup {[c EXCEPT !.op = "create"]}
      <3> DEFINE d == [c EXCEPT !.op = "create"]
      <3>1. d = [op |-> "create", on |-> c.on, from |-> c.from, phase |-> c.phase, answer |-> c.answer]
        BY <1>2 DEF SkillCall
      <3>2. /\ d.op = "create" /\ d.phase = c.phase
            /\ d = [op |-> d.op, on |-> c.on, from |-> d.from, phase |-> d.phase, answer |-> d.answer]
            /\ skillCalls' = (skillCalls \ {c}) \cup {d}
        BY <2>4, <3>1
      <3> HIDE DEF d
      <3> QED
        BY <1>1, <1>2, <2>1, <2>2, <3>2, SkillsAnswerStep
    <2> QED
      BY <1>4, <2>3, <2>4 DEF ServeGenerate
  <1>5. CASE ServeCreateTask(c)
    <2>1. c.op = "create" /\ UNCHANGED skillVersion /\ c.on \in Projects
      BY <1>2, <1>5 DEF ServeCreateTask, SkillCall, SkillWrites
    <2>2. PICK new : new = Cardinality(TaskIds) + 1
      OBVIOUS
    <2>3. CASE /\ skillTasks' = [i \in TaskIds \cup {new} |->
                     IF i = new THEN [project |-> c.on, status |-> "running", version |-> 0] ELSE skillTasks[i]]
               /\ skillCalls' = AfterServing(skillCalls, c, new)
      <3>1. new \in Nat \ {0} /\ new \notin TaskIds /\ Cardinality(TaskIds) \in Nat
        BY <2>2, TaskNumbers DEF TableInv
      <3>2. TaskIds' = TaskIds \cup {new}
        BY <2>3 DEF TaskIds
      <3>3. IsFiniteSet(TaskIds') /\ Cardinality(TaskIds') = new
        BY <2>2, <3>1, <3>2, FS_AddElement DEF TableInv
      <3>4. TaskIds' = 1..Cardinality(TaskIds')
        BY <2>2, <3>1, <3>2, <3>3 DEF TableInv
      <3>5. /\ skillTasks'[new] = [project |-> c.on, status |-> "running", version |-> 0]
            /\ \A i \in TaskIds : skillTasks'[i] = skillTasks[i]
        BY <2>3, <3>1
      <3>6. TableInv'
        <4>1. skillTasks'[new] \in SkillTaskRecords
          BY <2>1, <3>5 DEF SkillTaskRecords, GenerationStates
        <4>2. \A i \in TaskIds' : skillTasks'[i] \in SkillTaskRecords
          BY <3>2, <3>5, <4>1 DEF TableInv
        <4> QED
          BY <2>1, <3>3, <3>4, <4>2 DEF TableInv
      <3> DEFINE d == Served(c, new)
      <3>7. /\ skillCalls' = (skillCalls \ {c}) \cup (IF c.phase = "orphan" /\ d.phase = "served" THEN {} ELSE {d})
            /\ d = [op |-> d.op, on |-> c.on, from |-> d.from, phase |-> d.phase, answer |-> d.answer]
            /\ d.op = c.op /\ d.phase = "served" /\ d.answer = new
        BY <1>3, <2>3
      <3> HIDE DEF d
      <3> QED
        BY <1>1, <1>2, <2>1, <3>2, <3>5, <3>6, <3>7, SkillsAnswerStep
    <2>4. CASE skillCalls' = AfterServing(skillCalls, c, None) /\ UNCHANGED skillTasks
      <3>1. TableInv' /\ TaskIds' = TaskIds
        BY <2>1, <2>4 DEF TableInv, TaskIds
      <3> DEFINE d == Served(c, None)
      <3>2. /\ skillCalls' = (skillCalls \ {c}) \cup (IF c.phase = "orphan" /\ d.phase = "served" THEN {} ELSE {d})
            /\ d = [op |-> d.op, on |-> c.on, from |-> d.from, phase |-> d.phase, answer |-> d.answer]
            /\ d.op = c.op /\ d.phase = "served" /\ d.answer = None
        BY <1>3, <2>4
      <3> HIDE DEF d
      <3> QED
        BY <1>1, <1>2, <2>1, <2>4, <3>1, <3>2, SkillsAnswerStep
    <2> QED
      BY <1>5, <2>2, <2>3, <2>4 DEF ServeCreateTask
  <1>6. CASE ServeSkillRead(c)
    <2> DEFINE answer == IF c.op = "skill" THEN SkillOf(c.on)
                         ELSE IF c.op = "status" /\ skillTasks[c.on].status # "gone" THEN skillTasks[c.on] ELSE None
               d == Served(c, answer)
    <2>1. c.op \notin SkillWrites /\ UNCHANGED <<skillVersion, skillTasks>>
      BY <1>6 DEF ServeSkillRead, skillsServer
    <2>2. TableInv' /\ TaskIds' = TaskIds
      BY <2>1 DEF TableInv, TaskIds
    <2>3. /\ skillCalls' = (skillCalls \ {c}) \cup (IF c.phase = "orphan" /\ d.phase = "served" THEN {} ELSE {d})
          /\ d = [op |-> d.op, on |-> c.on, from |-> d.from, phase |-> d.phase, answer |-> d.answer]
          /\ d.op = c.op /\ d.phase = "served" /\ d.answer = answer
      BY <1>3, <1>6 DEF ServeSkillRead
    <2>4. c.op = "skill" => c.on \in Projects /\ answer \in Skills /\ answer.project = c.on
      BY <1>2 DEF SelectedInv, SkillOf, Skills, TableInv
    <2>5. c.op = "status" /\ answer # None => answer \in SkillTaskRecords /\ answer.project = skillTasks[c.on].project
      BY <1>2 DEF SkillCall, TableInv
    <2> HIDE DEF d, answer
    <2> QED
      BY <1>1, <1>2, <2>1, <2>2, <2>3, <2>4, <2>5, SkillsAnswerStep
  <1> QED
    BY <1>1, <1>4, <1>5, <1>6

\* Answers arrive.
LEMMA SkillsDeliverStep ==
    ASSUME SkillsInv, NEW op \in SkillOps, SkillsDeliver(op), UNCHANGED tab PROVE SkillsInv' /\ OfSelected
  <1> USE DEF SkillsInv
  <1>1. PICK c \in skillCalls : c.phase = "served"
            /\ (DeliverProjects(c) \/ DeliverSkill(c) \/ DeliverGenerate(c) \/ DeliverStatus(c))
    BY DEF SkillsDeliver, Arrived
  <1>2. SkillCall(c) /\ tab = "skills" /\ UNCHANGED <<skillVersion, skillTasks>>
    BY DEF SkillCallsInv, SkillsDeliver, skillsServer
  <1>3. TableInv' /\ TaskIds' = TaskIds
    BY <1>2 DEF TableInv, TaskIds
  <1>4. CASE DeliverProjects(c)
    <2> DEFINE d == Ask("skill", FirstProject, None)
    <2>1. SkillCall(d) /\ d.op = "skill" /\ d.on = FirstProject /\ d.phase = "sent" /\ FirstProject \in Projects
      BY SkillsAssumption DEF SkillCall, Ask, SkillOps, SkillWrites, FirstProject
    <2>2. c.op = "projects" /\ projectsShown' = TRUE /\ UNCHANGED <<skill, generating, generationTask>>
      BY <1>4 DEF DeliverProjects
    <2>3. CASE selected = None
      <3>1. /\ selected' = FirstProject /\ listIsNewer' = FALSE /\ skillLoading' = TRUE
            /\ skillCalls' = (skillCalls \ {c}) \cup {d}
        BY <1>4, <2>3 DEF DeliverProjects
      <3> HIDE DEF d
      <3>2. ~generating /\ Starting(skillCalls) = {} /\ generationTask = None
        BY <2>3 DEF GeneratingInv
      <3>3. Starting(skillCalls') = {}
        BY <2>1, <3>1, <3>2 DEF Starting, SkillWrites
      <3>4. \A e \in skillCalls : e.op # "status" /\ e.op # "skill"
        BY <2>3, <3>2, TaskNumbers, SkillsAssumption DEF SelectedInv, SkillCallsInv, SkillCall
      <3>5. SkillCallsInv'
        BY <1>3, <2>1, <3>1 DEF SkillCallsInv, SkillCall
      <3>6. SelectedInv'
        BY <2>1, <2>2, <3>1, <3>2, <3>3, <3>4 DEF SelectedInv
      <3>7. GeneratingInv' /\ SkillPageInv' /\ OfSelected
        BY <1>2, <2>1, <2>2, <3>1, <3>2, <3>3 DEF GeneratingInv, SkillPageInv, OfSelected
      <3> QED
        BY <1>3, <3>5, <3>6, <3>7
    <2>4. CASE selected # None
      <3>1. listIsNewer' = TRUE /\ skillCalls' = skillCalls \ {c} /\ UNCHANGED <<selected, skillLoading>>
        BY <1>4, <2>4 DEF DeliverProjects
      <3>2. Starting(skillCalls') = Starting(skillCalls)
        BY <2>2, <3>1 DEF Starting, SkillWrites
      <3>3. SkillCallsInv'
        BY <1>3, <3>1 DEF SkillCallsInv, SkillCall
      <3>4. SelectedInv'
        BY <1>2, <1>3, <2>2, <3>1, <3>2 DEF SelectedInv
      <3>5. GeneratingInv' /\ SkillPageInv' /\ OfSelected
        BY <1>2, <2>2, <3>1, <3>2 DEF GeneratingInv, SkillPageInv, OfSelected
      <3> QED
        BY <1>3, <3>3, <3>4, <3>5
    <2> QED
      BY <2>3, <2>4
  <1>5. CASE DeliverSkill(c)
    <2>1. /\ c.op = "skill" /\ skill' = c.answer /\ skillLoading' = FALSE /\ skillCalls' = skillCalls \ {c}
          /\ UNCHANGED <<projectsShown, listIsNewer, selected, generating, generationTask>>
      BY <1>5 DEF DeliverSkill
    <2>2. c.answer \in Skills /\ c.answer.project = selected
      BY <1>1, <2>1 DEF SelectedInv
    <2>3. Starting(skillCalls') = Starting(skillCalls)
      BY <2>1 DEF Starting, SkillWrites
    <2>4. SkillCallsInv'
      BY <1>3, <2>1 DEF SkillCallsInv, SkillCall
    <2>5. SelectedInv'
      BY <1>2, <1>3, <2>1, <2>3 DEF SelectedInv
    <2>6. GeneratingInv' /\ SkillPageInv' /\ OfSelected
      BY <1>2, <2>1, <2>2, <2>3 DEF GeneratingInv, SkillPageInv, OfSelected
    <2> QED
      BY <1>3, <2>4, <2>5, <2>6
  <1>6. CASE DeliverGenerate(c)
    <2>1. c.op \in SkillWrites /\ UNCHANGED <<projectsShown, listIsNewer, selected, skill, skillLoading>>
      BY <1>6 DEF DeliverGenerate
    <2>2. c \in Starting(skillCalls) /\ Starting(skillCalls \ {c}) = {} /\ generating /\ generationTask = None
      BY <1>1, <2>1 DEF Starting, GeneratingInv
    <2>3. \A e \in skillCalls : e.op # "status"
      BY <2>2, TaskNumbers DEF SelectedInv, SkillCallsInv, SkillCall
    <2>4. CASE c.answer = None
      <3>1. generating' = FALSE /\ generationTask' = None /\ skillCalls' = skillCalls \ {c}
        BY <1>6, <2>4 DEF DeliverGenerate, StopsWatching
      <3>2. SkillCallsInv'
        BY <1>3, <3>1 DEF SkillCallsInv, SkillCall
      <3>3. SelectedInv'
        BY <2>1, <2>2, <2>3, <3>1 DEF SelectedInv
      <3>4. GeneratingInv' /\ SkillPageInv' /\ OfSelected
        BY <1>2, <2>1, <2>2, <3>1 DEF GeneratingInv, SkillPageInv, OfSelected
      <3> QED
        BY <1>3, <3>2, <3>3, <3>4
    <2>5. CASE c.answer # None
      <3> DEFINE d == Ask("status", c.answer, None)
      <3>1. /\ generationTask' = c.answer /\ UNCHANGED generating
            /\ skillCalls' = (skillCalls \ {c}) \cup {d}
        BY <1>6, <2>5 DEF DeliverGenerate
      <3>2. c.answer \in TaskIds /\ skillTasks[c.answer].project = selected
        BY <1>1, <2>2, <2>5 DEF SelectedInv
      <3>3. SkillCall(d) /\ d.op = "status" /\ d.phase = "sent" /\ d.on = c.answer
        BY <3>2 DEF SkillCall, Ask, SkillOps, SkillWrites
      <3> HIDE DEF d
      <3>4. Starting(skillCalls') = {}
        BY <2>2, <3>1, <3>3 DEF Starting, SkillWrites
      <3>5. SkillCallsInv'
        BY <1>3, <3>1, <3>3 DEF SkillCallsInv, SkillCall
      <3>6. SelectedInv'
        BY <1>2, <1>3, <2>1, <2>3, <3>1, <3>2, <3>3, <3>4 DEF SelectedInv
      <3>7. GeneratingInv' /\ SkillPageInv' /\ OfSelected
        BY <1>2, <2>1, <2>2, <2>5, <3>1, <3>4 DEF GeneratingInv, SkillPageInv, OfSelected
      <3> QED
        BY <1>3, <3>5, <3>6, <3>7
    <2> QED
      BY <2>4, <2>5
  <1>7. CASE DeliverStatus(c)
    <2>1. c.op = "status" /\ UNCHANGED <<projectsShown, listIsNewer, selected, skillLoading>>
      BY <1>7 DEF DeliverStatus
    <2>2. generationTask = c.on /\ c.on \in TaskIds /\ generationTask # None /\ Starting(skillCalls) = {} /\ generating
      BY <1>2, <2>1, TaskNumbers DEF SelectedInv, SkillCall, GeneratingInv
    <2>3. CASE StatusIn(c.answer) = "running" /\ skillCalls' = skillCalls \ {c} /\ UNCHANGED <<skill, generating, generationTask>>
      <3>1. Starting(skillCalls') = {}
        BY <2>2, <2>3 DEF Starting
      <3>2. SkillCallsInv'
        BY <1>3, <2>3 DEF SkillCallsInv, SkillCall
      <3>3. SelectedInv'
        BY <1>2, <1>3, <2>1, <2>3, <3>1 DEF SelectedInv
      <3>4. GeneratingInv' /\ SkillPageInv' /\ OfSelected
        BY <1>2, <2>1, <2>2, <2>3, <3>1 DEF GeneratingInv, SkillPageInv, OfSelected
      <3> QED
        BY <1>3, <3>2, <3>3, <3>4
    <2>4. CASE /\ generating' = FALSE /\ generationTask' = None
               /\ skillCalls' \in {CleanupPoll(skillCalls), CleanupPoll(skillCalls) \cup {LoadProjects}}
               /\ skill' = skill \/ (skill' \in Skills /\ skill'.project = selected)
      <3>1. SkillCall(LoadProjects) /\ LoadProjects.op = "projects"
        BY DEF SkillCall, LoadProjects, Ask, SkillOps, SkillWrites
      <3>2. Starting(skillCalls') = {} /\ \A e \in skillCalls' : e.op # "status"
        BY <2>2, <2>4, <3>1 DEF Starting, CleanupPoll, SkillWrites
      <3>3. SkillCallsInv'
        BY <1>3, <2>4, <3>1 DEF SkillCallsInv, SkillCall, CleanupPoll
      <3>4. SelectedInv'
        BY <2>1, <2>4, <3>1, <3>2 DEF SelectedInv, CleanupPoll
      <3>5. GeneratingInv' /\ SkillPageInv' /\ OfSelected
        BY <1>2, <2>1, <2>4, <3>2 DEF GeneratingInv, SkillPageInv, OfSelected
      <3> QED
        BY <1>3, <3>3, <3>4, <3>5
    <2>5. ASSUME StatusIn(c.answer) = "done", skill' = [project |-> c.answer.project, version |-> c.answer.version]
          PROVE  skill' \in Skills /\ skill'.project = selected
      <3>1. c.answer # None
        BY <2>5 DEF StatusIn
      <3>2. c.answer \in SkillTaskRecords /\ c.answer.project = selected
        BY <1>1, <2>1, <3>1 DEF SelectedInv
      <3> QED
        BY <2>5, <3>2 DEF SkillTaskRecords, Skills
    <2> QED
      BY <1>7, <2>3, <2>4, <2>5 DEF DeliverStatus, StopsWatching
  <1> QED
    BY <1>1, <1>4, <1>5, <1>6, <1>7

\* A request fails or is given up.
LEMMA SkillsFailStep ==
    ASSUME SkillsInv, SkillsFail, UNCHANGED tab PROVE SkillsInv' /\ OfSelected
  <1> USE DEF SkillsInv
  <1>0. PICK c \in skillCalls : c.phase # "orphan" /\ \E calls \in GivenUp(skillCalls, c, SkillWrites) :
            /\ skillCalls' = IF c.op = "status" THEN CleanupPoll(calls) ELSE calls
            /\ skillLoading' = (skillLoading /\ c.op # "skill")
            /\ IF c.op \in SkillWrites \cup {"status"} THEN StopsWatching ELSE UNCHANGED <<generating, generationTask>>
    BY DEF SkillsFail, Waiting
  <1>1. PICK calls \in GivenUp(skillCalls, c, SkillWrites) :
            /\ c.phase # "orphan"
            /\ skillCalls' = IF c.op = "status" THEN CleanupPoll(calls) ELSE calls
            /\ skillLoading' = (skillLoading /\ c.op # "skill")
            /\ IF c.op \in SkillWrites \cup {"status"} THEN StopsWatching ELSE UNCHANGED <<generating, generationTask>>
    BY <1>0
  <1>2. SkillCall(c) /\ tab = "skills" /\ UNCHANGED <<skillVersion, skillTasks, projectsShown, listIsNewer, selected, skill>>
    BY DEF SkillCallsInv, SkillsFail, skillsServer
  <1>3. TableInv' /\ TaskIds' = TaskIds
    BY <1>2 DEF TableInv, TaskIds
  <1> DEFINE d == [c EXCEPT !.phase = "orphan"]
  <1>4. calls = skillCalls \ {c} \/ (c.op \in SkillWrites /\ calls = (skillCalls \ {c}) \cup {d})
    BY <1>1 DEF GivenUp
  <1>5. c.op \in SkillWrites => SkillCall(d) /\ d.op = c.op /\ d.phase = "orphan"
    BY <1>2, SkillOrphan
  <1> HIDE DEF d
  <1>6. SkillCallsInv'
    BY <1>1, <1>3, <1>4, <1>5 DEF SkillCallsInv, SkillCall, CleanupPoll
  <1>7. SkillPageInv' /\ OfSelected
    BY <1>1, <1>2 DEF SkillPageInv, OfSelected, StopsWatching
  <1>8. CASE c.op \in SkillWrites
    <2>1. skillCalls' = calls /\ generating' = FALSE /\ generationTask' = None /\ c \in Starting(skillCalls)
      BY <1>1, <1>8 DEF StopsWatching, SkillWrites, Starting
    <2>2. Starting(skillCalls') = {} /\ generationTask = None
      BY <1>4, <1>5, <1>8, <2>1 DEF Starting, GeneratingInv
    <2>3. \A e \in skillCalls' : e.op # "status"
      BY <1>4, <1>5, <1>8, <2>1, <2>2, TaskNumbers DEF SelectedInv, SkillCallsInv, SkillCall, SkillWrites
    <2>4. SelectedInv'
      BY <1>2, <1>4, <1>5, <1>8, <2>1, <2>2, <2>3 DEF SelectedInv, SkillWrites
    <2>5. GeneratingInv'
      BY <1>2, <2>1, <2>2 DEF GeneratingInv
    <2> QED
      BY <1>3, <1>6, <1>7, <2>4, <2>5
  <1>9. CASE c.op = "status"
    <2>1. skillCalls' = CleanupPoll(skillCalls \ {c}) /\ generating' = FALSE /\ generationTask' = None
      BY <1>1, <1>4, <1>9 DEF StopsWatching, SkillWrites
    <2>2. generationTask # None
      BY <1>2, <1>9, TaskNumbers DEF SelectedInv, SkillCall
    <2>3. Starting(skillCalls') = {} /\ \A e \in skillCalls' : e.op # "status"
      BY <2>1, <2>2 DEF Starting, GeneratingInv, CleanupPoll
    <2>4. SelectedInv'
      BY <1>2, <2>1, <2>3 DEF SelectedInv, CleanupPoll
    <2>5. GeneratingInv'
      BY <1>2, <2>1, <2>3 DEF GeneratingInv
    <2> QED
      BY <1>3, <1>6, <1>7, <2>4, <2>5
  <1>10. CASE c.op \notin SkillWrites /\ c.op # "status"
    <2>1. skillCalls' = skillCalls \ {c} /\ UNCHANGED <<generating, generationTask>>
      BY <1>1, <1>4, <1>10
    <2>2. Starting(skillCalls') = Starting(skillCalls)
      BY <1>10, <2>1 DEF Starting
    <2>3. SelectedInv'
      BY <1>2, <1>3, <2>1, <2>2 DEF SelectedInv
    <2>4. GeneratingInv'
      BY <1>2, <2>1, <2>2 DEF GeneratingInv
    <2> QED
      BY <1>3, <1>6, <1>7, <2>3, <2>4
  <1> QED
    BY <1>8, <1>9, <1>10

\* Every step of the panel and of the server.
LEMMA SkillsStep ==
    ASSUME SkillsInv, [SkillsNext]_<<tab, skillsVars>>
    PROVE  SkillsInv' /\ [OfSelected]_<<tab, skillsVars>>
  <1>1. ASSUME NEW t \in Tabs, SkillsSelect(t), tab' = t PROVE SkillsInv' /\ OfSelected
    BY <1>1, SkillsSelectStep
  <1>2. CASE SkillsUser /\ UNCHANGED tab
    BY <1>2, SkillsUserStep
  <1>3. CASE SkillsPoll /\ UNCHANGED tab
    BY <1>3, SkillsPollStep
  <1>4. CASE SkillsFail /\ UNCHANGED tab
    BY <1>4, SkillsFailStep
  <1>5. CASE (GeneratorEnds \/ ServerRestarts) /\ UNCHANGED <<skillsLocal, skillCalls>> /\ UNCHANGED tab
    BY <1>5, SkillsWorkStep
  <1>6. ASSUME NEW op \in SkillOps, SkillsServe(op) \/ SkillsDeliver(op), UNCHANGED tab PROVE SkillsInv' /\ OfSelected
    BY <1>6, SkillsServeStep, SkillsDeliverStep
  <1>7. CASE UNCHANGED <<tab, skillsVars>>
    BY <1>7 DEF skillsVars, skillsServer, skillsLocal, SkillsInv, TableInv, TaskIds, SkillPageInv, SkillCallsInv, SkillCall,
                SelectedInv, Starting, GeneratingInv
  <1> QED
    BY <1>1, <1>2, <1>3, <1>4, <1>5, <1>6, <1>7 DEF SkillsNext

\* The invariant gives the types.
LEMMA SkillsTyped == SkillsInv => SkillsTypeOK
  BY DEF SkillsInv, TableInv, SkillTaskRecords, SkillPageInv, SkillCallsInv, SkillCall, SelectedInv, SkillsTypeOK

\* What the panel of the skills and the server keep is of its types.
THEOREM SkillsTypeCorrect == SkillsSpec => []SkillsTypeOK
  <1>1. SkillsInv => SkillsTypeOK
    BY SkillsTyped
  <1>2. tab \in Tabs /\ SkillsInit => SkillsInv
    BY SkillsStart
  <1>3. SkillsInv /\ [SkillsNext]_<<tab, skillsVars>> => SkillsInv'
    BY SkillsStep
  <1> QED
    BY <1>1, <1>2, <1>3, PTL DEF SkillsSpec

\* A skill that appears is of the project that is selected.
THEOREM SkillOfSelected == SkillsSpec => ShownIsSelected
  <1>1. tab \in Tabs /\ SkillsInit => SkillsInv
    BY SkillsStart
  <1>2. SkillsInv /\ [SkillsNext]_<<tab, skillsVars>> => SkillsInv' /\ [OfSelected]_<<tab, skillsVars>>
    BY SkillsStep
  <1> QED
    BY <1>1, <1>2, PTL DEF SkillsSpec, ShownIsSelected, OfSelected

\* The invariant gives what the panel says.
LEMMA SkillsTells == SkillsInv => GeneratingTells
  BY DEF SkillsInv, SelectedInv, GeneratingInv, Starting, GeneratingTells, Waiting

\* The panel waits for a generation as long as one is asked for or watched.
THEOREM GeneratingTrue == SkillsSpec => []GeneratingTells
  <1>1. SkillsInv => GeneratingTells
    BY SkillsTells
  <1>2. tab \in Tabs /\ SkillsInit => SkillsInv
    BY SkillsStart
  <1>3. SkillsInv /\ [SkillsNext]_<<tab, skillsVars>> => SkillsInv'
    BY SkillsStep
  <1> QED
    BY <1>1, <1>2, <1>3, PTL DEF SkillsSpec

---------------------------------------------------------------------------
(***************************************************************************)
(* Reports.  One request at a time makes a report or fetches its trend.    *)
(***************************************************************************)
ReportCall(c) ==
    /\ c = [op |-> c.op, on |-> c.on, from |-> c.from, phase |-> c.phase, answer |-> c.answer]
    /\ c.op \in ReportOps /\ c.on \in Intervals /\ c.phase \in {"sent", "served", "orphan"}
    /\ c.phase = "orphan" => c.op = "create"
    /\ c.phase = "served" /\ c.op = "load" => c.answer \in 0..reports
    /\ c.phase = "served" /\ c.op = "create" /\ c.answer # None => c.answer \in 0..reports

Making(calls) == {c \in calls : c.op # "load" /\ c.phase # "orphan"}

ReportPageInv ==
    /\ reports \in Nat /\ report \in 0..reports
    /\ trend \in Intervals \cup {None} /\ trendInterval \in Intervals /\ creating \in BOOLEAN
ReportCallsInv == \A c \in reportCalls : ReportCall(c)
CreatingInv ==
    /\ creating <=> Making(reportCalls) # {}
    /\ \A c, d \in Making(reportCalls) : c = d
    /\ tab # "analytics" => \A c \in reportCalls : c.phase = "orphan"
AnalyticsInv == ReportPageInv /\ ReportCallsInv /\ CreatingInv

\* A request of the panel that is sent.
LEMMA ReportAsk ==
    ASSUME NEW op \in ReportOps, NEW i \in Intervals
    PROVE  ReportCall(Ask(op, i, None)) /\ Ask(op, i, None).op = op /\ Ask(op, i, None).phase = "sent"
  BY DEF ReportCall, Ask

\* A request that nobody waits for any more.
LEMMA ReportOrphan ==
    ASSUME NEW c, ReportCall(c), c.op = "create"
    PROVE  ReportCall([c EXCEPT !.phase = "orphan"]) /\ [c EXCEPT !.phase = "orphan"].phase = "orphan"
  <1>1. [c EXCEPT !.phase = "orphan"] =
           [op |-> c.op, on |-> c.on, from |-> c.from, phase |-> "orphan", answer |-> c.answer]
    BY DEF ReportCall
  <1> QED
    BY <1>1 DEF ReportCall

\* The invariant holds at the start.
LEMMA AnalyticsStart == ASSUME tab \in Tabs, AnalyticsInit PROVE AnalyticsInv
  <1>1. ReportPageInv
    <2>1. reports \in Nat /\ report \in 0..reports
      BY DEF AnalyticsInit
    <2>2. trend = None /\ trendInterval \in Intervals /\ creating = FALSE
      BY DEF AnalyticsInit, Intervals
    <2> QED
      BY <2>1, <2>2 DEF ReportPageInv
  <1>2. \A c \in reportCalls : ReportCall(c) /\ c.op = "load" /\ c.phase = "sent"
    BY ReportAsk DEF AnalyticsInit, LoadLatest, ReportOps, Intervals
  <1>3. tab # "analytics" => reportCalls = {}
    BY DEF AnalyticsInit
  <1> QED
    BY <1>1, <1>2, <1>3 DEF AnalyticsInv, ReportCallsInv, CreatingInv, Making, AnalyticsInit

\* Opening and closing the tab.
LEMMA AnalyticsSelectStep ==
    ASSUME AnalyticsInv, NEW t \in Tabs, AnalyticsSelect(t), tab' = t PROVE AnalyticsInv'
  <1> USE DEF AnalyticsInv
  <1>1. CASE (t = "analytics") = (tab = "analytics")
    <2>1. UNCHANGED analyticsVars
      BY <1>1 DEF AnalyticsSelect
    <2>2. tab' # "analytics" => tab # "analytics"
      BY <1>1
    <2> QED
      BY <2>1, <2>2 DEF analyticsVars, analyticsLocal, ReportPageInv, ReportCallsInv, ReportCall, CreatingInv
  <1>2. CASE (t = "analytics") # (tab = "analytics")
    <2>1. /\ report' = 0 /\ trend' = None /\ trendInterval' = "day" /\ creating' = FALSE
          /\ reportCalls' = Orphans(reportCalls, {"create"})
                            \cup (IF t = "analytics" THEN {LoadLatest("day")} ELSE {})
          /\ UNCHANGED reports
      BY <1>2, Zenon DEF AnalyticsSelect
    <2>2. \A c \in reportCalls : c.op = "create" =>
             ReportCall([c EXCEPT !.phase = "orphan"]) /\ [c EXCEPT !.phase = "orphan"].phase = "orphan"
      BY ReportOrphan DEF ReportCallsInv
    <2>3. \A c \in Orphans(reportCalls, {"create"}) : ReportCall(c) /\ c.phase = "orphan"
      BY <2>2 DEF Orphans, ReportCallsInv
    <2>4. ReportCall(LoadLatest("day")) /\ LoadLatest("day").op = "load"
      BY ReportAsk DEF LoadLatest, ReportOps, Intervals
    <2>5. ReportCallsInv'
      BY <2>1, <2>3, <2>4 DEF ReportCallsInv, ReportCall
    <2>6. CreatingInv'
      BY <2>1, <2>3, <2>4 DEF CreatingInv, Making
    <2>7. ReportPageInv'
      <3>1. reports' \in Nat /\ report' \in 0..reports'
        BY <2>1 DEF ReportPageInv
      <3>2. "day" \in Intervals
        BY DEF Intervals
      <3> QED
        BY <2>1, <3>1, <3>2 DEF ReportPageInv
    <2> QED
      BY <2>5, <2>6, <2>7
  <1> QED
    BY <1>1, <1>2

\* What the admin does.
LEMMA AnalyticsUserStep ==
    ASSUME AnalyticsInv, AnalyticsUser, UNCHANGED tab PROVE AnalyticsInv'
  <1> USE DEF AnalyticsInv
  <1>0. tab = "analytics" /\ UNCHANGED reports
    BY DEF AnalyticsUser, ChooseInterval, ReloadLatest, CreateReport
  <1>1. ASSUME NEW i \in Intervals, reportCalls' = reportCalls \cup {LoadLatest(i)}, UNCHANGED creating
        PROVE  ReportCallsInv' /\ CreatingInv'
    <2>1. ReportCall(LoadLatest(i)) /\ LoadLatest(i).op = "load"
      BY ReportAsk DEF LoadLatest, ReportOps
    <2>2. Making(reportCalls') = Making(reportCalls)
      BY <1>1, <2>1 DEF Making
    <2> QED
      BY <1>0, <1>1, <2>1, <2>2 DEF ReportCallsInv, ReportCall, CreatingInv
  <1>2. CASE ChooseInterval
    <2>1. PICK i \in Intervals : trendInterval' = i /\ reportCalls' = reportCalls \cup {LoadLatest(i)}
      BY <1>2 DEF ChooseInterval
    <2> QED
      BY <1>0, <1>1, <1>2, <2>1 DEF ChooseInterval, ReportPageInv
  <1>3. CASE ReloadLatest
    BY <1>0, <1>1, <1>3 DEF ReloadLatest, analyticsLocal, ReportPageInv
  <1>4. CASE CreateReport
    <2> DEFINE c == Ask("create", trendInterval, None)
    <2>1. ReportCall(c) /\ c.op = "create" /\ c.phase = "sent"
      BY ReportAsk DEF ReportPageInv, ReportOps
    <2>2. /\ ~creating /\ creating' = TRUE /\ reportCalls' = reportCalls \cup {c}
          /\ UNCHANGED <<reports, report, trend, trendInterval>>
      BY <1>4 DEF CreateReport
    <2> HIDE DEF c
    <2>3. Making(reportCalls') = {c}
      BY <2>1, <2>2 DEF Making, CreatingInv
    <2> QED
      BY <1>0, <2>1, <2>2, <2>3 DEF ReportPageInv, ReportCallsInv, ReportCall, CreatingInv
  <1> QED
    BY <1>2, <1>3, <1>4 DEF AnalyticsUser

\* The server answers a request.
LEMMA AnalyticsServeStep ==
    ASSUME AnalyticsInv, NEW op \in ReportOps, AnalyticsServe(op), UNCHANGED tab PROVE AnalyticsInv'
  <1> USE DEF AnalyticsInv
  <1>1. PICK c \in reportCalls : c.phase # "served" /\ (ServeCreateReport(c) \/ ServeReportRead(c))
    BY DEF AnalyticsServe, Unserved
  <1>2. ReportCall(c) /\ UNCHANGED analyticsLocal
    BY DEF ReportCallsInv, AnalyticsServe
  <1>3. PICK answer : /\ reportCalls' = AfterServing(reportCalls, c, answer)
                      /\ reports' \in Nat /\ reports <= reports'
                      /\ answer \in 0..reports' \/ (answer = None /\ c.op = "create")
    BY <1>1 DEF ServeCreateReport, ServeReportRead, ReportPageInv
  <1> DEFINE d == Served(c, answer)
  <1>4. /\ reportCalls' = (reportCalls \ {c}) \cup (IF c.phase = "orphan" THEN {} ELSE {d})
        /\ d = [op |-> c.op, on |-> c.on, from |-> c.from, phase |-> "served", answer |-> answer]
    BY <1>3 DEF AfterServing, Served
  <1> HIDE DEF d
  <1>5. ReportPageInv'
    BY <1>2, <1>3 DEF ReportPageInv, analyticsLocal
  <1>6. ReportCallsInv'
    <2>1. ReportCall(d)'
      BY <1>2, <1>3, <1>4 DEF ReportCall
    <2>2. \A e \in reportCalls : ReportCall(e)'
      BY <1>3 DEF ReportCallsInv, ReportCall, ReportPageInv
    <2> QED
      BY <1>4, <2>1, <2>2 DEF ReportCallsInv
  <1>7. CreatingInv'
    <2>1. Making(reportCalls') = (Making(reportCalls) \ {c}) \cup (IF c \in Making(reportCalls) THEN {d} ELSE {})
      BY <1>1, <1>4 DEF Making
    <2>2. tab # "analytics" => \A e \in reportCalls' : e.phase = "orphan"
      BY <1>1, <1>4 DEF CreatingInv
    <2> QED
      BY <1>2, <2>1, <2>2 DEF CreatingInv, analyticsLocal
  <1> QED
    BY <1>5, <1>6, <1>7

\* Answers arrive.
LEMMA AnalyticsDeliverStep ==
    ASSUME AnalyticsInv, NEW op \in ReportOps, AnalyticsDeliver(op), UNCHANGED tab PROVE AnalyticsInv'
  <1> USE DEF AnalyticsInv
  <1>1. PICK c \in reportCalls : c.phase = "served" /\ (DeliverLatest(c) \/ DeliverReport(c) \/ DeliverTrend(c))
    BY DEF AnalyticsDeliver, Arrived
  <1>2. ReportCall(c) /\ tab = "analytics" /\ UNCHANGED reports
    BY DEF ReportCallsInv, AnalyticsDeliver
  <1>3. CASE DeliverLatest(c)
    <2>1. Making(reportCalls') = Making(reportCalls)
      BY <1>3 DEF DeliverLatest, Making
    <2> QED
      BY <1>1, <1>2, <1>3, <2>1 DEF DeliverLatest, ReportPageInv, ReportCallsInv, ReportCall, CreatingInv
  <1>4. CASE DeliverReport(c)
    <2>1. Making(reportCalls \ {c}) = {}
      BY <1>1, <1>4 DEF DeliverReport, Making, CreatingInv
    <2>2. CASE c.answer = None
      BY <1>2, <1>4, <2>1, <2>2 DEF DeliverReport, ReportPageInv, ReportCallsInv, ReportCall, CreatingInv
    <2>3. CASE c.answer # None
      <3> DEFINE d == Ask("trend", c.on, None)
      <3>1. ReportCall(d) /\ d.op = "trend" /\ d.phase = "sent"
        BY <1>2, ReportAsk DEF ReportCall, ReportOps
      <3>2. /\ report' = c.answer /\ reportCalls' = (reportCalls \ {c}) \cup {d}
            /\ UNCHANGED <<creating, trend, trendInterval>>
        BY <1>4, <2>3 DEF DeliverReport
      <3> HIDE DEF d
      <3>3. Making(reportCalls') = {d} /\ creating
        BY <1>1, <1>4, <2>1, <3>1, <3>2 DEF DeliverReport, Making, CreatingInv
      <3>4. c.answer \in 0..reports
        BY <1>1, <1>2, <1>4, <2>3 DEF DeliverReport, ReportCall
      <3> QED
        BY <1>2, <3>1, <3>2, <3>3, <3>4 DEF ReportPageInv, ReportCallsInv, ReportCall, CreatingInv
    <2> QED
      BY <2>2, <2>3
  <1>5. CASE DeliverTrend(c)
    <2>1. Making(reportCalls') = {}
      BY <1>1, <1>5 DEF DeliverTrend, Making, CreatingInv
    <2> QED
      BY <1>2, <1>5, <2>1 DEF DeliverTrend, ReportPageInv, ReportCallsInv, ReportCall, CreatingInv
  <1> QED
    BY <1>1, <1>3, <1>4, <1>5

\* A request fails or is given up.
LEMMA AnalyticsFailStep ==
    ASSUME AnalyticsInv, AnalyticsFail, UNCHANGED tab PROVE AnalyticsInv'
  <1> USE DEF AnalyticsInv
  <1>1. PICK c \in reportCalls : /\ c.phase # "orphan"
                                 /\ reportCalls' \in GivenUp(reportCalls, c, {"create"})
                                 /\ creating' = (creating /\ c.op = "load")
    BY DEF AnalyticsFail, Waiting
  <1>2. tab = "analytics" /\ UNCHANGED <<reports, report, trend, trendInterval>>
    BY DEF AnalyticsFail
  <1> DEFINE d == [c EXCEPT !.phase = "orphan"]
  <1>3. reportCalls' = reportCalls \ {c} \/ (c.op = "create" /\ reportCalls' = (reportCalls \ {c}) \cup {d})
    BY <1>1 DEF GivenUp
  <1>4. c.op = "create" => ReportCall(d) /\ d.phase = "orphan"
    BY ReportOrphan DEF ReportCallsInv
  <1> HIDE DEF d
  <1>5. ReportCallsInv'
    BY <1>2, <1>3, <1>4 DEF ReportCallsInv, ReportCall
  <1>6. Making(reportCalls') = IF c.op = "load" THEN Making(reportCalls) ELSE {}
    BY <1>1, <1>3, <1>4 DEF Making, CreatingInv
  <1> QED
    BY <1>1, <1>2, <1>5, <1>6 DEF ReportPageInv, CreatingInv

\* Every step of the panel and of the server.
LEMMA AnalyticsStep ==
    ASSUME AnalyticsInv, [AnalyticsNext]_<<tab, analyticsVars>> PROVE AnalyticsInv'
  <1>1. ASSUME NEW t \in Tabs, AnalyticsSelect(t), tab' = t PROVE AnalyticsInv'
    BY <1>1, AnalyticsSelectStep
  <1>2. CASE UNCHANGED <<tab, analyticsVars>>
    BY <1>2 DEF analyticsVars, analyticsLocal, AnalyticsInv, ReportPageInv, ReportCallsInv, ReportCall, CreatingInv
  <1> QED
    BY <1>1, <1>2, AnalyticsUserStep, AnalyticsServeStep, AnalyticsDeliverStep, AnalyticsFailStep DEF AnalyticsNext

\* The invariant gives the types.
LEMMA AnalyticsTyped == AnalyticsInv => AnalyticsTypeOK
  BY DEF AnalyticsInv, ReportPageInv, ReportCallsInv, ReportCall, AnalyticsTypeOK

\* What the panel of the reports keeps is of its types; no report is shown
\* that was not made.
THEOREM AnalyticsTypeCorrect == AnalyticsSpec => []AnalyticsTypeOK
  <1>1. AnalyticsInv => AnalyticsTypeOK
    BY AnalyticsTyped
  <1>2. tab \in Tabs /\ AnalyticsInit => AnalyticsInv
    BY AnalyticsStart
  <1>3. AnalyticsInv /\ [AnalyticsNext]_<<tab, analyticsVars>> => AnalyticsInv'
    BY AnalyticsStep
  <1> QED
    BY <1>1, <1>2, <1>3, PTL DEF AnalyticsSpec

\* The invariant gives what the panel says.
LEMMA AnalyticsTells == AnalyticsInv => CreatingTells
  BY DEF AnalyticsInv, CreatingInv, Making, CreatingTells, Waiting

\* A report is being made as long as one is asked for or its trend is fetched.
THEOREM CreatingTrue == AnalyticsSpec => []CreatingTells
  <1>1. AnalyticsInv => CreatingTells
    BY AnalyticsTells
  <1>2. tab \in Tabs /\ AnalyticsInit => AnalyticsInv
    BY AnalyticsStart
  <1>3. AnalyticsInv /\ [AnalyticsNext]_<<tab, analyticsVars>> => AnalyticsInv'
    BY AnalyticsStep
  <1> QED
    BY <1>1, <1>2, <1>3, PTL DEF AnalyticsSpec

---------------------------------------------------------------------------
(***************************************************************************)
(* The console.  A step of the console is, for each panel, a step of that  *)
(* panel's own specification or one that leaves the panel alone, so what   *)
(* was shown of a panel by itself holds in the console: whatever the other *)
(* panels do, and in whatever state the tab is left.  ChatPanel alone      *)
(* reads what another panel writes, the settings table, of which its own   *)
(* specification assumes no more than its type.                            *)
(***************************************************************************)
\* Opening another tab.
Tabbing == \E t \in Visited : SelectTab(t)

\* Every step of the console as a step of the jobs.
LEMMA JobsInConsole == ASSUME [ConsoleNext]_vars PROVE [JobsNext]_<<tab, jobsVars>>
  <1>1. CASE Tabbing
    BY <1>1, ConsoleAssumption DEF Tabbing, SelectTab, JobsNext
  <1>2. CASE User \/ Fail \/ Event \/ Server \/ Browser
    BY <1>2 DEF User, Fail, Event, Server, Browser, KeepExceptJobs, KeepExceptTasks, KeepExceptConfigs,
                KeepExceptSkills, KeepExceptSettings, KeepExceptChat, KeepExceptAnalytics, JobsNext
  <1> QED
    BY <1>1, <1>2 DEF ConsoleNext, Tabbing, vars

\* Every step of the console as a step of the alert tasks.
LEMMA TasksInConsole == ASSUME [ConsoleNext]_vars PROVE [TasksNext]_<<tab, tasksVars>>
  <1>1. CASE Tabbing
    BY <1>1, ConsoleAssumption DEF Tabbing, SelectTab, TasksNext
  <1>2. CASE User \/ Fail \/ Event \/ Server \/ Browser
    BY <1>2 DEF User, Fail, Event, Server, Browser, KeepExceptJobs, KeepExceptTasks, KeepExceptConfigs,
                KeepExceptSkills, KeepExceptSettings, KeepExceptChat, KeepExceptAnalytics, TasksNext
  <1> QED
    BY <1>1, <1>2 DEF ConsoleNext, Tabbing, vars

\* Every step of the console as a step of the alert configurations.
LEMMA ConfigsInConsole == ASSUME [ConsoleNext]_vars PROVE [ConfigsNext]_<<tab, configsVars>>
  <1>1. CASE Tabbing
    BY <1>1, ConsoleAssumption DEF Tabbing, SelectTab, ConfigsNext
  <1>2. CASE User \/ Fail \/ Event \/ Server \/ Browser
    BY <1>2 DEF User, Fail, Event, Server, Browser, KeepExceptJobs, KeepExceptTasks, KeepExceptConfigs,
                KeepExceptSkills, KeepExceptSettings, KeepExceptChat, KeepExceptAnalytics, ConfigsNext
  <1> QED
    BY <1>1, <1>2 DEF ConsoleNext, Tabbing, vars

\* Every step of the console as a step of the skills.
LEMMA SkillsInConsole == ASSUME [ConsoleNext]_vars PROVE [SkillsNext]_<<tab, skillsVars>>
  <1>1. CASE Tabbing
    BY <1>1, ConsoleAssumption DEF Tabbing, SelectTab, SkillsNext
  <1>2. CASE User \/ Fail \/ Event \/ Server \/ Browser
    BY <1>2 DEF User, Fail, Event, Server, Browser, KeepExceptJobs, KeepExceptTasks, KeepExceptConfigs,
                KeepExceptSkills, KeepExceptSettings, KeepExceptChat, KeepExceptAnalytics, SkillsNext
  <1> QED
    BY <1>1, <1>2 DEF ConsoleNext, Tabbing, vars

\* Every step of the console as a step of the settings.
LEMMA SettingsInConsole == ASSUME [ConsoleNext]_vars PROVE [SettingsNext]_<<tab, settingsVars>>
  <1>1. CASE Tabbing
    BY <1>1, ConsoleAssumption DEF Tabbing, SelectTab, SettingsNext
  <1>2. CASE User \/ Fail \/ Event \/ Server \/ Browser
    BY <1>2 DEF User, Fail, Event, Server, Browser, KeepExceptJobs, KeepExceptTasks, KeepExceptConfigs,
                KeepExceptSkills, KeepExceptSettings, KeepExceptChat, KeepExceptAnalytics, SettingsNext
  <1> QED
    BY <1>1, <1>2 DEF ConsoleNext, Tabbing, vars

\* Every step of the console as a step of the reports.
LEMMA AnalyticsInConsole == ASSUME [ConsoleNext]_vars PROVE [AnalyticsNext]_<<tab, analyticsVars>>
  <1>1. CASE Tabbing
    BY <1>1, ConsoleAssumption DEF Tabbing, SelectTab, AnalyticsNext
  <1>2. CASE User \/ Fail \/ Event \/ Server \/ Browser
    BY <1>2 DEF User, Fail, Event, Server, Browser, KeepExceptJobs, KeepExceptTasks, KeepExceptConfigs,
                KeepExceptSkills, KeepExceptSettings, KeepExceptChat, KeepExceptAnalytics, AnalyticsNext
  <1> QED
    BY <1>1, <1>2 DEF ConsoleNext, Tabbing, vars

\* Every step of the console as a step of the probe of a reviewer, for which
\* the settings are saved elsewhere.
LEMMA ChatInConsole ==
    ASSUME [ConsoleNext]_vars, storedSettings' \in [Keys -> Values]
    PROVE  [ChatNext]_<<tab, storedSettings, chatVars>>
  <1>1. ASSUME NEW t \in Visited, SelectTab(t) PROVE ChatNext
    <2>1. t \in Tabs /\ ChatSelect(t) /\ tab' = t
      BY <1>1, ConsoleAssumption DEF SelectTab
    <2>2. CASE UNCHANGED storedSettings
      BY <2>1, <2>2 DEF ChatNext
    <2>3. SettingsSelect(t)
      BY <1>1 DEF SelectTab
    <2> QED
      BY <2>2, <2>3 DEF SettingsSelect, settingsVars
  <1>2. CASE User \/ Fail \/ Event \/ Server \/ Browser
    <2>1. CASE UNCHANGED <<tab, chatVars>>
      BY <2>1 DEF ChatNext
    <2>2. CASE UNCHANGED <<tab, settingsVars>> /\ (ChatUser \/ ChatFail \/ \E op \in ChatOps : ChatServe(op) \/ ChatDeliver(op))
      <3>1. UNCHANGED storedSettings
        BY <2>2 DEF settingsVars
      <3> QED
        BY <2>2, <3>1 DEF ChatNext
    <2>3. \/ UNCHANGED <<tab, chatVars>>
          \/ /\ UNCHANGED <<tab, settingsVars>>
             /\ ChatUser \/ ChatFail \/ \E op \in ChatOps : ChatServe(op) \/ ChatDeliver(op)
      BY <1>2 DEF User, Fail, Event, Server, Browser, KeepExceptJobs, KeepExceptTasks, KeepExceptConfigs,
                  KeepExceptSkills, KeepExceptSettings, KeepExceptChat, KeepExceptAnalytics
    <2> QED
      BY <2>1, <2>2, <2>3
  <1>3. CASE UNCHANGED vars
    BY <1>3 DEF vars, settingsVars
  <1> QED
    BY <1>1, <1>2, <1>3 DEF ConsoleNext

ConsoleInv ==
    /\ tab \in Tabs
    /\ JobsInv /\ TasksInv /\ ConfigsInv /\ ConfigsBusyInv /\ SkillsInv /\ SettingsInv /\ ChatInv /\ AnalyticsInv

\* The invariants of all panels hold when the console is opened.
LEMMA ConsoleStart == ConsoleInit => ConsoleInv
  <1> SUFFICES ASSUME ConsoleInit PROVE ConsoleInv
    OBVIOUS
  <1>1. tab \in Tabs
    BY DEF ConsoleInit, Tabs
  <1>2. StoreInit
    BY DEF ConsoleInit, SettingsInit
  <1> QED
    BY <1>1, <1>2, JobsStart, TasksStart, ConfigsStart, ConfigsBusyStart, SkillsStart, SettingsStart, ChatStart,
       AnalyticsStart
       DEF ConsoleInit, ConsoleInv

\* A step of the console keeps the invariants of all panels, and does to a
\* panel what a step of that panel may do.
LEMMA ConsoleStep ==
    ASSUME ConsoleInv, [ConsoleNext]_vars
    PROVE  /\ ConsoleInv'
           /\ [KeepsTyped]_<<tab, configsVars>>
           /\ [OfSelected]_<<tab, skillsVars>>
           /\ [KeepsRest]_<<tab, settingsVars>>
  <1>1. JobsInv'
    BY JobsInConsole, JobsStep DEF ConsoleInv
  <1>2. TasksInv'
    BY TasksInConsole, TasksStep DEF ConsoleInv
  <1>3. ConfigsInv' /\ ConfigsBusyInv' /\ [KeepsTyped]_<<tab, configsVars>>
    BY ConfigsInConsole, ConfigsStep, ConfigsBusyStep DEF ConsoleInv
  <1>4. SkillsInv' /\ [OfSelected]_<<tab, skillsVars>>
    BY SkillsInConsole, SkillsStep DEF ConsoleInv
  <1>5. SettingsInv' /\ [KeepsRest]_<<tab, settingsVars>>
    BY SettingsInConsole, SettingsStep DEF ConsoleInv
  <1>6. ChatInv'
    <2>1. storedSettings' \in [Keys -> Values]
      BY <1>5 DEF SettingsInv, Tables
    <2> QED
      BY <2>1, ChatInConsole, ChatStep DEF ConsoleInv
  <1>7. AnalyticsInv'
    BY AnalyticsInConsole, AnalyticsStep DEF ConsoleInv
  <1>8. tab' \in Tabs
    <2>1. [JobsNext]_<<tab, jobsVars>>
      BY JobsInConsole
    <2> QED
      BY <2>1 DEF ConsoleInv, JobsNext
  <1> QED
    BY <1>1, <1>2, <1>3, <1>4, <1>5, <1>6, <1>7, <1>8 DEF ConsoleInv

\* What the panels and the tables behind them keep is of its types, whichever
\* tab is open (App.jsx, App).
THEOREM ConsoleTypeCorrect == ConsoleSpec => []ConsoleTypeOK
  <1>1. ConsoleInv => ConsoleTypeOK
    <2>1. JobsInv => JobsTypeOK
      BY JobsTyped
    <2>2. TasksInv => TasksTypeOK
      BY TasksTyped
    <2>3. ConfigsInv => ConfigsTypeOK
      BY ConfigsTyped
    <2>4. SkillsInv => SkillsTypeOK
      BY SkillsTyped
    <2>5. SettingsInv => SettingsTypeOK
      BY SettingsTyped
    <2>6. ChatInv => ChatTypeOK
      BY ChatTyped
    <2>7. AnalyticsInv => AnalyticsTypeOK
      BY AnalyticsTyped
    <2> QED
      BY <2>1, <2>2, <2>3, <2>4, <2>5, <2>6, <2>7 DEF ConsoleInv, ConsoleTypeOK
  <1>2. ConsoleInv /\ [ConsoleNext]_vars => ConsoleInv'
    BY ConsoleStep
  <1> QED
    BY <1>1, <1>2, ConsoleStart, PTL DEF ConsoleSpec

\* A panel that shows itself busy has the request open that it waits for, and
\* one that has it open shows it, whatever is answered late, fails, is given
\* up or is left behind in another tab (detailLoading, loading, generating,
\* sending and creating of App.jsx).
THEOREM BusyTrue == ConsoleSpec => []BusyTells
  <1>1. ConsoleInv => BusyTells
    BY JobsTells, ConfigsTells, SkillsTells, ChatTells, AnalyticsTells DEF ConsoleInv, BusyTells
  <1>2. ConsoleInv /\ [ConsoleNext]_vars => ConsoleInv'
    BY ConsoleStep
  <1> QED
    BY <1>1, <1>2, ConsoleStart, PTL DEF ConsoleSpec

\* The reviewer's form shows what was typed or the parameter of the reviewer
\* that is chosen, however the settings are saved in the panel next to it.
THEOREM FormFollowsAnyTab == ConsoleSpec => []FormFollows
  <1>1. ConsoleInv => FormFollows
    BY DEF ConsoleInv, ChatInv, ChatPageInv
  <1>2. ConsoleInv /\ [ConsoleNext]_vars => ConsoleInv'
    BY ConsoleStep
  <1> QED
    BY <1>1, <1>2, ConsoleStart, PTL DEF ConsoleSpec

\* A secret is stored under the heading it was typed under, also when the
\* panel is left and opened again while the request is under way.
THEOREM SecretsStayInConsole == ConsoleSpec => TypedStays
  <1>1. ConsoleInv /\ [ConsoleNext]_vars => ConsoleInv' /\ [KeepsTyped]_<<tab, configsVars>>
    BY ConsoleStep
  <1> QED
    BY <1>1, ConsoleStart, PTL DEF ConsoleSpec, TypedStays

\* A save of the settings changes what was typed; anything else only when the
\* form is older than the table, was never loaded, or the key had no value.
THEOREM SavesOnlyTypedInConsole == ConsoleSpec => SavesKeepRest
  <1>1. ConsoleInv /\ [ConsoleNext]_vars => ConsoleInv' /\ [KeepsRest]_<<tab, settingsVars>>
    BY ConsoleStep
  <1> QED
    BY <1>1, ConsoleStart, PTL DEF ConsoleSpec, SavesKeepRest, KeepsRest

\* A skill that appears is of the project that is selected.
THEOREM SkillOfSelectedInConsole == ConsoleSpec => ShownIsSelected
  <1>1. ConsoleInv /\ [ConsoleNext]_vars => ConsoleInv' /\ [OfSelected]_<<tab, skillsVars>>
    BY ConsoleStep
  <1> QED
    BY <1>1, ConsoleStart, PTL DEF ConsoleSpec, ShownIsSelected, OfSelected

=============================================================================
