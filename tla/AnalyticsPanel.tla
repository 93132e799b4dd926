--------------------------- MODULE AnalyticsPanel ---------------------------
(***************************************************************************)
(* The panel of the reports: the latest report, a trend over an interval   *)
(* of the admin's choice, and a button that makes a new report (App.jsx,   *)
(* AnalyticsPanel), over the report handlers of the console server.        *)
(*                                                                         *)
(* A report is its number; a trend is the interval it was computed for.    *)
(* What the charts draw of them is left out.                               *)
(***************************************************************************)
EXTENDS ConsoleRequests

CONSTANT MaxReports   \* bound: reports that are ever made

ASSUME AnalyticsAssumption == MaxReports \in Nat /\ None \notin Nat

VARIABLES
    reports,        \* the newest report of the analysis_reports table, 0 when there is none
    report,         \* the report shown, 0 when there is none
    trend,          \* the interval of the points shown, None when there are none
    trendInterval,
    creating,       \* loading
    reportCalls

analyticsLocal == <<report, trend, trendInterval, creating>>
analyticsVars == <<reports, analyticsLocal, reportCalls>>

Intervals == {"day", "week", "month"}
ReportOps == {"load", "create", "trend"}

\* loadLatest asks for the report and the trend together and waits for both.
LoadLatest(interval) == Ask("load", interval, None)

AnalyticsInit ==
    /\ reports = 0
    /\ report = 0 /\ trend = None /\ trendInterval = "day" /\ creating = FALSE
    /\ reportCalls = IF tab = "analytics" THEN {LoadLatest("day")} ELSE {}

AnalyticsSelect(t) ==
    IF (t = "analytics") = (tab = "analytics") THEN UNCHANGED analyticsVars
    ELSE /\ report' = 0 /\ trend' = None /\ trendInterval' = "day" /\ creating' = FALSE
         /\ reportCalls' = Orphans(reportCalls, {"create"})
                           \cup (IF t = "analytics" THEN {LoadLatest("day")} ELSE {})
         /\ UNCHANGED reports

---------------------------------------------------------------------------
\* The control is part of the report; loadLatest depends on the interval.
ChooseInterval ==
    /\ report # 0
    /\ \E i \in Intervals \ {trendInterval} :
          /\ trendInterval' = i
          /\ reportCalls' = reportCalls \cup {LoadLatest(i)}
    /\ UNCHANGED <<reports, report, trend, creating>>

ReloadLatest ==
    /\ reportCalls' = reportCalls \cup {LoadLatest(trendInterval)}
    /\ UNCHANGED <<reports, analyticsLocal>>

\* createReport remembers the interval of the render it was pressed in.
CreateReport ==
    /\ ~creating
    /\ creating' = TRUE
    /\ reportCalls' = reportCalls \cup {Ask("create", trendInterval, None)}
    /\ UNCHANGED <<reports, report, trend, trendInterval>>

AnalyticsUser ==
    /\ tab = "analytics" /\ Room(reportCalls)
    /\ ChooseInterval \/ ReloadLatest \/ CreateReport

---------------------------------------------------------------------------
\* handleCreateAnalysisReport; past the bound it fails.
ServeCreateReport(c) ==
    /\ c.op = "create"
    /\ IF reports < MaxReports
       THEN reports' = reports + 1 /\ reportCalls' = AfterServing(reportCalls, c, reports + 1)
       ELSE UNCHANGED reports /\ reportCalls' = AfterServing(reportCalls, c, None)
ServeReportRead(c) ==
    /\ c.op # "create"
    /\ reportCalls' = AfterServing(reportCalls, c, reports)
    /\ UNCHANGED reports

AnalyticsServe(op) ==
    /\ \E c \in Unserved(reportCalls) : c.op = op /\ (ServeCreateReport(c) \/ ServeReportRead(c))
    /\ UNCHANGED analyticsLocal

\* The answer of loadLatest, whatever the interval is by now.
DeliverLatest(c) ==
    /\ c.op = "load"
    /\ report' = c.answer /\ trend' = c.on
    /\ reportCalls' = reportCalls \ {c}
    /\ UNCHANGED <<trendInterval, creating>>

\* createReport shows the report, then asks for the trend.
DeliverReport(c) ==
    /\ c.op = "create"
    /\ IF c.answer = None THEN creating' = FALSE /\ reportCalls' = reportCalls \ {c} /\ UNCHANGED report
       ELSE /\ report' = c.answer
            /\ reportCalls' = (reportCalls \ {c}) \cup {Ask("trend", c.on, None)}
            /\ UNCHANGED creating
    /\ UNCHANGED <<trend, trendInterval>>
DeliverTrend(c) ==
    /\ c.op = "trend"
    /\ trend' = c.on /\ creating' = FALSE
    /\ reportCalls' = reportCalls \ {c}
    /\ UNCHANGED <<report, trendInterval>>

AnalyticsDeliver(op) ==
    /\ tab = "analytics"
    /\ \E c \in Arrived(reportCalls) : c.op = op /\ (DeliverLatest(c) \/ DeliverReport(c) \/ DeliverTrend(c))
    /\ UNCHANGED reports

AnalyticsFail ==
    /\ tab = "analytics"
    /\ \E c \in Waiting(reportCalls) :
          /\ reportCalls' \in GivenUp(reportCalls, c, {"create"})
          /\ creating' = (creating /\ c.op = "load")
    /\ UNCHANGED <<reports, report, trend, trendInterval>>

AnalyticsNext ==
    \/ \E t \in Tabs : AnalyticsSelect(t) /\ tab' = t
    \/ /\ \/ AnalyticsUser \/ AnalyticsFail
          \/ \E op \in ReportOps : AnalyticsServe(op) \/ AnalyticsDeliver(op)
       /\ UNCHANGED tab

AnalyticsSpec == tab \in Tabs /\ AnalyticsInit /\ [][AnalyticsNext]_<<tab, analyticsVars>>

---------------------------------------------------------------------------
\* The types of what the panel keeps; no report is shown that was not made.
AnalyticsTypeOK ==
    /\ reports \in Nat /\ report \in 0..reports
    /\ trend \in Intervals \cup {None} /\ trendInterval \in Intervals /\ creating \in BOOLEAN
    /\ \A c \in reportCalls : c.op \in ReportOps /\ c.on \in Intervals

\* A report is being made exactly as long as one is asked for or its trend is
\* fetched, and only one at a time, whatever else is loaded meanwhile.
CreatingTells ==
    tab = "analytics" =>
        /\ creating <=> \E c \in Waiting(reportCalls) : c.op # "load"
        /\ \A c, d \in Waiting(reportCalls) : c.op # "load" /\ d.op # "load" => c = d

=============================================================================
