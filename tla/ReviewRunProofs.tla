-------------------------- MODULE ReviewRunProofs --------------------------
(* Invariants of ReviewRun and the refinement of FindingLedger. *)
EXTENDS ReviewRun, FiniteSetTheorems, TLAPS, SequenceTheorems

-----------------------------------------------------------------------------
(* Types, and what ties the memory of the run to Gitea and the store.      *)

\* A run serves a job, a reviewer's part of it has a reviewer, and the id of
\* the previous review and of the row exist.
Shape ==
  /\ pc # "idle" => job \in Job
  /\ pc \in InReviewer => todo # <<>>
  /\ \A a \in Agents : lastReview[a] \in 0..Len(reviews[a])
  /\ pc \in InReviewer => mem.prev \in 0..Len(reviews[Agent])
  /\ mem.row \in 0..Len(runRows)

TypeInv == TypeOK /\ Shape

\* The steps of the queue: they keep the pull request, the store and the run.
Queueing == \/ \E e \in events : SupersedePending(e) \/ EnqueueJob(e)
            \/ \E i \in DOMAIN jobs : Rerun(i) \/ ClaimJob(i)
Canceling == \E e \in events : CancelInFlight(e)

LEMMA QueueKeeps ==
  ASSUME Queueing \/ Canceling
  PROVE  /\ UNCHANGED <<prOpen, head, reviews, lastReview, findings, runRows, pc, job, todo, good, bad,
                         mem, runs, fresh, closes, crashes>>
         /\ Queueing => /\ UNCHANGED <<ctxDone, cancels>>
                        /\ faults' = faults \/ faults' = faults + 1
                        /\ repeats' = repeats \/ repeats' = repeats + 1
<1>1. ASSUME NEW e \in events, SupersedePending(e) \/ EnqueueJob(e)
      PROVE  /\ UNCHANGED <<prOpen, head, reviews, lastReview, findings, runRows, pc, job, todo, good, bad,
                             mem, runs, fresh, closes, crashes, ctxDone, cancels, repeats>>
             /\ faults' = faults \/ faults' = faults + 1
  BY <1>1 DEF SupersedePending, EnqueueJob, Fault, giteaVars, storeVars, loopVars, budgetVars
<1>2. ASSUME NEW i \in DOMAIN jobs, Rerun(i) \/ ClaimJob(i)
      PROVE  /\ UNCHANGED <<prOpen, head, reviews, lastReview, findings, runRows, pc, job, todo, good, bad,
                             mem, runs, fresh, closes, crashes, ctxDone, cancels, faults>>
             /\ repeats' = repeats \/ repeats' = repeats + 1
  BY <1>2 DEF Rerun, ClaimJob, giteaVars, storeVars, loopVars, budgetVars
<1>3. ASSUME NEW e \in events, CancelInFlight(e)
      PROVE  UNCHANGED <<prOpen, head, reviews, lastReview, findings, runRows, pc, job, todo, good, bad,
                         mem, runs, fresh, closes, crashes>>
  BY <1>3 DEF CancelInFlight, giteaVars, storeVars, loopVars
<1>4. CASE Queueing
  BY <1>1, <1>2, <1>4 DEF Queueing
<1>5. CASE Canceling /\ ~Queueing
  BY <1>3, <1>5 DEF Canceling
<1> QED
  BY <1>4, <1>5

LEMMA InitTypes == Init => TypeInv
<1> SUFFICES ASSUME Init PROVE TypeInv
  OBVIOUS
<1> USE ReviewAssumption DEF Init
<1>1. GiteaType
  BY DEF GiteaType
<1>2. StoreType
  BY DEF StoreType
<1>3. QueueType
  BY DEF QueueType, Sent, Event, Stage
<1>4. RunType
  <2>1. mem \in Memory
    BY DEF Blank, Memory
  <2>2. todo \in Seq(Agents)
    OBVIOUS
  <2> QED
    BY <2>1, <2>2 DEF RunType
<1>5. BudgetType
  BY DEF BudgetType
<1>6. Shape
  BY DEF Shape, Blank, InReviewer, Ending, RowStatus
<1> QED
  BY <1>1, <1>2, <1>3, <1>4, <1>5, <1>6 DEF TypeInv, TypeOK

\* A reviewer's part of the run knows its agent.
LEMMA HasAgent ==
  ASSUME todo \in Seq(Agents), todo # <<>>
  PROVE  /\ Agent \in Agents
         /\ Tail(todo) \in Seq(Agents)
BY DEF Agent

LEMMA ListedIssues ==
  ASSUME mem \in Memory
  PROVE  Listed \in SUBSET Issues /\ Settled \in SUBSET Issues
BY ReviewAssumption DEF Listed, Carried, Settled, Memory

LEMMA NewReviewType ==
  ASSUME mem \in Memory, job \in Job
  PROVE  NewReview \in Review
<1>1. Listed \in SUBSET Issues
  BY ListedIssues
<1> QED
  BY <1>1 DEF NewReview, Review, Memory, Job, RequestsChanges

\* A dismissal keeps the number of reviews and what each of them says.
LEMMA DismissalKeeps ==
  ASSUME reviews \in [Agents -> Seq(Review)], NEW a \in Agents, NEW k \in Nat
  PROVE  /\ Dismissal(a, k) \in [Agents -> Seq(Review)]
         /\ \A b \in Agents :
              /\ Len(Dismissal(a, k)[b]) = Len(reviews[b])
              /\ \A n \in 1..Len(reviews[b]) :
                   /\ Dismissal(a, k)[b][n].lists = reviews[b][n].lists
                   /\ Dismissal(a, k)[b][n].resolves = reviews[b][n].resolves
<1> DEFINE marked == [n \in DOMAIN reviews[a] |->
      IF n = k /\ reviews[a][n].blocking THEN [reviews[a][n] EXCEPT !.dismissed = TRUE]
      ELSE reviews[a][n]]
<1>1. /\ DOMAIN reviews[a] = 1..Len(reviews[a])
      /\ \A n \in 1..Len(reviews[a]) : reviews[a][n] \in Review
  OBVIOUS
<1>2. \A r \in Review : /\ [r EXCEPT !.dismissed = TRUE] \in Review
                        /\ [r EXCEPT !.dismissed = TRUE].lists = r.lists
                        /\ [r EXCEPT !.dismissed = TRUE].resolves = r.resolves
  BY DEF Review
<1>3. \A n \in 1..Len(reviews[a]) : /\ marked[n] \in Review
                                    /\ marked[n].lists = reviews[a][n].lists
                                    /\ marked[n].resolves = reviews[a][n].resolves
  BY <1>1, <1>2
<1>4. marked \in [1..Len(reviews[a]) -> Review]
  BY <1>1, <1>3
<1>5. marked \in Seq(Review) /\ Len(marked) = Len(reviews[a])
  BY <1>4
<1> QED
  BY <1>3, <1>5 DEF Dismissal

LEMMA GiteaStep == TypeInv /\ [Next]_vars => GiteaType'
<1> SUFFICES ASSUME TypeInv, [Next]_vars PROVE GiteaType'
  OBVIOUS
<1> USE DEF TypeInv, TypeOK
<1>1. CASE Push
  <2>1. prOpen' = prOpen /\ reviews' = reviews /\ head' = head + 1 /\ head < MaxHead
    BY <1>1 DEF Push
  <2> QED
    BY <2>1, ReviewAssumption DEF GiteaType
<1>2. CASE ClosePR
  BY <1>2 DEF ClosePR, GiteaType
<1>3. CASE Reopen
  BY <1>3 DEF Reopen, GiteaType
<1>4. CASE DismissPrevious
  <2>1. Agent \in Agents /\ mem.prev \in Nat
    BY <1>4, HasAgent DEF DismissPrevious, Shape, InReviewer, RunType, Memory
  <2>2. Dismissal(Agent, mem.prev) \in [Agents -> Seq(Review)]
    BY <2>1, DismissalKeeps DEF GiteaType
  <2> QED
    BY <1>4, <2>2 DEF DismissPrevious, GiteaType, giteaVars
<1>5. CASE Post
  <2>1. Agent \in Agents /\ NewReview \in Review
    BY <1>5, HasAgent, NewReviewType DEF Post, Shape, InReviewer, RunType
  <2>2. Publish => reviews' \in [Agents -> Seq(Review)]
    BY <2>1 DEF Publish, GiteaType
  <2> QED
    BY <1>5, <2>2 DEF Post, GiteaType, giteaVars
<1>6. CASE UNCHANGED <<prOpen, head, reviews>>
  BY <1>6 DEF GiteaType
<1> QED
  BY <1>1, <1>2, <1>3, <1>4, <1>5, <1>6, QueueKeeps DEF Next, Queueing, Canceling, Reviewer, vars, giteaVars, Start, Check, End, Begin,
     BeginFails, AgentReturns, AgentFails, Recheck, RecheckFails, RecordState, SaveFindings,
     MarkFindingsFixed, FinishReviewRun, Cancel, Crash, Quiet

LEMMA SetFindingsType ==
  ASSUME StoreType, NEW S
  PROVE  /\ SetFindings(S, "open") \in [Agents -> [Issues -> {"none", "open", "fixed"}]]
         /\ SetFindings(S, "fixed") \in [Agents -> [Issues -> {"none", "open", "fixed"}]]
BY DEF StoreType, SetFindings

LEMMA StoreStep == TypeInv /\ [Next]_vars => StoreType'
<1> SUFFICES ASSUME TypeInv, [Next]_vars PROVE StoreType'
  OBVIOUS
<1> USE DEF TypeInv, TypeOK
<1>1. CASE Begin
  BY <1>1 DEF Begin, StoreType, RowStatus
<1>2. CASE RecordState
  <2>1. Len(reviews[Agent]) \in Nat
    BY <1>2, HasAgent DEF RecordState, GiteaType, RunType, Shape, InReviewer
  <2>2. findings' = findings /\ runRows' = runRows
    BY <1>2 DEF RecordState
  <2>3. lastReview' \in [Agents -> Nat]
    BY <1>2, <2>1 DEF RecordState, StoreType
  <2> QED
    BY <2>2, <2>3 DEF StoreType
<1>3. CASE SaveFindings
  <2>1. lastReview' = lastReview /\ runRows' = runRows
    BY <1>3 DEF SaveFindings
  <2>2. findings' = findings \/ findings' = SetFindings(Listed, "open")
    BY <1>3 DEF SaveFindings
  <2> QED
    BY <2>1, <2>2, SetFindingsType DEF StoreType
<1>4. CASE MarkFindingsFixed
  <2>1. lastReview' = lastReview /\ runRows' = runRows
    BY <1>4 DEF MarkFindingsFixed
  <2>2. findings' = findings \/ findings' = SetFindings(Settled \cap Known, "fixed")
    BY <1>4 DEF MarkFindingsFixed
  <2> QED
    BY <2>1, <2>2, SetFindingsType DEF StoreType
<1>5. CASE FinishReviewRun
  <2>1. lastReview' = lastReview /\ findings' = findings
    BY <1>5 DEF FinishReviewRun
  <2>2. pc \in RowStatus /\ mem.row \in 0..Len(runRows)
    BY <1>5 DEF FinishReviewRun, Ending, Shape
  <2>3. CASE mem.row # 0 /\ runRows' = [runRows EXCEPT ![mem.row] = pc]
    BY <2>1, <2>2, <2>3 DEF StoreType
  <2>4. CASE runRows' = runRows
    BY <2>1, <2>4 DEF StoreType
  <2> QED
    BY <1>5, <2>3, <2>4 DEF FinishReviewRun
<1>6. CASE UNCHANGED <<lastReview, findings, runRows>>
  BY <1>6 DEF StoreType
<1> QED
  BY <1>1, <1>2, <1>3, <1>4, <1>5, <1>6, QueueKeeps DEF Next, Queueing, Canceling, storeVars, Reviewer, vars, Start, Check, End, BeginFails,
     AgentReturns, AgentFails, DismissPrevious, Recheck, RecheckFails, Post, Push, ClosePR, Reopen,
     Cancel, Crash, Quiet

\* The rows of jobs, and a step that changes the status of some.
LEMMA Rows ==
  ASSUME jobs \in Seq(JobRow)
  PROVE  /\ Len(jobs) \in Nat /\ DOMAIN jobs = 1..Len(jobs)
         /\ \A i \in DOMAIN jobs : jobs[i] \in JobRow /\ i \in Nat
OBVIOUS

LEMMA StatusChanges ==
  ASSUME jobs \in Seq(JobRow), NEW S, NEW st \in {"pending", "running", "over"}
  PROVE  [n \in DOMAIN jobs |-> IF n \in S THEN [jobs[n] EXCEPT !.status = st] ELSE jobs[n]] \in Seq(JobRow)
<1> DEFINE f == [n \in DOMAIN jobs |-> IF n \in S THEN [jobs[n] EXCEPT !.status = st] ELSE jobs[n]]
<1>1. \A r \in JobRow : [r EXCEPT !.status = st] \in JobRow
  BY DEF JobRow
<1>2. \A n \in DOMAIN jobs : f[n] \in JobRow
  BY <1>1, Rows
<1>3. Len(jobs) \in Nat /\ f \in [1..Len(jobs) -> JobRow]
  BY <1>2, Rows
<1> HIDE DEF f
<1>4. f \in Seq(JobRow)
  BY <1>3
<1> QED
  BY <1>4 DEF f

\* A step changes the status of some rows, or appends one.
LEMMA JobsStep ==
  ASSUME TypeInv, [Next]_vars
  PROVE  jobs' \in Seq(JobRow) /\ DOMAIN jobs \subseteq DOMAIN jobs'
<1>0. events \subseteq Event /\ jobs \in Seq(JobRow)
  BY DEF TypeInv, TypeOK, QueueType
<1> DEFINE Changed(S, st) == [n \in DOMAIN jobs |-> IF n \in S THEN [jobs[n] EXCEPT !.status = st] ELSE jobs[n]]
<1>1. ASSUME NEW S, NEW st \in {"pending", "running", "over"}, jobs' = Changed(S, st)
      PROVE  jobs' \in Seq(JobRow) /\ DOMAIN jobs \subseteq DOMAIN jobs'
  <2>1. jobs' \in Seq(JobRow)
    BY <1>0, <1>1, StatusChanges
  <2>2. DOMAIN jobs' = DOMAIN jobs
    BY <1>1
  <2> QED
    BY <2>1, <2>2
<1>2. ASSUME NEW r \in JobRow, jobs' = Append(jobs, r)
      PROVE  jobs' \in Seq(JobRow) /\ DOMAIN jobs \subseteq DOMAIN jobs'
  BY <1>0, <1>2, Rows
<1>3. CASE UNCHANGED jobs
  BY <1>0, <1>3
<1>4. ASSUME NEW i, NEW st \in {"pending", "running", "over"}, jobs' = [jobs EXCEPT ![i].status = st]
      PROVE  jobs' \in Seq(JobRow) /\ DOMAIN jobs \subseteq DOMAIN jobs'
  <2>1. [jobs EXCEPT ![i].status = st] = Changed({i}, st)
    OBVIOUS
  <2> QED
    BY <1>1, <1>4, <2>1
<1>5. ASSUME NEW r \in Event \cup JobRow PROVE Row(r, "pending") \in JobRow
  BY DEF Row, Event, JobRow
<1> HIDE DEF Changed
<1>6. CASE End
  <2>1. \/ UNCHANGED jobs
        \/ jobs' = [jobs EXCEPT ![job.id].status = "over"]
        \/ jobs' = [jobs EXCEPT ![job.id].status = "pending"]
    BY <1>6 DEF End
  <2> QED
    BY <1>3, <1>4, <2>1
<1>7. CASE Crash
  <2>1. jobs' = Changed({n \in DOMAIN jobs : jobs[n].status = "running"}, "pending")
    BY <1>7 DEF Crash, Changed
  <2> QED
    BY <1>1, <2>1
<1>8. ASSUME NEW e \in events, SupersedePending(e) \/ CancelInFlight(e) \/ EnqueueJob(e)
      PROVE  jobs' \in Seq(JobRow) /\ DOMAIN jobs \subseteq DOMAIN jobs'
  <2>1. [n \in DOMAIN jobs |-> [jobs[n] EXCEPT !.status = "over"]] = Changed(DOMAIN jobs, "over")
    BY DEF Changed
  <2>2. Row(e, "pending") \in JobRow
    BY <1>0, <1>5
  <2> QED
    BY <1>1, <1>2, <1>3, <1>8, <2>1, <2>2 DEF SupersedePending, CancelInFlight, EnqueueJob
<1>9. ASSUME NEW i \in DOMAIN jobs, Rerun(i) \/ ClaimJob(i)
      PROVE  jobs' \in Seq(JobRow) /\ DOMAIN jobs \subseteq DOMAIN jobs'
  <2>1. Row(jobs[i], "pending") \in JobRow
    BY <1>0, <1>5, Rows
  <2>2. CASE ClaimJob(i)
    <3>1. jobs' = [jobs EXCEPT ![i].status = "running"]
      BY <2>2 DEF ClaimJob
    <3> QED
      BY <1>4, <3>1
  <2> QED
    BY <1>2, <1>9, <2>1, <2>2 DEF Rerun
<1>10. ASSUME NEW i \in taken, Start(i) PROVE UNCHANGED jobs
  BY <1>10 DEF Start
<1> QED
  BY <1>3, <1>6, <1>7, <1>8, <1>9, <1>10 DEF Next, Reviewer, vars, queueVars, Check, Begin, BeginFails,
     AgentReturns, AgentFails, DismissPrevious, Recheck, RecheckFails, Post, RecordState, SaveFindings,
     MarkFindingsFixed, FinishReviewRun, Push, ClosePR, Reopen, Cancel, Quiet

LEMMA QueueStep == TypeInv /\ [Next]_vars => QueueType'
<1> SUFFICES ASSUME TypeInv, [Next]_vars PROVE QueueType'
  OBVIOUS
<1>0. events \subseteq Event /\ taken \subseteq DOMAIN jobs /\ head \in 1..MaxHead
  BY DEF TypeInv, TypeOK, QueueType, GiteaType
<1>1. ASSUME events' \subseteq Event, taken' \subseteq DOMAIN jobs PROVE QueueType'
  BY <1>1, JobsStep DEF QueueType
<1>2. ASSUME NEW e \in events, SupersedePending(e) \/ CancelInFlight(e) \/ EnqueueJob(e) PROVE QueueType'
  <2>1. \A st \in Stage : [e EXCEPT !.stage = st] \in Event
    BY <1>0 DEF Event
  <2>2. events' \subseteq Event
    BY <1>0, <1>2, <2>1 DEF SupersedePending, CancelInFlight, EnqueueJob, Proceeds, Stage
  <2>3. UNCHANGED taken
    BY <1>2 DEF SupersedePending, CancelInFlight, EnqueueJob
  <2> QED
    BY <1>0, <1>1, <2>2, <2>3
<1>3. ASSUME NEW i \in DOMAIN jobs, Rerun(i) \/ ClaimJob(i) PROVE QueueType'
  BY <1>0, <1>1, <1>3 DEF Rerun, ClaimJob
<1>4. ASSUME NEW i \in taken, Start(i) PROVE QueueType'
  BY <1>0, <1>1, <1>4 DEF Start
<1>5. CASE Push \/ Reopen
  <2>1. head < MaxHead => Sent(head + 1, TRUE) \in Event
    BY <1>0, ReviewAssumption DEF Sent, Event, Stage
  <2>2. Sent(head, FALSE) \in Event
    BY <1>0 DEF Sent, Event, Stage
  <2>3. UNCHANGED taken
    BY <1>5 DEF Push, Reopen
  <2>4. \/ head < MaxHead /\ events' = events \cup {Sent(head + 1, TRUE)}
        \/ events' = events \cup {Sent(head, FALSE)}
    BY <1>5 DEF Push, Reopen, Send
  <2>5. events' \subseteq Event
    BY <1>0, <2>1, <2>2, <2>4
  <2> QED
    BY <1>0, <1>1, <2>3, <2>5
<1>6. CASE Crash
  BY <1>0, <1>1, <1>6 DEF Crash
<1>7. CASE End
  BY <1>0, <1>1, <1>7 DEF End
<1>8. CASE UNCHANGED queueVars
  BY <1>0, <1>1, <1>8 DEF queueVars
<1> QED
  BY <1>2, <1>3, <1>4, <1>5, <1>6, <1>7, <1>8 DEF Next, Reviewer, vars, Check, Begin, BeginFails, AgentReturns,
     AgentFails, DismissPrevious, Recheck, RecheckFails, Post, RecordState, SaveFindings,
     MarkFindingsFixed, FinishReviewRun, ClosePR, Cancel, Quiet

LEMMA BudgetStep == TypeInv /\ [Next]_vars => BudgetType'
<1> SUFFICES ASSUME BudgetType, [Next]_vars PROVE BudgetType'
  BY DEF TypeInv, TypeOK
<1>1. ASSUME NEW i \in taken, Start(i) PROVE BudgetType'
  BY <1>1 DEF Start, BudgetType
<1>2. CASE Push \/ Reopen \/ Quiet \/ UNCHANGED vars
  BY <1>2 DEF Push, Reopen, Quiet, vars, budgetVars, BudgetType
<1>3. CASE ClosePR \/ Cancel \/ Crash
  BY <1>3 DEF ClosePR, Cancel, Crash, BudgetType
<1>4. ASSUME UNCHANGED budgetVars, faults' = faults \/ faults' = faults + 1 PROVE BudgetType'
  BY <1>4 DEF budgetVars, BudgetType
<1>5. ASSUME Works \/ Fails \/ Fault PROVE faults' = faults \/ faults' = faults + 1
  BY <1>5 DEF Works, Fails, Fault
<1>6. CASE Check \/ Begin \/ BeginFails \/ RecordState \/ SaveFindings \/ MarkFindingsFixed \/ End
  BY <1>4, <1>5, <1>6 DEF Check, Begin, BeginFails, RecordState, SaveFindings, MarkFindingsFixed, End
<1>7. CASE DismissPrevious \/ Recheck \/ RecheckFails \/ Post \/ FinishReviewRun \/ AgentFails
  BY <1>4, <1>5, <1>7 DEF DismissPrevious, Recheck, RecheckFails, Post, FinishReviewRun, AgentFails
<1>8. ASSUME NEW found \in SUBSET Issues, NEW fixed \in SUBSET Issues, AgentReturns(found, fixed)
      PROVE BudgetType'
  BY <1>4, <1>8 DEF AgentReturns
<1>9. CASE Queueing
  BY <1>9, QueueKeeps DEF BudgetType
<1>10. ASSUME NEW e \in events, CancelInFlight(e) PROVE BudgetType'
  BY <1>10 DEF CancelInFlight, BudgetType
<1> QED
  BY <1>1, <1>2, <1>3, <1>6, <1>7, <1>8, <1>9, <1>10 DEF Next, Queueing, Reviewer

LEMMA RunStep == TypeInv /\ [Next]_vars => RunType'
<1> SUFFICES ASSUME TypeInv, [Next]_vars PROVE RunType'
  OBVIOUS
<1> USE DEF TypeInv, TypeOK
<1>1. ASSUME NEW i \in taken, Start(i) PROVE RunType'
  <2>1. i \in Nat /\ jobs[i] \in JobRow
    BY Rows DEF QueueType
  <2>2. job' \in Job
    BY <1>1, <2>1 DEF Start, JobRow, Job
  <2> QED
    BY <1>1, <2>2, ReviewAssumption DEF Start, RunType
<1>2. CASE Check
  <2>1. todo' = todo \/ todo' = <<>>
    BY <1>2, Zenon DEF Check
  <2>2. todo' \in Seq(Agents)
    <3>1. CASE todo' = todo
      BY <3>1 DEF RunType
    <3>2. CASE todo' = <<>>
      BY <3>2
    <3> QED
      BY <2>1, <3>1, <3>2
  <2>3. bad' = bad \/ bad' = TRUE
    BY <1>2, Zenon DEF Check
  <2>4. bad' \in BOOLEAN
    BY <2>3 DEF RunType
  <2> QED
    BY <1>2, <2>2, <2>4 DEF Check, RunType
<1>3. CASE End
  BY <1>3 DEF End, RunType
<1>4. CASE Crash
  <2>1. Blank \in Memory
    BY DEF Blank, Memory
  <2>2. todo' \in Seq(Agents)
    BY <1>4 DEF Crash
  <2>3. good' \in BOOLEAN /\ bad' \in BOOLEAN /\ ctxDone' \in BOOLEAN
    BY <1>4 DEF Crash
  <2> QED
    BY <1>4, <2>1, <2>2, <2>3 DEF Crash, RunType
<1>5. CASE Cancel
  BY <1>5 DEF Cancel, RunType, loopVars
<1>6. CASE UNCHANGED <<pc, loopVars, mem, ctxDone>>
  BY <1>6 DEF RunType, loopVars
<1>7. CASE Begin
  <2>1. Agent \in Agents
    BY <1>7, HasAgent DEF Begin, RunType
  <2>2. /\ lastReview[Agent] \in Nat /\ OpenFindings(Agent) \in SUBSET Issues
        /\ Len(runRows) \in Nat
    BY <2>1 DEF StoreType, OpenFindings
  <2>3. mem' \in Memory
    BY <1>7, <2>2 DEF Begin, Memory
  <2> QED
    BY <1>7, <2>3 DEF Begin, RunType, loopVars, InReviewer
<1>8. CASE BeginFails \/ RecheckFails
  BY <1>8, HasAgent DEF BeginFails, RecheckFails, GiveUp, RunType, Shape, InReviewer
<1>9. ASSUME NEW found \in SUBSET Issues, NEW fixed \in SUBSET Issues, AgentReturns(found, fixed)
      PROVE RunType'
  <2>1. mem' \in Memory
    BY <1>9 DEF AgentReturns, RunType, Memory
  <2> QED
    BY <1>9, <2>1 DEF AgentReturns, RunType, loopVars, InReviewer
<1>10. ASSUME pc' \in InReviewer, UNCHANGED <<loopVars, mem, ctxDone>> PROVE RunType'
  BY <1>10 DEF RunType, loopVars
<1>11. CASE FinishReviewRun
  <2>1. Blank \in Memory
    BY DEF Blank, Memory
  <2>2. todo' \in Seq(Agents)
    BY <1>11, HasAgent DEF FinishReviewRun, RunType, Shape, InReviewer
  <2>3. good' \in BOOLEAN /\ bad' \in BOOLEAN
    BY <1>11 DEF FinishReviewRun
  <2> QED
    BY <1>11, <2>1, <2>2, <2>3 DEF FinishReviewRun, RunType
<1>12. CASE Queueing \/ Canceling
  <2>1. UNCHANGED <<pc, job, todo, good, bad, mem>>
    BY <1>12, QueueKeeps
  <2>2. ctxDone' = ctxDone \/ ctxDone' = TRUE
    BY <1>12, QueueKeeps DEF Canceling, CancelInFlight
  <2>3. ctxDone' \in BOOLEAN
    BY <2>2 DEF RunType
  <2> QED
    BY <2>1, <2>3 DEF RunType
<1> QED
  BY <1>1, <1>2, <1>3, <1>4, <1>5, <1>6, <1>7, <1>8, <1>9, <1>10, <1>11, <1>12
     DEF Next, Queueing, Canceling, Reviewer, vars, AgentFails, DismissPrevious, Recheck, Post, RecordState, SaveFindings,
     MarkFindingsFixed, Push, ClosePR, Reopen, Quiet, InReviewer, Ending, RowStatus

\* The steps of a reviewer's part that keep its loop, its row and its locals.
Within == \/ DismissPrevious \/ Recheck \/ Post \/ AgentFails
          \/ RecordState \/ SaveFindings \/ MarkFindingsFixed

LEMMA WithinKeeps ==
  ASSUME Within
  PROVE  pc \in InReviewer /\ pc' \in InReviewer /\ UNCHANGED <<job, todo, good, bad, mem, runRows>>
BY DEF Within, DismissPrevious, Recheck, Post, AgentFails, RecordState, SaveFindings,
   MarkFindingsFixed, InReviewer, Ending, RowStatus, loopVars, storeVars, queueVars

\* No step removes a review.
LEMMA ReviewsGrow ==
  ASSUME TypeInv, [Next]_vars
  PROVE  \A a \in Agents : Len(reviews[a]) \in Nat /\ Len(reviews'[a]) \in Nat /\ Len(reviews[a]) <= Len(reviews'[a])
<1> USE DEF TypeInv, TypeOK
<1>1. \A a \in Agents : Len(reviews[a]) \in Nat
  BY DEF GiteaType
<1>2. CASE DismissPrevious
  <2>1. Agent \in Agents /\ mem.prev \in Nat
    BY <1>2, HasAgent DEF DismissPrevious, Shape, InReviewer, RunType, Memory
  <2>2. \A b \in Agents : Len(Dismissal(Agent, mem.prev)[b]) = Len(reviews[b])
    BY <2>1, DismissalKeeps DEF GiteaType
  <2> QED
    BY <1>1, <1>2, <2>2 DEF DismissPrevious
<1>3. CASE Post
  <2>1. Agent \in Agents /\ NewReview \in Review
    BY <1>3, HasAgent, NewReviewType DEF Post, Shape, InReviewer, RunType
  <2>2. Publish => \A a \in Agents : Len(reviews'[a]) \in {Len(reviews[a]), Len(reviews[a]) + 1}
    BY <2>1 DEF Publish, GiteaType
  <2> QED
    BY <1>1, <1>3, <2>2 DEF Post
<1>4. CASE UNCHANGED reviews
  BY <1>1, <1>4
<1> QED
  BY <1>2, <1>3, <1>4, QueueKeeps DEF Next, Queueing, Canceling, Reviewer, vars, Start, Check, End, Begin,
     BeginFails, AgentReturns, AgentFails, Recheck, RecheckFails, RecordState, SaveFindings,
     MarkFindingsFixed, FinishReviewRun, Push, ClosePR, Reopen, Cancel, Crash, Quiet

LEMMA ShapeStep == TypeInv /\ [Next]_vars => Shape'
<1> SUFFICES ASSUME TypeInv, [Next]_vars PROVE Shape'
  OBVIOUS
<1> USE DEF TypeInv, TypeOK
<1>1. \A a \in Agents : lastReview'[a] \in 0..Len(reviews'[a])
  <2>1. CASE RecordState
    <3>1. Agent \in Agents /\ reviews' = reviews
      BY <2>1, HasAgent DEF RecordState, Shape, InReviewer, RunType
    <3>2. \A a \in Agents : lastReview'[a] \in {lastReview[a], Len(reviews[a])}
      BY <2>1, <3>1 DEF RecordState, StoreType
    <3> QED
      BY <3>1, <3>2, ReviewsGrow DEF Shape
  <2>2. CASE UNCHANGED lastReview
    BY <2>2, ReviewsGrow DEF Shape
  <2> QED
    BY <2>1, <2>2, QueueKeeps DEF Next, Queueing, Canceling, Reviewer, vars, storeVars, Start, Check, End, Begin, BeginFails, AgentReturns,
       AgentFails, DismissPrevious, Recheck, RecheckFails, Post, SaveFindings, MarkFindingsFixed,
       FinishReviewRun, Push, ClosePR, Reopen, Cancel, Crash, Quiet
<1>2. ASSUME pc' = pc, UNCHANGED <<job, todo, mem, runRows>> PROVE Shape'
  <2>1. pc \in InReviewer => Agent \in Agents /\ Agent' = Agent
    BY <1>2, HasAgent DEF RunType, Shape, Agent
  <2> QED
    BY <1>1, <1>2, <2>1, ReviewsGrow DEF Shape
<1>3. CASE Within
  <2>1. Agent \in Agents /\ Agent' = Agent
    BY <1>3, WithinKeeps, HasAgent DEF RunType, Shape, Agent
  <2> QED
    <3>1. pc # "idle" /\ pc \in InReviewer /\ UNCHANGED <<job, todo, mem, runRows>>
      BY <1>3, WithinKeeps DEF InReviewer, Ending, RowStatus
    <3>2. mem.prev \in 0..Len(reviews[Agent])
      BY <3>1 DEF Shape
    <3>3. mem'.prev \in 0..Len(reviews'[Agent'])
      BY <2>1, <3>1, <3>2, ReviewsGrow DEF Shape
    <3> QED
      BY <1>1, <3>1, <3>3 DEF Shape
<1>4. ASSUME pc' \notin InReviewer, pc' # "idle" => job' \in Job, mem'.row \in 0..Len(runRows')
      PROVE  Shape'
  BY <1>1, <1>4 DEF Shape
<1>5. ASSUME NEW i \in taken, Start(i) PROVE Shape'
  <2>1. i \in Nat /\ jobs[i] \in JobRow
    BY Rows DEF QueueType
  <2>2. job' \in Job
    BY <1>5, <2>1 DEF Start, JobRow, Job
  <2> QED
    BY <1>4, <1>5, <2>2 DEF Start, storeVars, InReviewer, Ending, RowStatus, Shape
<1>6. CASE Check \/ BeginFails \/ RecheckFails
  BY <1>4, <1>6 DEF Check, BeginFails, RecheckFails, GiveUp, storeVars, InReviewer, Ending, RowStatus, Shape
<1>7. CASE End
  BY <1>4, <1>7 DEF End, storeVars, InReviewer, Ending, RowStatus, Shape
<1>8. CASE Crash \/ FinishReviewRun
  <2>1. Blank.row \in 0..Len(runRows')
    BY StoreStep DEF Blank, StoreType
  <2> QED
    BY <1>4, <1>8, <2>1 DEF Crash, FinishReviewRun, InReviewer, Ending, RowStatus, Shape
<1>9. CASE Begin
  <2>1. Agent \in Agents /\ Agent' = Agent /\ reviews' = reviews
    BY <1>9, HasAgent DEF Begin, RunType, loopVars, Agent
  <2>2. mem'.prev = lastReview[Agent] /\ mem'.row \in 0..Len(runRows')
    BY <1>9 DEF Begin, StoreType
  <2> QED
    BY <1>1, <1>9, <2>1, <2>2 DEF Begin, Shape, loopVars
<1>10. ASSUME NEW found \in SUBSET Issues, NEW fixed \in SUBSET Issues, AgentReturns(found, fixed)
       PROVE Shape'
  <2>1. Agent \in Agents /\ Agent' = Agent
    BY <1>10, HasAgent DEF AgentReturns, RunType, Shape, InReviewer, loopVars, Agent
  <2>2. mem'.prev = mem.prev /\ mem'.row = mem.row
    BY <1>10 DEF AgentReturns, RunType, Memory
  <2> QED
    BY <1>1, <1>10, <2>1, <2>2 DEF AgentReturns, Shape, loopVars, storeVars, InReviewer
<1> QED
  BY <1>2, <1>3, <1>5, <1>6, <1>7, <1>8, <1>9, <1>10, QueueKeeps
     DEF Next, Queueing, Canceling, Reviewer, Within, vars, loopVars, storeVars, Push, ClosePR, Reopen, Cancel, Quiet

LEMMA StepTypes == TypeInv /\ [Next]_vars => TypeInv'
BY GiteaStep, StoreStep, QueueStep, BudgetStep, RunStep, ShapeStep DEF TypeInv, TypeOK

\* Every variable of a run keeps its type, whatever fails and for every number
\* of reviewers and findings.
THEOREM TypeCorrect == Spec => []TypeOK
<1>1. TypeInv => TypeOK
  BY DEF TypeInv
<1> QED
  BY InitTypes, StepTypes, <1>1, PTL DEF Spec

-----------------------------------------------------------------------------
(* The refinement of FindingLedger.                                        *)

\* What was read before the agent ran is still what the table says when the
\* review is posted, and what is written after it is what the review says.
LedgerInv ==
  /\ pc \in {"agent", "dismiss", "recheck", "post"} => mem.prior = OpenFindings(Agent)
  /\ pc \in {"record", "save", "fix"} =>
       /\ reviews[Agent] # <<>>
       /\ LastOf(Agent).lists = Listed
       /\ LastOf(Agent).resolves = mem.resolved

\* Publishing makes the new review of the agent its last.
LEMMA PublishShows ==
  ASSUME TypeInv, Publish, pc \in InReviewer
  PROVE  /\ Agent \in Agents
         /\ reviews'[Agent] # <<>>
         /\ reviews'[Agent][Len(reviews'[Agent])] = NewReview
         /\ LastLists' = [LastLists EXCEPT ![Agent] = Listed]
         /\ LastResolves' = [LastResolves EXCEPT ![Agent] = mem.resolved]
<1> USE DEF TypeInv, TypeOK
<1>1. Agent \in Agents /\ NewReview \in Review
  <2>1. pc # "idle"
    BY DEF InReviewer, Ending, RowStatus
  <2> QED
    BY <2>1, HasAgent, NewReviewType DEF RunType, Shape
<1>2. DEFINE s == Append(reviews[Agent], NewReview)
<1>3. s # <<>> /\ s[Len(s)] = NewReview
  BY <1>1 DEF GiteaType
<1>4. reviews' = [reviews EXCEPT ![Agent] = s]
  BY DEF Publish
<1>5. reviews'[Agent] = s /\ \A a \in Agents \ {Agent} : reviews'[a] = reviews[a]
  BY <1>1, <1>4 DEF GiteaType
<1>6. NewReview.lists = Listed /\ NewReview.resolves = mem.resolved
  BY DEF NewReview
<1> HIDE DEF s
<1>7. LastLists' = [LastLists EXCEPT ![Agent] = Listed]
  BY <1>1, <1>3, <1>5, <1>6 DEF LastLists, LastOf
<1>8. LastResolves' = [LastResolves EXCEPT ![Agent] = mem.resolved]
  BY <1>1, <1>3, <1>5, <1>6 DEF LastResolves, LastOf
<1> QED
  BY <1>1, <1>3, <1>5, <1>7, <1>8

\* A dismissal changes nothing of what the last reviews say.
LEMMA DismissalShowsTheSame ==
  ASSUME TypeInv, DismissPrevious
  PROVE  LastLists' = LastLists /\ LastResolves' = LastResolves
<1> USE DEF TypeInv, TypeOK
<1>1. Agent \in Agents /\ mem.prev \in Nat
  BY HasAgent DEF DismissPrevious, Shape, InReviewer, RunType, Memory
<1>2. CASE reviews' = reviews
  BY <1>2 DEF LastLists, LastResolves, LastOf
<1>3. CASE reviews' = Dismissal(Agent, mem.prev)
  <2>1. ASSUME NEW a \in Agents
        PROVE  /\ reviews'[a] = <<>> <=> reviews[a] = <<>>
               /\ reviews[a] # <<>> =>
                    /\ reviews'[a][Len(reviews'[a])].lists = LastOf(a).lists
                    /\ reviews'[a][Len(reviews'[a])].resolves = LastOf(a).resolves
    <3>1. reviews[a] \in Seq(Review) /\ reviews'[a] \in Seq(Review)
      BY <1>1, <1>3, DismissalKeeps DEF GiteaType
    <3>2. Len(reviews'[a]) = Len(reviews[a])
      BY <1>1, <1>3, DismissalKeeps DEF GiteaType
    <3>3. reviews[a] # <<>> => Len(reviews[a]) \in 1..Len(reviews[a])
      BY <3>1
    <3>4. \A n \in 1..Len(reviews[a]) : /\ reviews'[a][n].lists = reviews[a][n].lists
                                         /\ reviews'[a][n].resolves = reviews[a][n].resolves
      BY <1>1, <1>3, DismissalKeeps DEF GiteaType
    <3>5. reviews'[a] = <<>> <=> reviews[a] = <<>>
      BY <3>1, <3>2
    <3> QED
      BY <3>2, <3>3, <3>4, <3>5 DEF LastOf
  <2> QED
    BY <2>1 DEF LastLists, LastResolves, LastOf
<1> QED
  BY <1>2, <1>3 DEF DismissPrevious

LEMMA InitLedger == Init => LedgerInv /\ Ledger!Init
BY DEF Init, LedgerInv, Ledger!Init, LastLists, LastResolves

LEMMA StepLedger == TypeInv /\ LedgerInv /\ [Next]_vars => LedgerInv'
<1> SUFFICES ASSUME TypeInv, LedgerInv, [Next]_vars PROVE LedgerInv'
  OBVIOUS
<1> USE DEF TypeInv, TypeOK
<1>1. ASSUME pc' \notin {"agent", "dismiss", "recheck", "post", "record", "save", "fix"}
      PROVE  LedgerInv'
  BY <1>1 DEF LedgerInv
<1>2. ASSUME pc' = pc, UNCHANGED <<todo, mem, findings, reviews>> PROVE LedgerInv'
  BY <1>2 DEF LedgerInv, Agent, OpenFindings, LastOf, Listed, Carried
<1>3. CASE Begin
  BY <1>3 DEF Begin, LedgerInv, loopVars, Agent, OpenFindings
<1>4. ASSUME NEW found \in SUBSET Issues, NEW fixed \in SUBSET Issues, AgentReturns(found, fixed)
      PROVE LedgerInv'
  BY <1>4 DEF AgentReturns, LedgerInv, loopVars, storeVars, Agent, OpenFindings, RunType, Memory
<1>5. CASE DismissPrevious \/ Recheck
  BY <1>5 DEF DismissPrevious, Recheck, LedgerInv, loopVars, storeVars, Agent, OpenFindings
<1>6. CASE Post
  <2>1. CASE Publish /\ pc' = "record"
    <3>1. Listed' = Listed /\ Agent' = Agent /\ mem' = mem
      BY <1>6 DEF Post, loopVars, Listed, Carried, Agent
    <3> QED
      BY <1>6, <2>1, <3>1, PublishShows DEF Post, LedgerInv, InReviewer, LastOf, NewReview
  <2>2. CASE pc' # "record"
    BY <1>1, <1>6, <2>2 DEF Post
  <2> QED
    BY <1>6, <2>1, <2>2 DEF Post
<1>7. CASE RecordState \/ SaveFindings
  BY <1>7 DEF RecordState, SaveFindings, LedgerInv, loopVars, Agent, LastOf, Listed, Carried
<1> QED
  BY <1>1, <1>2, <1>3, <1>4, <1>5, <1>6, <1>7, QueueKeeps
     DEF Next, Queueing, Canceling, Reviewer, vars, loopVars, storeVars, Start, Check, End, BeginFails, AgentFails, RecheckFails, GiveUp,
         MarkFindingsFixed, FinishReviewRun, Push, ClosePR, Reopen, Cancel, Crash, Quiet

\* Every step of a run is a step of the ledger or leaves it alone.
LEMMA StepRefines == TypeInv /\ LedgerInv /\ [Next]_vars => [Ledger!Next]_(Ledger!ledgerVars)
<1> SUFFICES ASSUME TypeInv, LedgerInv, [Next]_vars PROVE [Ledger!Next]_(Ledger!ledgerVars)
  OBVIOUS
<1> USE DEF TypeInv, TypeOK
<1>1. CASE UNCHANGED <<findings, reviews>>
  BY <1>1 DEF Ledger!ledgerVars, LastLists, LastResolves, LastOf
<1>2. CASE DismissPrevious
  BY <1>2, DismissalShowsTheSame DEF DismissPrevious, storeVars, Ledger!ledgerVars
<1>3. CASE Post
  <2>1. CASE Publish
    <3>1. Listed \in SUBSET Issues /\ mem.resolved \in SUBSET Issues /\ findings' = findings
      BY <1>3, ListedIssues DEF Post, RunType, Memory, storeVars
    <3>2. \A i \in Ledger!Open(Agent) : Ledger!Accounts(i, Listed, mem.resolved)
      BY <1>3 DEF Post, LedgerInv, OpenFindings, Ledger!Open, Ledger!Accounts, Listed, Carried
    <3>3. Agent \in Agents /\ Ledger!Publish(Agent, Listed, mem.resolved)
      BY <1>3, <2>1, <3>1, <3>2, PublishShows DEF Post, InReviewer, Ledger!Publish
    <3> QED
      BY <3>1, <3>3 DEF Ledger!Next
  <2> QED
    BY <1>1, <1>3, <2>1 DEF Post, storeVars
<1>4. CASE SaveFindings
  <2>1. Agent \in Agents /\ LastLists[Agent] = Listed
    BY <1>4, HasAgent DEF SaveFindings, LedgerInv, LastLists, RunType, Shape, InReviewer
  <2>2. CASE findings' = SetFindings(Listed, "open")
    <3>1. Ledger!Enter(Agent)
      BY <1>4, <2>1, <2>2 DEF SaveFindings, SetFindings, Ledger!Enter, LastLists, LastResolves, LastOf
    <3> QED
      BY <2>1, <3>1 DEF Ledger!Next
  <2> QED
    BY <1>1, <1>4, <2>2 DEF SaveFindings
<1>5. CASE MarkFindingsFixed
  <2>1. Agent \in Agents /\ LastLists[Agent] = Listed /\ LastResolves[Agent] = mem.resolved
    BY <1>5, HasAgent DEF MarkFindingsFixed, LedgerInv, LastLists, LastResolves, RunType, Shape, InReviewer
  <2>2. CASE findings' = SetFindings(Settled \cap Known, "fixed")
    <3>1. \A i \in Issues : i \in Settled \cap Known <=>
              i \in LastResolves[Agent] \ LastLists[Agent] /\ findings[Agent][i] # "none"
      BY <2>1 DEF Settled, Known
    <3>2. Ledger!Settle(Agent)
      BY <1>5, <2>1, <2>2, <3>1
         DEF MarkFindingsFixed, SetFindings, Ledger!Settle, LastLists, LastResolves, LastOf
    <3> QED
      BY <2>1, <3>2 DEF Ledger!Next
  <2> QED
    BY <1>1, <1>5, <2>2 DEF MarkFindingsFixed
<1> QED
  BY <1>1, <1>2, <1>3, <1>4, <1>5, QueueKeeps DEF Next, Queueing, Canceling, Reviewer, vars, storeVars, Start, Check, End, Begin,
     BeginFails, AgentReturns, AgentFails, Recheck, RecheckFails, RecordState, FinishReviewRun,
     Push, ClosePR, Reopen, Cancel, Crash, Quiet

\* A review run implements FindingLedger, whatever fails: the table of findings
\* moves only by what the last posted review of the agent says, and no review
\* passes over a finding that is open in it.
THEOREM ImplementsLedger == Spec => LedgerSpec
BY InitTypes, StepTypes, InitLedger, StepLedger, StepRefines, PTL DEF Spec, LedgerSpec, Ledger!Spec

\* The ledger keeps open findings accounted for.
LEMMA LedgerKeeps ==
  ASSUME TypeInv, OpenIsShown, [Ledger!Next]_(Ledger!ledgerVars)
  PROVE  OpenIsShown'
<1> USE DEF OpenIsShown, Ledger!NothingHidden, Ledger!Open, Ledger!Accounts, TypeInv, TypeOK, StoreType
<1>1. DOMAIN LastLists = Agents /\ DOMAIN LastResolves = Agents
  BY DEF LastLists, LastResolves
<1>2. ASSUME NEW a \in Agents, NEW L \in SUBSET Issues, NEW R \in SUBSET Issues, Ledger!Publish(a, L, R)
      PROVE  OpenIsShown'
  <2>1. \A b \in Agents : LastLists'[b] = (IF b = a THEN L ELSE LastLists[b])
                      /\ LastResolves'[b] = (IF b = a THEN R ELSE LastResolves[b])
    BY <1>1, <1>2 DEF Ledger!Publish, LastLists, LastResolves
  <2> QED
    BY <1>2, <2>1 DEF Ledger!Publish
<1>3. ASSUME NEW a \in Agents, Ledger!Enter(a) PROVE OpenIsShown'
  BY <1>3 DEF Ledger!Enter
<1>4. ASSUME NEW a \in Agents, Ledger!Settle(a) PROVE OpenIsShown'
  BY <1>4 DEF Ledger!Settle
<1>5. CASE UNCHANGED Ledger!ledgerVars
  BY <1>5 DEF Ledger!ledgerVars
<1> QED
  BY <1>2, <1>3, <1>4, <1>5 DEF Ledger!Next

\* Every open finding is listed or declared fixed by the last review of its
\* agent, through failing calls, cancelled runs and crashes.
THEOREM NoFindingHidden == Spec => []OpenIsShown
<1>1. Init => OpenIsShown
  BY DEF Init, OpenIsShown, Ledger!NothingHidden, Ledger!Open
<1>2. TypeInv /\ LedgerInv /\ OpenIsShown /\ [Next]_vars => OpenIsShown'
  BY LedgerKeeps, StepRefines
<1> QED
  BY InitTypes, StepTypes, InitLedger, StepLedger, <1>1, <1>2, PTL DEF Spec
-----------------------------------------------------------------------------
(* The order of the reviews of one agent.                                  *)

\* What a dismissal leaves of the head and verdict of a review, and which
\* reviews it leaves active.
LEMMA DismissalMarks ==
  ASSUME reviews \in [Agents -> Seq(Review)], NEW a \in Agents, NEW k \in Nat
  PROVE  \A b \in Agents : \A n \in 1..Len(reviews[b]) :
           /\ Dismissal(a, k)[b][n].head = reviews[b][n].head
           /\ Dismissal(a, k)[b][n].blocking = reviews[b][n].blocking
           /\ b # a => Dismissal(a, k)[b][n] = reviews[b][n]
<1> DEFINE marked == [n \in DOMAIN reviews[a] |->
      IF n = k /\ reviews[a][n].blocking THEN [reviews[a][n] EXCEPT !.dismissed = TRUE]
      ELSE reviews[a][n]]
<1>1. /\ DOMAIN reviews[a] = 1..Len(reviews[a])
      /\ \A n \in 1..Len(reviews[a]) : reviews[a][n] \in Review
  OBVIOUS
<1>2. \A r \in Review : /\ [r EXCEPT !.dismissed = TRUE].head = r.head
                        /\ [r EXCEPT !.dismissed = TRUE].blocking = r.blocking
  BY DEF Review
<1>3. \A n \in 1..Len(reviews[a]) : /\ marked[n].head = reviews[a][n].head
                                    /\ marked[n].blocking = reviews[a][n].blocking
  BY <1>1, <1>2
<1> QED
  BY <1>3 DEF Dismissal

\* Publishing leaves the reviews before the new one alone.
LEMMA PublishKeeps ==
  ASSUME TypeInv, Publish, pc \in InReviewer
  PROVE  /\ Agent \in Agents
         /\ \A b \in Agents \ {Agent} : reviews'[b] = reviews[b]
         /\ Len(reviews'[Agent]) = Len(reviews[Agent]) + 1
         /\ \A n \in 1..Len(reviews[Agent]) : reviews'[Agent][n] = reviews[Agent][n]
         /\ reviews'[Agent][Len(reviews[Agent]) + 1] = NewReview
<1>1. Agent \in Agents /\ NewReview \in Review
  <2>1. pc # "idle"
    BY DEF InReviewer, Ending, RowStatus
  <2> QED
    BY <2>1, HasAgent, NewReviewType DEF TypeInv, TypeOK, RunType, Shape
<1>2. reviews[Agent] \in Seq(Review)
  BY <1>1 DEF TypeInv, TypeOK, GiteaType
<1>3. reviews' = [reviews EXCEPT ![Agent] = Append(reviews[Agent], NewReview)]
  BY DEF Publish
<1>4. /\ reviews'[Agent] = Append(reviews[Agent], NewReview)
      /\ \A b \in Agents \ {Agent} : reviews'[b] = reviews[b]
  BY <1>1, <1>3 DEF TypeInv, TypeOK, GiteaType
<1> QED
  BY <1>1, <1>2, <1>4

\* What happened is only counted up.
LEMMA Counted ==
  ASSUME TypeInv, [Next]_vars
  PROVE  /\ fresh \in Nat /\ faults \in Nat /\ cancels \in Nat /\ crashes \in Nat /\ closes \in Nat
         /\ fresh' \in {fresh, fresh + 1} /\ faults' \in {faults, faults + 1}
         /\ cancels' \in {cancels, cancels + 1} /\ crashes' \in {crashes, crashes + 1}
         /\ closes' \in {closes, closes + 1}
<1>0. fresh \in Nat /\ faults \in Nat /\ cancels \in Nat /\ crashes \in Nat /\ closes \in Nat
  BY DEF TypeInv, TypeOK, BudgetType
<1> DEFINE Counting == /\ fresh' \in {fresh, fresh + 1} /\ faults' \in {faults, faults + 1}
                       /\ cancels' \in {cancels, cancels + 1} /\ crashes' \in {crashes, crashes + 1}
                       /\ closes' \in {closes, closes + 1}
<1>1. ASSUME NEW i \in taken, Start(i) PROVE UNCHANGED <<faults, cancels, crashes, closes>> /\ fresh' \in {fresh, fresh + 1}
  BY <1>1 DEF Start
<1>2. ASSUME ClosePR \/ Cancel \/ Crash PROVE Counting
  BY <1>2 DEF ClosePR, Cancel, Crash
<1>3. ASSUME Works \/ Fails \/ Fault PROVE faults' \in {faults, faults + 1}
  BY <1>3 DEF Works, Fails, Fault
<1>4. ASSUME Check \/ Begin \/ BeginFails \/ RecordState \/ SaveFindings \/ MarkFindingsFixed PROVE Counting
  BY <1>3, <1>4 DEF Check, Begin, BeginFails, RecordState, SaveFindings, MarkFindingsFixed, budgetVars
<1>5. ASSUME DismissPrevious \/ Recheck \/ RecheckFails \/ Post \/ FinishReviewRun \/ AgentFails PROVE Counting
  BY <1>3, <1>5 DEF DismissPrevious, Recheck, RecheckFails, Post, FinishReviewRun, AgentFails, budgetVars
<1>6. ASSUME NEW found \in SUBSET Issues, NEW fixed \in SUBSET Issues, AgentReturns(found, fixed)
      PROVE UNCHANGED <<fresh, faults, cancels, crashes, closes>>
  BY <1>6 DEF AgentReturns, budgetVars
<1>7. ASSUME Queueing PROVE Counting
  BY <1>7, QueueKeeps
<1>8. ASSUME NEW e \in events, CancelInFlight(e)
      PROVE  UNCHANGED <<fresh, faults, crashes, closes>> /\ cancels' \in {cancels, cancels + 1}
  BY <1>8 DEF CancelInFlight
<1>9. ASSUME Push \/ Reopen \/ Quiet \/ UNCHANGED vars PROVE Counting
  BY <1>9 DEF Push, Reopen, Quiet, vars, budgetVars
<1>10. ASSUME End PROVE Counting
  <2>1. UNCHANGED faults \/ Fault
    BY <1>10, Zenon DEF End
  <2> QED
    BY <1>3, <1>10, <2>1 DEF End, budgetVars
<1> QED
  BY <1>0, <1>1, <1>2, <1>4, <1>5, <1>6, <1>7, <1>8, <1>9, <1>10 DEF Next, Queueing, Reviewer

LEMMA UndisturbedBefore ==
  ASSUME TypeInv, [Next]_vars, Undisturbed'
  PROVE  Undisturbed /\ UNCHANGED <<faults, cancels, crashes, closes>>
BY Counted DEF Undisturbed

-----------------------------------------------------------------------------
(* Blocking findings between runs.                                         *)

\* A context that ended was counted, and so was a pull request that is closed.
Calm == (ctxDone => cancels # 0) /\ (~prOpen => closes # 0)

\* Agent a has dismissed its last review and not posted the next.
Replacing(a) == pc \in {"recheck", "post"} /\ a = Agent

\* Agent a has posted a review the table does not show yet.
Writing(a) == pc \in {"record", "save", "fix"} /\ a = Agent

\* The last review of an agent is active but for the moment between dismissal
\* and post, and lists what is open in the table but for the moment after the
\* post.
HeldInv ==
  Undisturbed => \A a \in Agents :
    /\ reviews[a] # <<>> =>
         /\ LastOf(a).blocking <=> LastOf(a).lists \cap Blocking # {}
         /\ ~Replacing(a) => ~LastOf(a).dismissed
    /\ ~Writing(a) => \A i \in OpenFindings(a) : {i, CarriedAs[i]} \cap LastLists[a] # {}

LEMMA InitHeld == Init => Calm /\ HeldInv
BY DEF Init, Calm, HeldInv, Replacing, Writing, OpenFindings, LastLists

LEMMA StepCalm ==
  ASSUME TypeInv, Calm, [Next]_vars
  PROVE  Calm'
<1>1. CASE Cancel \/ ClosePR
  BY <1>1, Counted DEF Cancel, ClosePR, Calm, giteaVars
<1>2. ASSUME NEW e \in events, CancelInFlight(e) PROVE Calm'
  BY <1>2, Counted DEF CancelInFlight, Calm, giteaVars
<1>3. ASSUME ctxDone' => ctxDone, ~prOpen' => ~prOpen PROVE Calm'
  BY <1>3, Counted DEF Calm
<1>4. ASSUME NEW i \in taken, Start(i) PROVE Calm'
  BY <1>3, <1>4 DEF Start, giteaVars
<1>5. CASE End
  <2>1. ctxDone' = FALSE /\ prOpen' = prOpen
    BY <1>5 DEF End, giteaVars
  <2> QED
    BY <1>3, <2>1
<1>6. CASE Crash
  BY <1>3, <1>6 DEF Crash, giteaVars
<1>7. CASE Queueing
  BY <1>3, <1>7, QueueKeeps
<1>8. CASE Push \/ Reopen
  <2>1. ctxDone' = ctxDone /\ (prOpen' = prOpen \/ prOpen' = TRUE)
    BY <1>8 DEF Push, Reopen
  <2> QED
    BY <1>3, <2>1, Zenon
<1>9. ASSUME UNCHANGED <<giteaVars, ctxDone>> PROVE Calm'
  BY <1>3, <1>9 DEF giteaVars
<1>10. CASE Quiet \/ UNCHANGED vars
  BY <1>9, <1>10 DEF Quiet, vars
<1> QED
  BY <1>1, <1>2, <1>4, <1>5, <1>6, <1>7, <1>8, <1>9, <1>10 DEF Next, Queueing, Reviewer, Check,
     Begin, BeginFails, AgentReturns, AgentFails, DismissPrevious, Recheck, RecheckFails, Post, RecordState,
     SaveFindings, MarkFindingsFixed, FinishReviewRun

LEMMA HeldAlone ==
  ASSUME HeldInv, Undisturbed' => Undisturbed, UNCHANGED <<reviews, findings>>,
         \A a \in Agents : Replacing(a) => Replacing(a)',
         \A a \in Agents : Writing(a) => Writing(a)'
  PROVE  HeldInv'
<1>1. \A a \in Agents : /\ LastOf(a)' = LastOf(a)
                        /\ LastLists'[a] = LastLists[a]
                        /\ OpenFindings(a)' = OpenFindings(a)
  BY DEF LastOf, LastLists, OpenFindings
<1> QED
  BY <1>1 DEF HeldInv

LEMMA StepHeld ==
  ASSUME TypeInv, LedgerInv, OpenIsShown, Calm, HeldInv, [Next]_vars
  PROVE  HeldInv'
<1> SUFFICES ASSUME Undisturbed' PROVE HeldInv'
  BY DEF HeldInv
<1>0. Undisturbed /\ faults = 0 /\ UNCHANGED <<faults, cancels, crashes, closes>>
  BY UndisturbedBefore DEF Undisturbed
<1>1. Undisturbed' => Undisturbed
  BY <1>0
<1>2. ~Fails /\ ~ctxDone /\ prOpen
  BY <1>0 DEF Fails, Fault, Undisturbed, Calm
<1>3. ASSUME pc \notin {"recheck", "post", "record", "save", "fix"}, UNCHANGED <<reviews, findings>>
      PROVE  HeldInv'
  BY <1>1, <1>3, HeldAlone DEF Replacing, Writing
<1>4. ASSUME UNCHANGED <<pc, todo, reviews, findings>> PROVE HeldInv'
  BY <1>1, <1>4, HeldAlone DEF Replacing, Writing, Agent
<1>5. CASE DismissPrevious
  <2>1. Agent \in Agents /\ mem.prev \in Nat /\ Agent' = Agent
    BY <1>5, HasAgent DEF DismissPrevious, Shape, InReviewer, RunType, Memory, TypeInv, TypeOK, loopVars, Agent
  <2>2. pc = "dismiss" /\ pc' = "recheck" /\ findings' = findings
    BY <1>5 DEF DismissPrevious, storeVars
  <2>3. LastLists' = LastLists
    BY <1>5, DismissalShowsTheSame
  <2>4. ASSUME NEW a \in Agents, reviews'[a] # <<>>
        PROVE  /\ reviews[a] # <<>>
               /\ LastOf(a)'.lists = LastOf(a).lists
               /\ LastOf(a)'.blocking = LastOf(a).blocking
               /\ a # Agent => LastOf(a)' = LastOf(a)
    <3>1. reviews \in [Agents -> Seq(Review)]
      BY DEF TypeInv, TypeOK, GiteaType
    <3>2. CASE reviews' = reviews
      BY <2>4, <3>2 DEF LastOf
    <3>3. CASE reviews' = Dismissal(Agent, mem.prev)
      <4>1. reviews[a] \in Seq(Review) /\ reviews'[a] \in Seq(Review)
        BY <2>1, <3>1, <3>3, DismissalKeeps
      <4>2. Len(reviews'[a]) = Len(reviews[a])
        BY <2>1, <3>1, <3>3, DismissalKeeps
      <4>3. reviews[a] # <<>> /\ Len(reviews[a]) \in 1..Len(reviews[a])
        BY <2>4, <4>1, <4>2
      <4>4. \A n \in 1..Len(reviews[a]) : reviews'[a][n].lists = reviews[a][n].lists
        BY <2>1, <3>1, <3>3, DismissalKeeps
      <4>5. \A n \in 1..Len(reviews[a]) :
              /\ reviews'[a][n].blocking = reviews[a][n].blocking
              /\ a # Agent => reviews'[a][n] = reviews[a][n]
        BY <2>1, <3>1, <3>3, DismissalMarks
      <4> QED
        BY <4>2, <4>3, <4>4, <4>5 DEF LastOf
    <3> QED
      BY <1>5, <3>2, <3>3 DEF DismissPrevious
  <2>5. \A a \in Agents : OpenFindings(a)' = OpenFindings(a) /\ ~Writing(a) /\ ~Writing(a)'
                       /\ ~Replacing(a) /\ (Replacing(a)' <=> a = Agent)
    BY <2>1, <2>2 DEF OpenFindings, Writing, Replacing
  <2> QED
    BY <1>1, <2>3, <2>4, <2>5 DEF HeldInv
<1>6. CASE Post
  <2>1. pc = "post" /\ pc \in InReviewer /\ findings' = findings /\ Agent' = Agent
    BY <1>6 DEF Post, storeVars, InReviewer, loopVars, Agent
  <2>2. CASE Publish /\ pc' = "record"
    <3>1. \A a \in Agents \ {Agent} : LastOf(a)' = LastOf(a) /\ reviews'[a] = reviews[a]
      BY <2>1, <2>2, PublishKeeps DEF LastOf
    <3>2. /\ Agent \in Agents
          /\ \A a \in Agents : a = Agent => LastOf(a)' = NewReview
          /\ LastLists' = [LastLists EXCEPT ![Agent] = Listed]
      BY <2>1, <2>2, PublishShows DEF LastOf
    <3>3. ~NewReview.dismissed /\ (NewReview.blocking <=> NewReview.lists \cap Blocking # {})
      BY DEF NewReview, RequestsChanges
    <3>4. \A a \in Agents : /\ OpenFindings(a)' = OpenFindings(a)
                            /\ Writing(a)' <=> a = Agent
                            /\ a # Agent => ~Replacing(a) /\ ~Writing(a)
      BY <2>1, <2>2 DEF OpenFindings, Writing, Replacing
    <3>5. \A a \in Agents \ {Agent} : LastLists'[a] = LastLists[a]
      BY <3>2 DEF LastLists
    <3> QED
      BY <1>1, <3>1, <3>2, <3>3, <3>4, <3>5 DEF HeldInv
  <2> QED
    BY <1>2, <1>6, <2>2 DEF Post
<1>7. CASE Recheck
  BY <1>1, <1>2, <1>7, HeldAlone DEF Recheck, Replacing, Writing, loopVars, storeVars, Agent
<1>8. CASE RecordState
  BY <1>1, <1>8, HeldAlone DEF RecordState, Replacing, Writing, loopVars, Agent
<1>9. CASE SaveFindings \/ MarkFindingsFixed
  <2>1. /\ Agent \in Agents /\ Agent' = Agent /\ UNCHANGED reviews
        /\ pc \in {"save", "fix"} /\ pc' \in {"fix", "done"}
    BY <1>9, HasAgent DEF SaveFindings, MarkFindingsFixed, Shape, InReviewer, RunType, TypeInv, TypeOK,
       loopVars, Agent
  <2>2. \A a \in Agents : LastOf(a)' = LastOf(a) /\ LastLists'[a] = LastLists[a]
    BY <2>1 DEF LastOf, LastLists
  <2>3. ASSUME NEW a \in Agents \ {Agent} PROVE OpenFindings(a)' = OpenFindings(a)
    <3>1. \A S, v : SetFindings(S, v)[a] = findings[a]
      BY DEF SetFindings, TypeInv, TypeOK, StoreType
    <3> QED
      BY <1>9, <3>1 DEF SaveFindings, MarkFindingsFixed, OpenFindings
  <2>4. \A a \in Agents : a = Agent /\ pc = "fix" =>
             \A i \in OpenFindings(a)' : {i, CarriedAs[i]} \cap LastLists[a] # {}
    <3> SUFFICES ASSUME pc = "fix", NEW i \in Issues, findings'[Agent][i] = "open"
                 PROVE  {i, CarriedAs[i]} \cap LastLists[Agent] # {}
      BY DEF OpenFindings
    <3>1. i \in Issues /\ findings'[Agent][i] = "open"
      OBVIOUS
    <3>2. findings' = SetFindings(Settled \cap Known, "fixed")
      BY <1>2, <1>9 DEF SaveFindings, MarkFindingsFixed
    <3>3. findings[Agent][i] = "open" /\ i \notin Settled \cap Known
      BY <2>1, <3>1, <3>2 DEF SetFindings, TypeInv, TypeOK, StoreType
    <3>4. i \notin Settled
      BY <3>1, <3>3 DEF Known
    <3>5. /\ LastLists[Agent] = Listed
          /\ LastResolves[Agent] = mem.resolved
      BY <2>1 DEF LedgerInv, LastLists, LastResolves
    <3>6. {i, CarriedAs[i]} \cap LastLists[Agent] # {} \/ i \in LastResolves[Agent]
      BY <2>1, <3>1, <3>3 DEF OpenIsShown, Ledger!NothingHidden, Ledger!Open, Ledger!Accounts
    <3> QED
      BY <3>4, <3>5, <3>6 DEF Settled
  <2>5. \A a \in Agents : /\ ~Replacing(a) /\ ~Replacing(a)'
                          /\ a # Agent => ~Writing(a)
                          /\ ~Writing(a)' => a # Agent \/ pc = "fix"
    BY <1>9, <2>1 DEF Replacing, Writing, SaveFindings, MarkFindingsFixed
  <2>6. ASSUME NEW a \in Agents, reviews'[a] # <<>>
        PROVE  /\ LastOf(a)'.blocking <=> LastOf(a)'.lists \cap Blocking # {}
               /\ ~LastOf(a)'.dismissed
    BY <1>0, <2>1, <2>2, <2>5, <2>6 DEF HeldInv
  <2>7. ASSUME NEW a \in Agents, ~Writing(a)'
        PROVE  \A i \in OpenFindings(a)' : {i, CarriedAs[i]} \cap LastLists'[a] # {}
    <3>1. CASE a # Agent
      BY <1>0, <2>2, <2>3, <2>5, <2>7, <3>1 DEF HeldInv
    <3>2. CASE a = Agent
      BY <2>2, <2>4, <2>5, <2>7, <3>2
    <3> QED
      BY <3>1, <3>2
  <2> QED
    BY <1>1, <2>6, <2>7 DEF HeldInv
<1>10. CASE \/ \E i \in taken : Start(i)
            \/ Check \/ End \/ Begin \/ AgentFails \/ FinishReviewRun
            \/ \E found, fixed \in SUBSET Issues : AgentReturns(found, fixed)
  BY <1>3, <1>10 DEF Start, Check, End, Begin, AgentFails, FinishReviewRun, AgentReturns, storeVars,
     Ending, RowStatus
<1>11. CASE Push \/ ClosePR \/ Reopen \/ Quiet \/ Queueing \/ Canceling \/ UNCHANGED vars
  BY <1>4, <1>11, QueueKeeps DEF Push, ClosePR, Reopen, Quiet, vars, storeVars, loopVars
<1>12. ~BeginFails /\ ~RecheckFails
  BY <1>2 DEF BeginFails, RecheckFails
<1>13. ~Cancel /\ ~Crash
  BY <1>0 DEF Cancel, Crash, Undisturbed
<1> QED
  BY <1>5, <1>6, <1>7, <1>8, <1>9, <1>10, <1>11, <1>12, <1>13 DEF Next, Queueing, Canceling, Reviewer

\* Between runs the last review of the agent is the one that holds.
LEMMA HeldSuffices ==
  ASSUME TypeInv, HeldInv
  PROVE  BlockingHeld
<1> SUFFICES ASSUME pc = "idle", Undisturbed, NEW a \in Agents, NEW i \in OpenFindings(a) \cap Blocking
             PROVE  \E n \in Vetoes(a) : {i, CarriedAs[i]} \cap reviews[a][n].lists # {}
  BY DEF BlockingHeld
<1>1. ~Replacing(a) /\ ~Writing(a)
  BY DEF Replacing, Writing
<1>2. {i, CarriedAs[i]} \cap LastLists[a] # {}
  BY <1>1 DEF HeldInv
<1>3. reviews[a] # <<>> /\ {i, CarriedAs[i]} \cap LastOf(a).lists # {}
  BY <1>2 DEF LastLists
<1>4. LastOf(a).lists \cap Blocking # {}
  BY <1>3, ReviewAssumption
<1>5. ~LastOf(a).dismissed /\ LastOf(a).blocking
  BY <1>1, <1>3, <1>4 DEF HeldInv
<1>6. Len(reviews[a]) \in DOMAIN reviews[a]
  BY <1>3 DEF TypeInv, TypeOK, GiteaType
<1> QED
  BY <1>3, <1>5, <1>6 DEF Vetoes, LastOf

\* While no call failed, no run was interrupted and the pull request was not
\* closed, every open blocking finding is backed, between runs, by an active
\* review that lists it, perhaps under a new title, and requests changes, for
\* every number of reviewers, findings, pushes and reruns, in whatever order the
\* jobs run.
THEOREM BlockingStaysHeld == Spec => []BlockingHeld
<1>1. Init => TypeInv /\ LedgerInv /\ OpenIsShown /\ Calm /\ HeldInv
  BY InitTypes, InitLedger, InitHeld DEF Init, OpenIsShown, Ledger!NothingHidden, Ledger!Open
<1>2. TypeInv /\ LedgerInv /\ OpenIsShown /\ Calm /\ HeldInv /\ [Next]_vars =>
        (TypeInv /\ LedgerInv /\ OpenIsShown /\ Calm /\ HeldInv)'
  <2> SUFFICES ASSUME TypeInv, LedgerInv, OpenIsShown, Calm, HeldInv, [Next]_vars
               PROVE  (TypeInv /\ LedgerInv /\ OpenIsShown /\ Calm /\ HeldInv)'
    OBVIOUS
  <2>1. TypeInv' /\ LedgerInv'
    BY StepTypes, StepLedger
  <2>2. OpenIsShown'
    BY StepRefines, LedgerKeeps
  <2>3. Calm' /\ HeldInv'
    BY StepCalm, StepHeld
  <2> QED
    BY <2>1, <2>2, <2>3
<1>3. TypeInv /\ HeldInv => BlockingHeld
  BY HeldSuffices
<1> QED
  BY <1>1, <1>2, <1>3, PTL DEF Spec


-----------------------------------------------------------------------------
(* The vetoes of one agent.                                                *)

Distinct(s) == \A m, n \in DOMAIN s : s[m] = s[n] => m = n

\* A reviewer has its turn once in a run; until the old review is dismissed
\* the one read is the one recorded; between runs no context has ended.
RunFacts ==
  /\ Distinct(todo)
  /\ pc \in {"agent", "dismiss"} => mem.prev = lastReview[Agent]
  /\ pc = "idle" => ~ctxDone

\* The review the next update of agent a replaces, if it is recorded.
LastId(a) == IF pc = "record" /\ a = Agent THEN Len(reviews[a]) ELSE lastReview[a]

\* The vetoes no update will dismiss any more.
Loose(a) == Vetoes(a) \ {LastId(a)}

\* The run may still post a review of agent a.
MayPost(a) ==
  pc # "idle" /\ \E n \in DOMAIN todo :
    todo[n] = a /\ (n = 1 => pc \notin {"record", "save", "fix"} \cup Ending)

\* Agent a may get another loose veto before the end of the run.
Credit(a) ==
  \/ MayPost(a) /\ (~job.isUpdate \/ ctxDone)
  \/ pc \in {"recheck", "post"} /\ a = Agent /\ lastReview[a] \in Vetoes(a)
  \/ pc = "record" /\ a = Agent /\ ctxDone

\* What a loose veto can be owed to.
Owed == fresh + faults + cancels + crashes

\* Every loose veto, and the one that may come, has its cause.
LooseBound(a) == Cardinality(Loose(a)) + (IF Credit(a) THEN 1 ELSE 0) <= Owed

LEMMA VetoNumbers ==
  ASSUME TypeInv, NEW a \in Agents
  PROVE  /\ Len(reviews[a]) \in Nat /\ DOMAIN reviews[a] = 1..Len(reviews[a])
         /\ IsFiniteSet(Vetoes(a)) /\ IsFiniteSet(Loose(a))
         /\ Cardinality(Vetoes(a)) \in Nat /\ Cardinality(Loose(a)) \in Nat
         /\ lastReview[a] \in Nat /\ Owed \in Nat
<1>1. Len(reviews[a]) \in Nat /\ DOMAIN reviews[a] = 1..Len(reviews[a])
  BY DEF TypeInv, TypeOK, GiteaType
<1>2. IsFiniteSet(1..Len(reviews[a]))
  BY <1>1, FS_Interval
<1>3. Vetoes(a) \in SUBSET (1..Len(reviews[a]))
  BY <1>1 DEF Vetoes
<1>4. IsFiniteSet(Vetoes(a))
  BY <1>2, <1>3, FS_Subset
<1>5. Loose(a) \in SUBSET Vetoes(a)
  BY DEF Loose
<1>6. IsFiniteSet(Loose(a))
  BY <1>4, <1>5, FS_Subset
<1>7. lastReview[a] \in Nat /\ Owed \in Nat
  BY DEF TypeInv, TypeOK, StoreType, BudgetType, Owed
<1> QED
  BY <1>1, <1>4, <1>6, <1>7, FS_CardinalityType

\* The accounts: a step adds no loose veto and no credit, or it has a cause of
\* its own, or the credit is spent on one more.
LEMMA Account ==
  ASSUME TypeInv, [Next]_vars, NEW a \in Agents, LooseBound(a),
         \/ Loose(a)' \subseteq Loose(a) /\ (Credit(a)' => Credit(a))
         \/ Loose(a)' \subseteq Loose(a) /\ Owed' > Owed
         \/ \E x : Loose(a)' \subseteq Loose(a) \cup {x} /\ ~Credit(a)' /\ (Credit(a) \/ Owed' > Owed)
  PROVE  LooseBound(a)'
<1>1. IsFiniteSet(Loose(a)) /\ Cardinality(Loose(a)) \in Nat /\ Owed \in Nat
  BY VetoNumbers
<1>2. Owed' \in Nat /\ Owed' >= Owed
  BY Counted DEF Owed
<1>3. Cardinality(Loose(a)) + (IF Credit(a) THEN 1 ELSE 0) <= Owed
  BY DEF LooseBound
<1>4. Loose(a)' \subseteq Loose(a) =>
        Cardinality(Loose(a)') \in Nat /\ Cardinality(Loose(a)') <= Cardinality(Loose(a))
  BY <1>1, FS_Subset, FS_CardinalityType
<1>5. ASSUME NEW x, Loose(a)' \subseteq Loose(a) \cup {x}
      PROVE  Cardinality(Loose(a)') \in Nat /\ Cardinality(Loose(a)') <= Cardinality(Loose(a)) + 1
  <2>1. /\ IsFiniteSet(Loose(a) \cup {x})
        /\ Cardinality(Loose(a) \cup {x}) \in {Cardinality(Loose(a)), Cardinality(Loose(a)) + 1}
    BY <1>1, FS_AddElement
  <2>2. IsFiniteSet(Loose(a)') /\ Cardinality(Loose(a)') <= Cardinality(Loose(a) \cup {x})
    BY <1>5, <2>1, FS_Subset
  <2> QED
    BY <1>1, <2>1, <2>2, FS_CardinalityType
<1>6. LooseBound(a)' <=> Cardinality(Loose(a)') + (IF Credit(a)' THEN 1 ELSE 0) <= Owed'
  BY DEF LooseBound
<1> QED
  BY <1>1, <1>2, <1>3, <1>4, <1>5, <1>6

LEMMA TailDistinct ==
  ASSUME todo \in Seq(Agents), todo # <<>>, Distinct(todo)
  PROVE  /\ Distinct(Tail(todo))
         /\ \A a \in Agents : (\E n \in DOMAIN Tail(todo) : Tail(todo)[n] = a) =>
                                \E n \in DOMAIN todo : todo[n] = a /\ n # 1
<1>1. /\ Len(todo) \in Nat \ {0} /\ DOMAIN todo = 1..Len(todo)
      /\ DOMAIN Tail(todo) = 1..Len(todo) - 1
      /\ \A n \in DOMAIN Tail(todo) : Tail(todo)[n] = todo[n + 1]
  OBVIOUS
<1>2. \A n \in DOMAIN Tail(todo) : n \in Nat /\ n + 1 \in DOMAIN todo /\ n + 1 # 1
  BY <1>1
<1>3. Distinct(Tail(todo))
  BY <1>1, <1>2 DEF Distinct
<1> QED
  BY <1>1, <1>2, <1>3

\* In a run that is past the turn of its agent, the agent has no other.
LEMMA TurnPassed ==
  ASSUME TypeInv, Distinct(todo), pc \in {"record", "save", "fix"} \cup Ending
  PROVE  ~MayPost(Agent)
<1>1. todo \in Seq(Agents) /\ todo # <<>>
  BY DEF TypeInv, TypeOK, RunType, Shape, InReviewer
<1>2. 1 \in DOMAIN todo /\ Agent = todo[1]
  BY <1>1 DEF Agent
<1> QED
  BY <1>2 DEF MayPost, Distinct

LEMMA InitVetoes == Init => RunFacts /\ \A a \in Agents : LooseBound(a)
<1> SUFFICES ASSUME Init PROVE RunFacts /\ \A a \in Agents : LooseBound(a)
  OBVIOUS
<1>1. RunFacts
  BY DEF Init, RunFacts, Distinct
<1>2. ASSUME NEW a \in Agents PROVE LooseBound(a)
  <2>1. Loose(a) = {} /\ ~Credit(a) /\ Owed = 0
    <3>1. DOMAIN reviews[a] = {}
      BY DEF Init
    <3>2. Loose(a) = {}
      BY <3>1 DEF Loose, Vetoes
    <3> QED
      BY <3>2 DEF Init, Credit, MayPost, Owed
  <2> QED
    BY <2>1, FS_EmptySet DEF LooseBound
<1> QED
  BY <1>1, <1>2

LEMMA StepFacts ==
  ASSUME TypeInv, RunFacts, [Next]_vars
  PROVE  RunFacts'
<1>1. ASSUME NEW i \in taken, Start(i) PROVE RunFacts'
  BY <1>1, ReviewAssumption DEF Start, RunFacts, Distinct
<1>2. CASE Check
  <2>1. todo' = todo \/ todo' = <<>>
    BY <1>2, Zenon DEF Check
  <2>2. Distinct(todo)' /\ pc' = "next"
    BY <1>2, <2>1 DEF Check, RunFacts, Distinct
  <2> QED
    BY <2>2 DEF RunFacts
<1>3. CASE End
  <2>1. todo' = todo /\ pc' = "idle" /\ ctxDone' = FALSE
    BY <1>3 DEF End
  <2> QED
    BY <2>1 DEF RunFacts, Distinct
<1>4. CASE Begin
  <2>1. todo' = todo /\ pc' = "agent" /\ lastReview' = lastReview /\ mem'.prev = lastReview[Agent]
    BY <1>4 DEF Begin, loopVars
  <2> QED
    BY <2>1 DEF RunFacts, Distinct, Agent
<1>5. CASE BeginFails \/ RecheckFails
  <2>1. todo \in Seq(Agents) /\ todo # <<>> /\ todo' = Tail(todo) /\ pc' = "next"
    BY <1>5 DEF BeginFails, RecheckFails, GiveUp, TypeInv, TypeOK, RunType, Shape, InReviewer
  <2>2. Distinct(Tail(todo))
    BY <2>1, TailDistinct DEF RunFacts
  <2> QED
    BY <2>1, <2>2 DEF RunFacts, Distinct
<1>6. ASSUME NEW found \in SUBSET Issues, NEW fixed \in SUBSET Issues, AgentReturns(found, fixed)
      PROVE  RunFacts'
  <2>1. UNCHANGED <<todo, lastReview>> /\ pc = "agent" /\ pc' = "dismiss" /\ mem'.prev = mem.prev
    BY <1>6 DEF AgentReturns, loopVars, storeVars, TypeInv, TypeOK, RunType, Memory
  <2> QED
    BY <2>1 DEF RunFacts, Distinct, Agent
<1>7. ASSUME UNCHANGED todo, pc' \notin {"idle", "agent", "dismiss"} PROVE RunFacts'
  BY <1>7 DEF RunFacts, Distinct
<1>8. CASE FinishReviewRun
  <2>1. todo \in Seq(Agents) /\ todo # <<>> /\ (todo' = Tail(todo) \/ todo' = <<>>) /\ pc' = "next"
    BY <1>8 DEF FinishReviewRun, TypeInv, TypeOK, RunType, Shape, InReviewer
  <2>2. Distinct(Tail(todo))
    BY <2>1, TailDistinct DEF RunFacts
  <2> QED
    BY <2>1, <2>2 DEF RunFacts, Distinct
<1>9. CASE Crash
  BY <1>9 DEF Crash, RunFacts, Distinct
<1>10. ASSUME UNCHANGED <<pc, todo, mem, lastReview>>, pc = "idle" => UNCHANGED ctxDone PROVE RunFacts'
  BY <1>10 DEF RunFacts, Distinct, Agent
<1>11. CASE Cancel \/ Canceling
  BY <1>10, <1>11, QueueKeeps DEF Cancel, Canceling, CancelInFlight, loopVars, storeVars
<1>12. CASE Queueing
  BY <1>10, <1>12, QueueKeeps
<1>13. CASE Push \/ ClosePR \/ Reopen \/ Quiet \/ UNCHANGED vars
  BY <1>10, <1>13 DEF Push, ClosePR, Reopen, Quiet, vars, loopVars, storeVars
<1>14. CASE AgentFails \/ DismissPrevious \/ Recheck \/ Post \/ RecordState \/ SaveFindings \/ MarkFindingsFixed
  BY <1>7, <1>14 DEF AgentFails, DismissPrevious, Recheck, Post, RecordState, SaveFindings,
     MarkFindingsFixed, loopVars
<1> QED
  BY <1>1, <1>2, <1>3, <1>4, <1>5, <1>6, <1>8, <1>9, <1>11, <1>12, <1>13, <1>14
     DEF Next, Queueing, Canceling, Reviewer

\* The reviews and their record stay, and the agent is between the same calls.
LEMMA LooseAlone ==
  ASSUME NEW a \in Agents, UNCHANGED <<reviews, lastReview>>, LastId(a)' = LastId(a)
  PROVE  Loose(a)' = Loose(a) /\ Vetoes(a)' = Vetoes(a)
BY DEF Loose, Vetoes

\* A dismissal adds no veto, and the dismissed review is none.
LEMMA DismissalVetoes ==
  ASSUME reviews \in [Agents -> Seq(Review)], NEW b \in Agents, NEW k \in Nat,
         reviews' = Dismissal(b, k), NEW a \in Agents
  PROVE  Vetoes(a)' \subseteq Vetoes(a) /\ (a = b => k \notin Vetoes(a)')
<1> DEFINE marked == [n \in DOMAIN reviews[b] |->
      IF n = k /\ reviews[b][n].blocking THEN [reviews[b][n] EXCEPT !.dismissed = TRUE]
      ELSE reviews[b][n]]
<1>1. reviews'[a] = IF a = b THEN marked ELSE reviews[a]
  BY DEF Dismissal
<1>2. \A n \in DOMAIN reviews[b] : reviews[b][n] \in Review
  OBVIOUS
<1>3. \A r \in Review : /\ [r EXCEPT !.dismissed = TRUE].dismissed
                        /\ [r EXCEPT !.dismissed = TRUE].blocking = r.blocking
  BY DEF Review
<1>4. DOMAIN marked = DOMAIN reviews[b]
  OBVIOUS
<1>5. \A n \in DOMAIN marked : marked[n].blocking /\ ~marked[n].dismissed =>
                                 reviews[b][n].blocking /\ ~reviews[b][n].dismissed /\ n # k
  BY <1>2, <1>3, <1>4
<1> HIDE DEF marked
<1> QED
  BY <1>1, <1>4, <1>5 DEF Vetoes

\* Posting adds the new review to the vetoes of its agent, if it is one.
LEMMA PublishVetoes ==
  ASSUME TypeInv, Publish, pc \in InReviewer, NEW a \in Agents
  PROVE  /\ a # Agent => Vetoes(a)' = Vetoes(a)
         /\ a = Agent => /\ Vetoes(a)' \subseteq Vetoes(a) \cup {Len(reviews[a]) + 1}
                         /\ Len(reviews'[a]) = Len(reviews[a]) + 1
<1>1. CASE a # Agent
  BY <1>1, PublishKeeps DEF Vetoes
<1>2. CASE a = Agent
  <2>1. /\ DOMAIN reviews[a] = 1..Len(reviews[a]) /\ Len(reviews[a]) \in Nat
        /\ reviews'[a] = Append(reviews[a], NewReview)
    BY <1>2 DEF Publish, TypeInv, TypeOK, GiteaType
  <2>2. DOMAIN reviews'[a] = 1..Len(reviews[a]) + 1
    BY <2>1 DEF TypeInv, TypeOK, GiteaType
  <2>3. \A n \in 1..Len(reviews[a]) : reviews'[a][n] = reviews[a][n]
    BY <1>2, PublishKeeps
  <2> QED
    BY <1>2, <2>1, <2>2, <2>3, PublishKeeps DEF Vetoes
<1> QED
  BY <1>1, <1>2

\* A step between two calls that leaves the reviews and their record alone.
LEMMA CreditAlone ==
  ASSUME NEW a \in Agents, UNCHANGED <<reviews, lastReview, job, ctxDone>>,
         pc # "record", pc' # "record", pc' \in {"recheck", "post"} => pc = "recheck" /\ UNCHANGED todo,
         MayPost(a)' => MayPost(a)
  PROVE  Loose(a)' \subseteq Loose(a) /\ (Credit(a)' => Credit(a))
<1>1. Loose(a)' = Loose(a) /\ Vetoes(a)' = Vetoes(a)
  BY LooseAlone DEF LastId
<1>2. pc' \in {"recheck", "post"} => Agent' = Agent
  BY DEF Agent
<1> QED
  BY <1>1, <1>2 DEF Credit

\* A dismissal is tried: only one that fails may leave a veto to be replaced.
LEMMA DismissVetoes ==
  ASSUME TypeInv, RunFacts, [Next]_vars, NEW a \in Agents, LooseBound(a), DismissPrevious
  PROVE  LooseBound(a)'
<1>1. /\ pc = "dismiss" /\ pc' = "recheck" /\ mem.prev = lastReview[Agent] /\ Agent' = Agent
      /\ UNCHANGED <<todo, job, ctxDone, lastReview, fresh, cancels, crashes>>
  BY DEF DismissPrevious, RunFacts, loopVars, storeVars, budgetVars, Agent
<1>2. Agent \in Agents /\ mem.prev \in Nat /\ reviews \in [Agents -> Seq(Review)]
  BY <1>1, HasAgent DEF Shape, InReviewer, RunType, Memory, GiteaType, TypeInv, TypeOK
<1>3. Vetoes(a)' \subseteq Vetoes(a)
  <2>1. UNCHANGED reviews => Vetoes(a)' = Vetoes(a)
    BY DEF Vetoes
  <2> QED
    BY <1>2, <2>1, DismissalVetoes DEF DismissPrevious
<1>4. Loose(a)' \subseteq Loose(a)
  BY <1>1, <1>3 DEF Loose, LastId
<1>5. CASE faults' = faults + 1
  <2>1. Owed' > Owed
    BY <1>1, <1>5, Counted DEF Owed
  <2> QED
    BY <1>4, <2>1, Account
<1>6. CASE ctxDone \/ ~job.isUpdate
  <2>1. MayPost(a)' => MayPost(a)
    BY <1>1 DEF MayPost, Ending, RowStatus
  <2>2. a = Agent => MayPost(a)
    <3>1. 1 \in DOMAIN todo /\ todo[1] = Agent
      BY <1>1 DEF TypeInv, TypeOK, RunType, Shape, InReviewer, Agent
    <3> QED
      BY <1>1, <3>1 DEF MayPost, Ending, RowStatus
  <2>3. Credit(a)' => Credit(a)
    BY <1>1, <1>6, <2>1, <2>2 DEF Credit
  <2> QED
    BY <1>4, <2>3, Account
<1>7. CASE ~ctxDone /\ job.isUpdate /\ faults' # faults + 1
  <2>1. a = Agent => lastReview[a] \notin Vetoes(a)'
    <3>1. CASE mem.prev = 0
      <4>1. DOMAIN reviews[a] = 1..Len(reviews[a])
        BY <1>2
      <4>2. 0 \notin Vetoes(a)
        BY <4>1 DEF Vetoes
      <4> QED
        BY <1>1, <1>3, <3>1, <4>2
    <3>2. CASE mem.prev # 0
      <4>1. reviews' = Dismissal(Agent, mem.prev)
        BY <1>7, <3>2 DEF DismissPrevious, Replaces, Fails, Fault
      <4> QED
        BY <1>1, <1>2, <4>1, DismissalVetoes
    <3> QED
      BY <3>1, <3>2
  <2>2. ~Credit(a)'
    BY <1>1, <1>7, <2>1 DEF Credit
  <2> QED
    BY <1>4, <2>2, Account
<1> QED
  BY <1>5, <1>6, <1>7

\* A review is posted: the credit is spent on what it does not replace, or on
\* the review itself when its id is lost.
LEMMA PostVetoes ==
  ASSUME TypeInv, RunFacts, [Next]_vars, NEW a \in Agents, LooseBound(a), Post
  PROVE  LooseBound(a)'
<1>1. /\ pc = "post" /\ pc' \in {"record", "skipped", "failed"} /\ Agent' = Agent
      /\ UNCHANGED <<todo, job, ctxDone, lastReview, fresh, cancels, crashes>>
  BY DEF Post, loopVars, storeVars, budgetVars, Agent
<1>2. /\ DOMAIN reviews[a] = 1..Len(reviews[a]) /\ Len(reviews[a]) \in Nat
      /\ 1 \in DOMAIN todo /\ todo[1] = Agent /\ pc \in InReviewer
  BY <1>1 DEF TypeInv, TypeOK, GiteaType, RunType, Shape, InReviewer, Agent
<1>3. MayPost(a)' => MayPost(a) /\ a # Agent
  BY <1>1, <1>2 DEF MayPost, RunFacts, Distinct, Ending, RowStatus
<1>4. a = Agent => MayPost(a)
  BY <1>1, <1>2 DEF MayPost, Ending, RowStatus
<1>5. CASE UNCHANGED reviews /\ pc' # "record"
  <2>1. Loose(a)' = Loose(a)
    BY <1>1, <1>5, LooseAlone DEF LastId
  <2>2. Credit(a)' => Credit(a)
    BY <1>1, <1>3, <1>5 DEF Credit
  <2> QED
    BY <2>1, <2>2, Account
<1>6. CASE Publish /\ a # Agent
  <2>1. Loose(a)' \subseteq Loose(a)
    BY <1>1, <1>2, <1>6, PublishVetoes DEF Loose, LastId
  <2>2. Credit(a)' => Credit(a)
    BY <1>1, <1>3, <1>6 DEF Credit
  <2> QED
    BY <2>1, <2>2, Account
<1>7. CASE Publish /\ a = Agent /\ pc' = "record" /\ ~ctxDone
  <2>1. Vetoes(a)' \subseteq Vetoes(a) \cup {Len(reviews[a]) + 1}
    BY <1>2, <1>7, PublishVetoes
  <2>2. LastId(a)' = Len(reviews[a]) + 1 /\ LastId(a) = lastReview[a]
    BY <1>1, <1>2, <1>7, PublishVetoes DEF LastId
  <2>3. ~Credit(a)'
    BY <1>1, <1>3, <1>7 DEF Credit
  <2>4. CASE lastReview[a] \in Vetoes(a)
    <3>1. Loose(a)' \subseteq Loose(a) \cup {lastReview[a]}
      BY <2>1, <2>2 DEF Loose
    <3>2. Credit(a)
      BY <1>1, <1>7, <2>4 DEF Credit
    <3> QED
      BY <2>3, <3>1, <3>2, Account
  <2>5. CASE lastReview[a] \notin Vetoes(a)
    <3>1. Loose(a)' \subseteq Loose(a)
      BY <2>1, <2>2, <2>5 DEF Loose
    <3> QED
      BY <2>3, <3>1, Account
  <2> QED
    BY <2>4, <2>5
<1>8. CASE Publish /\ a = Agent /\ pc' = "failed" /\ Fails
  <2>1. Loose(a)' \subseteq Loose(a) \cup {Len(reviews[a]) + 1}
    BY <1>1, <1>2, <1>8, PublishVetoes DEF Loose, LastId
  <2>2. ~Credit(a)'
    BY <1>1, <1>3, <1>8 DEF Credit
  <2>3. Credit(a) \/ Owed' > Owed
    BY <1>1, <1>4, <1>8, Counted DEF Credit, Owed, Fails, Fault
  <2> QED
    BY <2>1, <2>2, <2>3, Account
<1> QED
  BY <1>5, <1>6, <1>7, <1>8 DEF Post, Works

LEMMA RecordVetoes ==
  ASSUME TypeInv, RunFacts, [Next]_vars, NEW a \in Agents, LooseBound(a), RecordState
  PROVE  LooseBound(a)'
<1>1. /\ pc = "record" /\ pc' = "save" /\ Agent' = Agent
      /\ UNCHANGED <<todo, job, ctxDone, reviews, fresh, cancels, crashes>>
  BY DEF RecordState, loopVars, budgetVars, Agent
<1>2. Agent \in Agents /\ lastReview \in [Agents -> Nat]
  BY <1>1, HasAgent DEF TypeInv, TypeOK, StoreType, RunType, Shape, InReviewer
<1>3. ~MayPost(Agent)
  BY <1>1, TurnPassed DEF RunFacts
<1>4. MayPost(a)' => MayPost(a)
  BY <1>1 DEF MayPost
<1>5. Credit(a)' => Credit(a)
  BY <1>1, <1>4 DEF Credit
<1>6. Vetoes(a)' = Vetoes(a)
  BY <1>1 DEF Vetoes
<1>7. CASE a # Agent \/ lastReview' = [lastReview EXCEPT ![Agent] = Len(reviews[Agent])]
  <2>1. LastId(a)' = LastId(a)
    <3>1. a # Agent => lastReview'[a] = lastReview[a]
      BY <1>2 DEF RecordState
    <3>2. a = Agent => lastReview'[a] = Len(reviews[a])
      BY <1>2, <1>7
    <3> QED
      BY <1>1, <3>1, <3>2 DEF LastId
  <2>2. Loose(a)' = Loose(a)
    BY <1>6, <2>1 DEF Loose
  <2> QED
    BY <1>5, <2>2, Account
<1>8. CASE a = Agent /\ Fails
  <2>1. Loose(a)' \subseteq Loose(a) \cup {LastId(a)}
    BY <1>6 DEF Loose
  <2>2. ~Credit(a)'
    BY <1>1, <1>3, <1>4, <1>8 DEF Credit
  <2>3. Credit(a) \/ Owed' > Owed
    BY <1>1, <1>8, Counted DEF Credit, Owed, Fails, Fault
  <2> QED
    BY <2>1, <2>2, <2>3, Account
<1> QED
  BY <1>7, <1>8 DEF RecordState

LEMMA StepVetoes ==
  ASSUME TypeInv, RunFacts, [Next]_vars, NEW a \in Agents, LooseBound(a)
  PROVE  LooseBound(a)'
<1>1. ASSUME NEW i \in taken, Start(i) PROVE LooseBound(a)'
  <2>1. /\ pc = "idle" /\ pc' = "check" /\ ~ctxDone /\ job'.isUpdate = jobs[i].isUpdate
        /\ UNCHANGED <<reviews, lastReview, ctxDone, faults, cancels, crashes>>
    BY <1>1 DEF Start, RunFacts, storeVars
  <2>2. Loose(a)' = Loose(a)
    BY <2>1, LooseAlone DEF LastId
  <2>3. CASE jobs[i].isUpdate
    <3>1. ~Credit(a)'
      BY <2>1, <2>3 DEF Credit
    <3> QED
      BY <2>2, <3>1, Account
  <2>4. CASE ~jobs[i].isUpdate
    <3>1. fresh' = fresh + 1
      BY <1>1, <2>4 DEF Start
    <3>2. Owed' > Owed
      BY <2>1, <3>1, Counted DEF Owed
    <3> QED
      BY <2>2, <3>2, Account
  <2> QED
    BY <2>3, <2>4
<1>2. ASSUME UNCHANGED <<reviews, lastReview, pc, todo, job, ctxDone>> PROVE LooseBound(a)'
  <2>1. Loose(a)' = Loose(a) /\ Vetoes(a)' = Vetoes(a) /\ MayPost(a)' = MayPost(a) /\ Agent' = Agent
    BY <1>2, LooseAlone DEF LastId, Agent, MayPost
  <2>2. Credit(a)' => Credit(a)
    BY <1>2, <2>1 DEF Credit
  <2> QED
    BY <2>1, <2>2, Account
<1>3. CASE Cancel \/ Canceling
  <2>1. /\ UNCHANGED <<reviews, lastReview, pc, todo, job, fresh, faults, crashes>>
        /\ UNCHANGED ctxDone \/ cancels' = cancels + 1
    BY <1>3, QueueKeeps DEF Cancel, Canceling, CancelInFlight, loopVars, storeVars
  <2>2. CASE cancels' = cancels + 1
    <3>1. Loose(a)' = Loose(a)
      BY <2>1, LooseAlone DEF LastId, Agent
    <3>2. Owed' > Owed
      BY <2>1, <2>2, Counted DEF Owed
    <3> QED
      BY <3>1, <3>2, Account
  <2> QED
    BY <1>2, <2>1, <2>2
<1>4. ASSUME UNCHANGED <<reviews, lastReview, job, ctxDone>>, pc # "record", pc' # "record",
             pc' \in {"recheck", "post"} => pc = "recheck" /\ UNCHANGED todo,
             MayPost(a)' => MayPost(a)
      PROVE  LooseBound(a)'
  BY <1>4, CreditAlone, Account
<1>5. ASSUME pc # "idle", UNCHANGED todo, pc \notin {"record", "save", "fix"} \cup Ending
      PROVE  MayPost(a)' => MayPost(a)
  BY <1>5 DEF MayPost
<1>6. CASE Check
  <2>1. pc = "check" /\ pc' = "next" /\ UNCHANGED <<reviews, lastReview, job, ctxDone>>
        /\ (todo' = todo \/ todo' = <<>>)
    BY <1>6, Zenon DEF Check, storeVars
  <2>2. MayPost(a)' => MayPost(a)
    BY <2>1 DEF MayPost, Ending, RowStatus
  <2> QED
    BY <1>4, <2>1, <2>2
<1>7. CASE \/ Begin \/ AgentFails \/ Recheck
           \/ \E found, fixed \in SUBSET Issues : AgentReturns(found, fixed)
  <2>1. /\ UNCHANGED <<reviews, lastReview, job, ctxDone, todo>>
        /\ pc \in {"next", "agent", "recheck"} /\ pc' # "record"
        /\ pc' \in {"recheck", "post"} => pc = "recheck"
    BY <1>7 DEF Begin, AgentFails, Recheck, AgentReturns, loopVars, storeVars
  <2>2. MayPost(a)' => MayPost(a)
    BY <1>5, <2>1 DEF Ending, RowStatus
  <2> QED
    BY <1>4, <2>1, <2>2
<1>8. CASE SaveFindings \/ MarkFindingsFixed
  <2>1. /\ UNCHANGED <<reviews, lastReview, job, ctxDone, todo>>
        /\ pc \in {"save", "fix"} /\ pc' \in {"fix", "done"}
    BY <1>8 DEF SaveFindings, MarkFindingsFixed, loopVars
  <2>2. MayPost(a)' => MayPost(a)
    BY <2>1 DEF MayPost, Ending, RowStatus
  <2> QED
    BY <1>4, <2>1, <2>2
<1>9. CASE BeginFails \/ RecheckFails \/ FinishReviewRun
  <2>1. /\ UNCHANGED <<reviews, lastReview, job, ctxDone>>
        /\ pc \in {"next", "recheck"} \cup Ending /\ pc' = "next"
        /\ todo' = Tail(todo) \/ todo' = <<>>
        /\ todo \in Seq(Agents) /\ todo # <<>>
    BY <1>9 DEF BeginFails, RecheckFails, FinishReviewRun, GiveUp, storeVars, TypeInv, TypeOK, RunType,
       Shape, InReviewer
  <2>2. MayPost(a)' => MayPost(a)
    BY <2>1, TailDistinct DEF MayPost, Ending, RowStatus, RunFacts
  <2> QED
    BY <1>4, <2>1, <2>2 DEF Ending, RowStatus
<1>10. CASE End
  <2>1. pc = "next" /\ pc' = "idle" /\ UNCHANGED <<reviews, lastReview>>
    BY <1>10 DEF End, storeVars
  <2>2. Loose(a)' = Loose(a) /\ ~Credit(a)'
    BY <2>1, LooseAlone DEF LastId, Credit, MayPost
  <2> QED
    BY <2>2, Account
<1>11. CASE Crash
  <2>1. /\ pc' = "idle" /\ crashes' = crashes + 1
        /\ UNCHANGED <<reviews, lastReview, fresh, faults, cancels>>
    BY <1>11 DEF Crash, storeVars
  <2>2. Loose(a)' \subseteq Loose(a) \cup {LastId(a)} /\ ~Credit(a)'
    BY <2>1 DEF Loose, Vetoes, Credit, MayPost
  <2>3. Owed' > Owed
    BY <2>1, Counted DEF Owed
  <2> QED
    BY <2>2, <2>3, Account
<1>12. CASE Queueing \/ Push \/ ClosePR \/ Reopen \/ Quiet \/ UNCHANGED vars
  BY <1>2, <1>12, QueueKeeps DEF Push, ClosePR, Reopen, Quiet, vars, loopVars, storeVars
<1> QED
  BY <1>1, <1>3, <1>6, <1>7, <1>8, <1>9, <1>10, <1>11, <1>12, DismissVetoes, PostVetoes, RecordVetoes
     DEF Next, Queueing, Canceling, Reviewer

\* A veto is loose, or it is the one the next update replaces.
LEMMA LooseSuffices ==
  ASSUME TypeInv, \A a \in Agents : LooseBound(a)
  PROVE  VetoesBounded
<1> SUFFICES ASSUME NEW a \in Agents PROVE Cardinality(Vetoes(a)) <= 1 + Owed
  BY DEF VetoesBounded, Owed, TypeInv, TypeOK, BudgetType
<1>1. /\ IsFiniteSet(Loose(a)) /\ Cardinality(Loose(a)) \in Nat /\ Cardinality(Vetoes(a)) \in Nat
      /\ Owed \in Nat
  BY VetoNumbers
<1>2. Cardinality(Loose(a)) <= Owed
  BY <1>1 DEF LooseBound
<1>3. Vetoes(a) \subseteq Loose(a) \cup {LastId(a)}
  BY DEF Loose
<1>4. /\ IsFiniteSet(Loose(a) \cup {LastId(a)})
      /\ Cardinality(Loose(a) \cup {LastId(a)}) <= Cardinality(Loose(a)) + 1
  BY <1>1, FS_AddElement
<1>5. Cardinality(Vetoes(a)) <= Cardinality(Loose(a) \cup {LastId(a)})
  BY <1>3, <1>4, FS_Subset
<1>6. Cardinality(Loose(a) \cup {LastId(a)}) \in Nat
  BY <1>4, FS_CardinalityType
<1> QED
  BY <1>1, <1>2, <1>4, <1>5, <1>6

\* Vetoes do not pile up, whatever fails and in whatever order jobs run: an agent
\* has at most one, and one more for each run of an opened or reopened event, for
\* each failing call and for each run that was interrupted.
THEOREM VetoesStayBounded == Spec => []VetoesBounded
<1> DEFINE Bounds == \A a \in Agents : LooseBound(a)
<1>1. Init => TypeInv /\ RunFacts /\ Bounds
  BY InitTypes, InitVetoes
<1>2. TypeInv /\ RunFacts /\ Bounds /\ [Next]_vars => (TypeInv /\ RunFacts /\ Bounds)'
  BY StepTypes, StepFacts, StepVetoes
<1>3. TypeInv /\ Bounds => VetoesBounded
  BY LooseSuffices
<1> QED
  BY <1>1, <1>2, <1>3, PTL DEF Spec
=============================================================================
