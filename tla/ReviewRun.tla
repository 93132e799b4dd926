------------------------------ MODULE ReviewRun ------------------------------
(***************************************************************************)
(* Orchestrator.review for one pull request: every configured reviewer in  *)
(* turn reads its state, runs its agent, dismisses its previous review,    *)
(* posts the new one and writes the outcome to the store. Between any two  *)
(* of these calls the pull request may be pushed to, closed or reopened,   *)
(* the context of the run may end, or the process may die.                 *)
(*                                                                         *)
(* The runs of a pull request exclude each other (JobQueue, KeyExclusive), *)
(* so there is one run at a time. Which job it runs is decided by the      *)
(* handler of the webhook, the claim and the lock, one statement after the *)
(* other: they are modelled as far as the order of the runs depends on     *)
(* them, JobQueue has the rest.                                            *)
(***************************************************************************)
EXTENDS Naturals, Sequences, FiniteSets

CONSTANTS
  Reviewers,      \* Orchestrator.reviewers(), in order
  Issues,         \* fingerprints of findings: path, title and severity
  Blocking,       \* the fingerprints whose severity is high or critical
  CarriedAs,      \* the fingerprint of a finding once carried forward: its
                  \* severity is kept
  NoJob,
  MaxHead,        \* bound: commits pushed to the pull request
  MaxEvents,      \* bound: webhooks sent and not yet handled to the end
  MaxRuns,        \* bound: runs of any job
  MaxUpsets       \* bound: jobs run again from the console, times the pull
                  \* request is closed, contexts that end before their run,
                  \* crashes, and failing calls to Gitea, git and the store,
                  \* together

Agents == {Reviewers[n] : n \in DOMAIN Reviewers}

ASSUME ReviewAssumption ==
  /\ Reviewers \in Seq(Agents) /\ Reviewers # <<>>
  /\ \A m, n \in DOMAIN Reviewers : Reviewers[m] = Reviewers[n] => m = n
  /\ Blocking \subseteq Issues
  /\ CarriedAs \in [Issues -> Issues]
  /\ \A i \in Blocking : CarriedAs[i] \in Blocking
  /\ MaxHead \in Nat \ {0} /\ MaxEvents \in Nat
  /\ MaxRuns \in Nat /\ MaxUpsets \in Nat

VARIABLES
  \* Gitea
  prOpen,      \* the pull request is open and not merged
  head,        \* its head commit
  reviews,     \* the reviews posted for each agent, oldest first
  \* the store
  lastReview,  \* pull_reviewer_states.last_review_id of each agent
  findings,    \* the status of each row of findings
  runRows,     \* the status of each row of review_runs
  \* the queue, as far as it concerns this pull request
  events,      \* webhooks sent, and how far onEvent is with each
  jobs,        \* the rows of jobs, by id
  taken,       \* ids of the jobs workers have claimed and not begun to run
  \* memory of the run
  pc, job, todo, good, bad, mem, ctxDone,
  \* what happened so far
  runs, fresh,   \* runs, and those of them that replace no review
  repeats, closes, cancels, crashes, faults

giteaVars  == <<prOpen, head>>
storeVars  == <<lastReview, findings, runRows>>
queueVars  == <<events, jobs, taken>>
loopVars   == <<job, todo, good, bad>>
budgetVars == <<runs, fresh, repeats, closes, cancels, crashes>>
vars == <<giteaVars, reviews, storeVars, queueVars, pc, loopVars, mem, ctxDone,
          budgetVars, faults>>

-----------------------------------------------------------------------------
Stage == {"supersede", "cancel", "enqueue"}   \* what onEvent does next
Event == [head : 1..MaxHead, isUpdate : BOOLEAN, stage : Stage]
\* Every final status is "over".
JobRow == [head : 1..MaxHead, isUpdate : BOOLEAN, status : {"pending", "running", "over"}]
Job == [id : Nat, head : 1..MaxHead, isUpdate : BOOLEAN]
Review == [head : 1..MaxHead, reported : SUBSET Issues, lists : SUBSET Issues,
           resolves : SUBSET Issues, blocking : BOOLEAN, dismissed : BOOLEAN]

\* The locals of runReviewer: prevReviewID, priorOpen, run.ID and the result.
Memory == [prev : Nat, prior : SUBSET Issues, row : Nat,
           reported : SUBSET Issues, resolved : SUBSET Issues]
Blank == [prev |-> 0, prior |-> {}, row |-> 0, reported |-> {}, resolved |-> {}]

RowStatus == {"running", "done", "failed", "skipped"}
\* At these the run calls FinishReviewRun with the status of that name.
Ending == RowStatus \ {"running"}
\* Past the insertion of the review_runs row of the current reviewer.
InReviewer == {"agent", "dismiss", "recheck", "post", "record", "save", "fix"} \cup Ending

Agent == Head(todo)
OpenFindings(a) == {i \in Issues : findings[a][i] = "open"}

\* Mutant: nothing is carried forward.
CarriedNone == {}

\* carryForwardFindings: a prior finding the agent neither repeated nor
\* declared fixed is listed again; one without a title gets one, and with it
\* another fingerprint.
Carried == {CarriedAs[i] : i \in mem.prior \ (mem.resolved \cup mem.reported)}
Listed == mem.reported \cup Carried

\* Mutant: a finding reported again and declared fixed ends fixed.
SettledListed == mem.resolved

\* resolvedOnly: what is listed is not fixed.
Settled == mem.resolved \ Listed

\* Mutant: the verdict is taken before findings are carried forward.
RequestsChangesEarly == mem.reported \cap Blocking # {}

RequestsChanges == Listed \cap Blocking # {}

-----------------------------------------------------------------------------
\* The webhook of a push ("synchronized"), or of an opened or reopened pull
\* request.
Sent(h, u) == [head |-> h, isUpdate |-> u, stage |-> IF u THEN "supersede" ELSE "enqueue"]

\* The pull request has just been opened.
Init ==
  /\ prOpen = TRUE
  /\ head = 1
  /\ reviews = [a \in Agents |-> <<>>]
  /\ lastReview = [a \in Agents |-> 0]
  /\ findings = [a \in Agents |-> [i \in Issues |-> "none"]]
  /\ runRows = <<>>
  /\ events = {Sent(1, FALSE)}
  /\ jobs = <<>>
  /\ taken = {}
  /\ pc = "idle"
  /\ job = NoJob
  /\ todo = <<>>
  /\ good = FALSE
  /\ bad = FALSE
  /\ mem = Blank
  /\ ctxDone = FALSE
  /\ runs = 0
  /\ fresh = 0
  /\ repeats = 0
  /\ closes = 0
  /\ cancels = 0
  /\ crashes = 0
  /\ faults = 0

Upsettable == repeats + closes + cancels + crashes + faults < MaxUpsets
Fault == Upsettable /\ faults' = faults + 1

\* Every call takes the context of the job: once it is done they all fail.
Works == ~ctxDone /\ UNCHANGED faults
Fails == IF ctxDone THEN UNCHANGED faults ELSE Fault

-----------------------------------------------------------------------------
(* The run.                                                                *)

\* A worker has the lock of the pull request, registers the run and calls
\* Process with the job as it was claimed: that it may have been superseded
\* since is not looked at. Locks are not handed over in the order of claims.
Start(i) ==
  /\ pc = "idle"
  /\ runs < MaxRuns
  /\ runs' = runs + 1
  /\ fresh' = IF jobs[i].isUpdate THEN fresh ELSE fresh + 1
  /\ taken' = taken \ {i}
  /\ pc' = "check"
  /\ job' = [id |-> i, head |-> jobs[i].head, isUpdate |-> jobs[i].isUpdate]
  /\ todo' = Reviewers
  /\ good' = FALSE
  /\ bad' = FALSE
  /\ UNCHANGED <<giteaVars, reviews, storeVars, events, jobs, mem, ctxDone, repeats, closes,
                 cancels, crashes, faults>>

\* review up to its loop: the pull request is checked, then its row, the
\* worktree and the diff are made ready. An error ends the run.
Check ==
  /\ pc = "check"
  /\ pc' = "next"
  /\ \/ /\ Works
        /\ todo' = IF prOpen THEN todo ELSE <<>>
        /\ UNCHANGED bad
     \/ /\ Fails
        /\ todo' = <<>>
        /\ bad' = TRUE
  /\ UNCHANGED <<giteaVars, reviews, storeVars, queueVars, job, good, mem, ctxDone, budgetVars>>

\* review returns: an error only when a reviewer failed and none succeeded.
\* The row is finished, or put back for a retry, if it is still running.
End ==
  /\ pc = "next"
  /\ todo = <<>>
  /\ pc' = "idle"
  /\ job' = NoJob
  /\ good' = FALSE
  /\ bad' = FALSE
  /\ ctxDone' = FALSE
  /\ IF jobs[job.id].status = "running"
     THEN \/ jobs' = [jobs EXCEPT ![job.id].status = "over"] /\ UNCHANGED faults
          \/ /\ bad /\ ~good
             /\ jobs' = [jobs EXCEPT ![job.id].status = "pending"] /\ UNCHANGED faults
          \/ Fault /\ UNCHANGED jobs
     ELSE UNCHANGED <<jobs, faults>>
  /\ UNCHANGED <<giteaVars, reviews, storeVars, events, taken, todo, mem, budgetVars>>

\* The loop goes on after a reviewer failed without ending its row.
GiveUp == todo' = Tail(todo) /\ bad' = TRUE /\ pc' = "next"

\* runReviewer reads the state and the open findings of the agent and inserts
\* a row, without which it goes on.
Begin ==
  /\ pc = "next"
  /\ todo # <<>>
  /\ ~ctxDone
  /\ \E saved \in BOOLEAN :
       /\ IF saved THEN Works ELSE Fails
       /\ runRows' = IF saved THEN Append(runRows, "running") ELSE runRows
       /\ mem' = [prev |-> lastReview[Agent], prior |-> OpenFindings(Agent),
                  row |-> IF saved THEN Len(runRows) + 1 ELSE 0,
                  reported |-> {}, resolved |-> {}]
  /\ pc' = "agent"
  /\ UNCHANGED <<giteaVars, reviews, lastReview, findings, queueVars, loopVars, ctxDone, budgetVars>>

BeginFails ==
  /\ pc = "next"
  /\ todo # <<>>
  /\ Fails
  /\ GiveUp
  /\ UNCHANGED <<giteaVars, reviews, storeVars, queueVars, job, good, mem, ctxDone, budgetVars>>

\* reviewer.Review returns findings and the fingerprints it declares fixed.
AgentReturns(found, fixed) ==
  /\ pc = "agent"
  /\ ~ctxDone
  /\ mem' = [mem EXCEPT !.reported = found, !.resolved = fixed]
  /\ pc' = "dismiss"
  /\ UNCHANGED <<giteaVars, reviews, storeVars, queueVars, loopVars, ctxDone, budgetVars, faults>>

AgentFails ==
  /\ pc = "agent"
  /\ pc' = "failed"
  /\ UNCHANGED <<giteaVars, reviews, storeVars, queueVars, loopVars, mem, ctxDone, budgetVars, faults>>

\* The reviews of agent a once Gitea was asked to dismiss the one with id k,
\* which it refuses for a review that only comments.
Dismissal(a, k) ==
  [reviews EXCEPT ![a] = [n \in DOMAIN reviews[a] |->
     IF n = k /\ reviews[a][n].blocking
     THEN [reviews[a][n] EXCEPT !.dismissed = TRUE] ELSE reviews[a][n]]]

\* Mutant: the first review is taken for none.
ReplacesLater == job.isUpdate /\ mem.prev > 1

\* A run of an opened or reopened event dismisses nothing.
Replaces == job.isUpdate /\ mem.prev # 0

\* DismissReview: a failure or a refusal is only logged, and a failure may
\* hide a success.
DismissPrevious ==
  /\ pc = "dismiss"
  /\ IF Replaces
     THEN \/ Works /\ reviews' = Dismissal(Agent, mem.prev)
          \/ Fails /\ reviews' \in {Dismissal(Agent, mem.prev), reviews}
     ELSE UNCHANGED <<reviews, faults>>
  /\ pc' = "recheck"
  /\ UNCHANGED <<giteaVars, storeVars, queueVars, loopVars, mem, ctxDone, budgetVars>>

\* ensurePullRequestOpen: only a closed pull request ends the row.
Recheck ==
  /\ pc = "recheck"
  /\ Works
  /\ pc' = IF prOpen THEN "post" ELSE "skipped"
  /\ UNCHANGED <<giteaVars, reviews, storeVars, queueVars, loopVars, mem, ctxDone, budgetVars>>

RecheckFails ==
  /\ pc = "recheck"
  /\ Fails
  /\ GiveUp
  /\ UNCHANGED <<giteaVars, reviews, storeVars, queueVars, job, good, mem, ctxDone, budgetVars>>

\* Mutant: the review names no commit.
NewReviewBare == [head |-> 0, reported |-> mem.reported, lists |-> Listed,
                  resolves |-> mem.resolved, blocking |-> RequestsChanges, dismissed |-> FALSE]

NewReview == [head |-> job.head, reported |-> mem.reported, lists |-> Listed,
              resolves |-> mem.resolved, blocking |-> RequestsChanges, dismissed |-> FALSE]

Publish == prOpen /\ reviews' = [reviews EXCEPT ![Agent] = Append(@, NewReview)]

\* PostReview: Gitea refuses one for a closed pull request.
Post ==
  /\ pc = "post"
  /\ \/ Works /\ Publish /\ pc' = "record"
     \/ Works /\ ~prOpen /\ pc' = "skipped" /\ UNCHANGED reviews
     \/ Fails /\ (Publish \/ UNCHANGED reviews) /\ pc' = "failed"
  /\ UNCHANGED <<giteaVars, storeVars, queueVars, loopVars, mem, ctxDone, budgetVars>>

\* UpsertReviewerState; a failure is logged, as in the next two.
RecordState ==
  /\ pc = "record"
  /\ \/ Works /\ lastReview' = [lastReview EXCEPT ![Agent] = Len(reviews[Agent])]
     \/ Fails /\ UNCHANGED lastReview
  /\ pc' = "save"
  /\ UNCHANGED <<giteaVars, reviews, findings, runRows, queueVars, loopVars, mem, ctxDone, budgetVars>>

\* The rows of the fingerprints in S that satisfy P get status s.
SetFindings(S, s) ==
  [findings EXCEPT ![Agent] = [i \in Issues |-> IF i \in S THEN s ELSE findings[Agent][i]]]

\* SaveFindings upserts, MarkFindingsFixed updates the rows that exist.
SaveFindings ==
  /\ pc = "save"
  /\ \/ Works /\ findings' = SetFindings(Listed, "open")
     \/ Fails /\ UNCHANGED findings
  /\ pc' = "fix"
  /\ UNCHANGED <<giteaVars, reviews, lastReview, runRows, queueVars, loopVars, mem, ctxDone, budgetVars>>

Known == {i \in Issues : findings[Agent][i] # "none"}

MarkFindingsFixed ==
  /\ pc = "fix"
  /\ \/ Works /\ findings' = SetFindings(Settled \cap Known, "fixed")
     \/ Fails /\ UNCHANGED findings
  /\ pc' = "done"
  /\ UNCHANGED <<giteaVars, reviews, lastReview, runRows, queueVars, loopVars, mem, ctxDone, budgetVars>>

\* FinishReviewRun, its error ignored. After a closed pull request the other
\* reviewers are not asked.
FinishReviewRun ==
  /\ pc \in Ending
  /\ \/ mem.row # 0 /\ Works /\ runRows' = [runRows EXCEPT ![mem.row] = pc]
     \/ mem.row # 0 /\ Fails /\ UNCHANGED runRows
     \/ mem.row = 0 /\ UNCHANGED <<runRows, faults>>
  /\ todo' = IF pc = "skipped" THEN <<>> ELSE Tail(todo)
  /\ good' = (good \/ pc = "done")
  /\ bad' = (bad \/ pc = "failed")
  /\ mem' = Blank
  /\ pc' = "next"
  /\ UNCHANGED <<giteaVars, reviews, lastReview, findings, queueVars, job, ctxDone, budgetVars>>

-----------------------------------------------------------------------------
(* onEvent, and what the workers do before a run.                          *)

\* Gitea sends a webhook; (bound) not one equal to another under way.
Send(e) ==
  /\ Cardinality(events) < MaxEvents
  /\ e \notin events
  /\ events' = events \cup {e}

\* onEvent is done with the first call for e.
Proceeds(e, stage) == events' = (events \ {e}) \cup {[e EXCEPT !.stage = stage]}

\* Whatever is pending or running is superseded; a failure is only logged.
SupersedePending(e) ==
  /\ e.stage = "supersede"
  /\ Proceeds(e, "cancel")
  /\ \/ jobs' = [n \in DOMAIN jobs |-> [jobs[n] EXCEPT !.status = "over"]] /\ UNCHANGED faults
     \/ Fault /\ UNCHANGED jobs
  /\ UNCHANGED <<giteaVars, reviews, storeVars, taken, pc, loopVars, mem, ctxDone, budgetVars>>

\* CancelInFlight ends the context of the run that is registered; it does not
\* know the jobs that wait for the lock.
CancelInFlight(e) ==
  /\ e.stage = "cancel"
  /\ Proceeds(e, "enqueue")
  /\ IF pc # "idle" /\ ~ctxDone
     THEN ctxDone' = TRUE /\ cancels' = cancels + 1
     ELSE UNCHANGED <<ctxDone, cancels>>
  /\ UNCHANGED <<giteaVars, reviews, storeVars, jobs, taken, pc, loopVars, mem, runs, fresh, repeats,
                 closes, crashes, faults>>

Row(j, status) == [head |-> j.head, isUpdate |-> j.isUpdate, status |-> status]

\* When it fails the webhook is answered with an error and the event is lost.
EnqueueJob(e) ==
  /\ e.stage = "enqueue"
  /\ events' = events \ {e}
  /\ \/ jobs' = Append(jobs, Row(e, "pending")) /\ UNCHANGED faults
     \/ Fault /\ UNCHANGED jobs
  /\ UNCHANGED <<giteaVars, reviews, storeVars, taken, pc, loopVars, mem, ctxDone, budgetVars>>

\* The admin runs a job again: RerunJob adds a row like it.
Rerun(i) ==
  /\ Upsettable
  /\ repeats' = repeats + 1
  /\ jobs' = Append(jobs, Row(jobs[i], "pending"))
  /\ UNCHANGED <<giteaVars, reviews, storeVars, events, taken, pc, loopVars, mem, ctxDone, runs, fresh,
                 closes, cancels, crashes, faults>>

\* ClaimJob takes a pending row when none of the pull request is running. Any
\* may be the first that is due.
ClaimJob(i) ==
  /\ jobs[i].status = "pending"
  /\ \A n \in DOMAIN jobs : jobs[n].status # "running"
  /\ jobs' = [jobs EXCEPT ![i].status = "running"]
  /\ taken' = taken \cup {i}
  /\ UNCHANGED <<giteaVars, reviews, storeVars, events, pc, loopVars, mem, ctxDone, budgetVars, faults>>

-----------------------------------------------------------------------------
(* What happens around the run.                                            *)

Push ==
  /\ prOpen
  /\ head < MaxHead
  /\ head' = head + 1
  /\ Send(Sent(head + 1, TRUE))
  /\ UNCHANGED <<prOpen, reviews, storeVars, jobs, taken, pc, loopVars, mem, ctxDone, budgetVars, faults>>

ClosePR ==
  /\ prOpen
  /\ Upsettable
  /\ closes' = closes + 1
  /\ prOpen' = FALSE
  /\ UNCHANGED <<head, reviews, storeVars, queueVars, pc, loopVars, mem, ctxDone, runs, fresh, repeats,
                 cancels, crashes, faults>>

Reopen ==
  /\ ~prOpen
  /\ prOpen' = TRUE
  /\ Send(Sent(head, FALSE))
  /\ UNCHANGED <<head, reviews, storeVars, jobs, taken, pc, loopVars, mem, ctxDone, budgetVars, faults>>

\* CancelInFlight for another pull request of the same key, or SIGTERM.
Cancel ==
  /\ pc # "idle"
  /\ ~ctxDone
  /\ Upsettable
  /\ cancels' = cancels + 1
  /\ ctxDone' = TRUE
  /\ UNCHANGED <<giteaVars, reviews, storeVars, queueVars, pc, loopVars, mem, runs, fresh, repeats,
                 closes, crashes, faults>>

\* The process dies, and with it what its workers and handlers were doing; a
\* webhook that was sent may reach the next process. That one puts back what
\* was running.
Crash ==
  /\ Upsettable
  /\ crashes' = crashes + 1
  /\ pc' = "idle"
  /\ job' = NoJob
  /\ todo' = <<>>
  /\ good' = FALSE
  /\ bad' = FALSE
  /\ mem' = Blank
  /\ ctxDone' = FALSE
  /\ jobs' = [n \in DOMAIN jobs |->
       IF jobs[n].status = "running" THEN [jobs[n] EXCEPT !.status = "pending"] ELSE jobs[n]]
  /\ taken' = {}
  /\ events' \in SUBSET {e \in events : e = Sent(e.head, e.isUpdate)}
  /\ UNCHANGED <<giteaVars, reviews, storeVars, runs, fresh, repeats, closes, cancels, faults>>

\* Nothing is left to do until Gitea sends another event.
Quiet == pc = "idle" /\ UNCHANGED vars

-----------------------------------------------------------------------------
Reviewer ==
  \/ Begin \/ BeginFails
  \/ \E found, fixed \in SUBSET Issues : AgentReturns(found, fixed)
  \/ AgentFails
  \/ DismissPrevious \/ Recheck \/ RecheckFails \/ Post
  \/ RecordState \/ SaveFindings \/ MarkFindingsFixed \/ FinishReviewRun

Next ==
  \/ \E e \in events : SupersedePending(e) \/ CancelInFlight(e) \/ EnqueueJob(e)
  \/ \E i \in DOMAIN jobs : Rerun(i) \/ ClaimJob(i)
  \/ \E i \in taken : Start(i)
  \/ Check \/ End
  \/ Reviewer
  \/ Push \/ ClosePR \/ Reopen \/ Cancel \/ Crash \/ Quiet

Spec == Init /\ [][Next]_vars

-----------------------------------------------------------------------------
(* Properties.                                                             *)

GiteaType == prOpen \in BOOLEAN /\ head \in 1..MaxHead /\ reviews \in [Agents -> Seq(Review)]

StoreType ==
  /\ lastReview \in [Agents -> Nat]
  /\ findings \in [Agents -> [Issues -> {"none", "open", "fixed"}]]
  /\ runRows \in Seq(RowStatus)

QueueType == events \subseteq Event /\ jobs \in Seq(JobRow) /\ taken \subseteq DOMAIN jobs

RunType ==
  /\ pc \in {"idle", "check", "next"} \cup InReviewer
  /\ job \in Job \cup {NoJob}
  /\ todo \in Seq(Agents)
  /\ good \in BOOLEAN /\ bad \in BOOLEAN /\ ctxDone \in BOOLEAN
  /\ mem \in Memory

BudgetType ==
  /\ runs \in Nat /\ fresh \in Nat /\ repeats \in Nat /\ closes \in Nat
  /\ cancels \in Nat /\ crashes \in Nat /\ faults \in Nat

TypeOK == GiteaType /\ StoreType /\ QueueType /\ RunType /\ BudgetType

LastOf(a) == reviews[a][Len(reviews[a])]
LastLists == [a \in Agents |-> IF reviews[a] = <<>> THEN {} ELSE LastOf(a).lists]
LastResolves == [a \in Agents |-> IF reviews[a] = <<>> THEN {} ELSE LastOf(a).resolves]

Ledger == INSTANCE FindingLedger
            WITH ledger <- findings, lists <- LastLists, resolves <- LastResolves

\* The run implements FindingLedger: whatever call fails and whenever the run
\* ends, the findings table moves only by what the agent's last posted review
\* says, and no review passes over a finding open in the table.
LedgerSpec == Ledger!Spec

\* carryForwardFindings works from what was read before the agent ran, and
\* SaveFindings after the review was posted may fail: still every open finding
\* is shown, or declared fixed, by the last review of its agent.
OpenIsShown == Ledger!NothingHidden

\* SupersedePending is there "so a newer event for the same PR takes priority"
\* (store/jobs.go:64): no run dismisses a review of a newer head than its own.
DismissesOlder ==
  [][\A a \in Agents : \A n \in DOMAIN reviews[a] :
       ~reviews[a][n].dismissed /\ reviews'[a][n].dismissed => reviews[a][n].head <= job.head]_vars

\* The reviews of agent a that request changes and hold back the merge.
Vetoes(a) == {n \in DOMAIN reviews[a] : reviews[a][n].blocking /\ ~reviews[a][n].dismissed}

\* Vetoes do not pile up, although the review to dismiss is read before the
\* agent runs and recorded after it, and runs of superseded jobs go on: the
\* review of an update replaces the last one, and each further one is owed to a
\* run of an opened or reopened event, which replaces none, to a failing call,
\* to the end of a run's context or to a crash.
VetoesBounded ==
  \A a \in Agents : Cardinality(Vetoes(a)) <= 1 + fresh + faults + cancels + crashes

\* While no call failed, no run was interrupted and the pull request was not
\* closed.
Undisturbed == faults = 0 /\ cancels = 0 /\ crashes = 0 /\ closes = 0

\* Between runs every open blocking finding is backed by an active review of
\* its agent that lists it, perhaps under the title it was given when carried
\* forward, and requests changes, although the old review is dismissed before
\* the new one is posted and superseded jobs may run. A run that is interrupted
\* or finds the pull request closed has dismissed already and posts nothing.
BlockingHeld ==
  pc = "idle" /\ Undisturbed => \A a \in Agents : \A i \in OpenFindings(a) \cap Blocking :
    \E n \in Vetoes(a) : {i, CarriedAs[i]} \cap reviews[a][n].lists # {}
=============================================================================
