------------------------------ MODULE JobQueue ------------------------------
(***************************************************************************)
(* The review queue: webhook handlers that enqueue jobs in SQLite, the     *)
(* pool of workers that claims and runs them, the two console operations   *)
(* on a job, and the process that may crash or be told to stop.            *)
(*                                                                         *)
(* The table `jobs` and what Gitea was answered survive a restart; every   *)
(* other variable is memory of the process.                                *)
(***************************************************************************)
EXTENDS Naturals

CONSTANTS
  PRs,            \* pull requests
  Repos,          \* repositories: PRRef.Key() is the repository of a PR
  RepoOf,         \* the repository of each pull request
  Deliveries,     \* webhook delivery ids; one id is one event
  PROf,           \* the pull request each delivery is about
  Pushes,         \* the deliveries with action "synchronized"
  Handlers,       \* HTTP request goroutines
  Workers,        \* queue worker goroutines
  None,
  MaxAttempts,    \* Queue.maxAttempts
  MaxJobs,        \* bound: rows of the jobs table
  MaxSends,       \* bound: times each delivery id is sent
  MaxReruns,      \* bound: console reruns
  MaxCrashes,     \* bound: process crashes
  MaxStops,       \* bound: SIGTERMs
  MaxFaults       \* bound: SQLite statements that fail

ASSUME QueueAssumption ==
  /\ RepoOf \in [PRs -> Repos]
  /\ PROf \in [Deliveries -> PRs]
  /\ Pushes \subseteq Deliveries
  /\ None \notin PRs \cup Repos \cup Deliveries \cup Handlers \cup Workers
  /\ MaxAttempts \in Nat \ {0}
  /\ MaxSends \in [Deliveries -> Nat]
  /\ MaxJobs \in Nat /\ MaxReruns \in Nat
  /\ MaxCrashes \in Nat /\ MaxStops \in Nat /\ MaxFaults \in Nat

VARIABLES
  jobs,       \* the jobs table: row id -> row
  lastId,     \* the largest row id in use
  acked,      \* deliveries answered 200
  nacked,     \* deliveries answered 500, or never answered
  sends,      \* how often each delivery was sent
  phase,      \* of the process: "down", "boot", "up", "stopping"
  hpc,        \* where each handler is
  hdel,       \* the delivery each handler serves
  wpc,        \* where each worker is
  wjob,       \* the row id each worker has claimed
  result,     \* the status each worker is about to record
  canceled,   \* whether each worker's jobCtx is done
  keyLock,    \* Queue.keyLocks: the worker that holds each key
  cancels,    \* Queue.cancels: the worker whose run is registered
  wake,       \* Queue.wake holds a token
  reruns, crashes, stops, faults   \* how much of each bound is used

tableVars   == <<jobs, lastId>>
senderVars  == <<acked, nacked, sends>>
handlerVars == <<hpc, hdel>>
workerVars  == <<wpc, wjob, result, canceled>>
poolVars    == <<keyLock, cancels, wake>>
budgetVars  == <<reruns, crashes, stops, faults>>
vars == <<tableVars, senderVars, phase, handlerVars, workerVars, poolVars, budgetVars>>

-----------------------------------------------------------------------------
Ids    == 1..MaxJobs
Active == {"pending", "running"}
Final  == {"done", "failed", "superseded", "canceled"}
Status == {"absent"} \cup Active \cup Final

\* `due` stands for next_attempt_at: TRUE once that instant has passed.
Row == [status : Status, pr : PRs \cup {None}, delivery : Deliveries \cup {None},
        attempts : Nat, due : BOOLEAN]
NoRow == [status |-> "absent", pr |-> None, delivery |-> None, attempts |-> 0, due |-> TRUE]
NewRow(p, d) == [status |-> "pending", pr |-> p, delivery |-> d, attempts |-> 0, due |-> TRUE]

\* UPDATE jobs SET ... WHERE id = i.
SetRow(i, s, n, due) ==
  [jobs EXCEPT ![i] = [status |-> s, pr |-> jobs[i].pr, delivery |-> jobs[i].delivery,
                       attempts |-> n, due |-> due]]

Rows == {i \in Ids : jobs[i].status # "absent"}
JobOf(w) == jobs[wjob[w]]
Key(w) == RepoOf[JobOf(w).pr]

\* Inside Queue.run with the key lock held.
HoldsLock == {"process", "finish", "release"}
\* Owns a claimed row whose outcome is not recorded yet.
Owning == {"lock", "process", "finish"}

-----------------------------------------------------------------------------
Init ==
  /\ jobs = [i \in Ids |-> NoRow]
  /\ lastId = 0
  /\ acked = {}
  /\ nacked = {}
  /\ sends = [d \in Deliveries |-> 0]
  /\ phase = "boot"
  /\ hpc = [h \in Handlers |-> "idle"]
  /\ hdel = [h \in Handlers |-> None]
  /\ wpc = [w \in Workers |-> "off"]
  /\ wjob = [w \in Workers |-> None]
  /\ result = [w \in Workers |-> "none"]
  /\ canceled = [w \in Workers |-> FALSE]
  /\ keyLock = [r \in Repos |-> None]
  /\ cancels = [r \in Repos |-> None]
  /\ wake = FALSE
  /\ reruns = 0
  /\ crashes = 0
  /\ stops = 0
  /\ faults = 0

\* A statement of the store returns an error, within the bound.
StoreFault ==
  /\ faults < MaxFaults
  /\ faults' = faults + 1
  /\ UNCHANGED <<reruns, crashes, stops>>

-----------------------------------------------------------------------------
(* The webhook handler: onEvent, one step per call it makes.               *)

\* onEvent: a push clears the way for its job first.
FirstCall(d) == IF d \in Pushes THEN "supersede" ELSE "enqueue"

\* A verified, parsed delivery reaches onEvent.
Receive(h, d) ==
  /\ phase \in {"boot", "up"}
  /\ hpc[h] = "idle"
  /\ sends[d] < MaxSends[d]
  /\ sends' = [sends EXCEPT ![d] = @ + 1]
  /\ hpc' = [hpc EXCEPT ![h] = FirstCall(d)]
  /\ hdel' = [hdel EXCEPT ![h] = d]
  /\ UNCHANGED <<tableVars, acked, nacked, phase, workerVars, poolVars, budgetVars>>

Superseded(p) ==
  [i \in Ids |-> IF jobs[i].pr = p /\ jobs[i].status \in Active
                 THEN [jobs[i] EXCEPT !.status = "superseded"] ELSE jobs[i]]

\* Every pending and running row of the PR becomes superseded. A failure is
\* only logged, and onEvent goes on.
SupersedePending(h) ==
  /\ hpc[h] = "supersede"
  /\ hpc' = [hpc EXCEPT ![h] = "cancel"]
  /\ \/ jobs' = Superseded(PROf[hdel[h]]) /\ UNCHANGED budgetVars
     \/ StoreFault /\ UNCHANGED jobs
  /\ UNCHANGED <<lastId, senderVars, phase, hdel, workerVars, poolVars>>

\* The run registered under the PR's key, if any, has its context cancelled.
CancelInFlight(h) ==
  LET w == cancels[RepoOf[PROf[hdel[h]]]] IN
  /\ hpc[h] = "cancel"
  /\ hpc' = [hpc EXCEPT ![h] = "enqueue"]
  /\ canceled' = IF w = None THEN canceled ELSE [canceled EXCEPT ![w] = TRUE]
  /\ UNCHANGED <<tableVars, senderVars, phase, hdel, wpc, wjob, result, poolVars, budgetVars>>

\* Mutant: jobs deduplicated by pull request.
SamePR(i, d) == jobs[i].pr = PROf[d]

\* The UNIQUE column delivery_id.
SameDelivery(i, d) == jobs[i].delivery = d

\* INSERT ... ON CONFLICT(delivery_id) DO NOTHING.
EnqueueJob(h) ==
  LET d == hdel[h] IN
  /\ hpc[h] = "enqueue"
  /\ ~ \E i \in Rows : SameDelivery(i, d)
  /\ lastId < MaxJobs
  /\ jobs' = [jobs EXCEPT ![lastId + 1] = NewRow(PROf[d], d)]
  /\ lastId' = lastId + 1
  /\ hpc' = [hpc EXCEPT ![h] = "notify"]
  /\ UNCHANGED <<senderVars, phase, hdel, workerVars, poolVars, budgetVars>>

\* A redelivery finds its row: created = false, nothing is notified.
EnqueueDuplicate(h) ==
  /\ hpc[h] = "enqueue"
  /\ \E i \in Rows : SameDelivery(i, hdel[h])
  /\ acked' = acked \cup {hdel[h]}
  /\ hpc' = [hpc EXCEPT ![h] = "idle"]
  /\ hdel' = [hdel EXCEPT ![h] = None]
  /\ UNCHANGED <<tableVars, nacked, sends, phase, workerVars, poolVars, budgetVars>>

\* Mutant: the error of onEvent is swallowed.
AnswerAnyway(h) == acked' = acked \cup {hdel[h]} /\ UNCHANGED nacked

AnswerError(h) == nacked' = nacked \cup {hdel[h]} /\ UNCHANGED acked

\* onEvent returns the error of EnqueueJob and the sender reads 500.
EnqueueFails(h) ==
  /\ hpc[h] = "enqueue"
  /\ StoreFault
  /\ AnswerError(h)
  /\ hpc' = [hpc EXCEPT ![h] = "idle"]
  /\ hdel' = [hdel EXCEPT ![h] = None]
  /\ UNCHANGED <<tableVars, sends, phase, workerVars, poolVars>>

\* The INSERT commits, but the row cannot be read back: 500, and no Notify.
EnqueueUnread(h) ==
  LET d == hdel[h] IN
  /\ hpc[h] = "enqueue"
  /\ ~ \E i \in Rows : SameDelivery(i, d)
  /\ lastId < MaxJobs
  /\ StoreFault
  /\ jobs' = [jobs EXCEPT ![lastId + 1] = NewRow(PROf[d], d)]
  /\ lastId' = lastId + 1
  /\ AnswerError(h)
  /\ hpc' = [hpc EXCEPT ![h] = "idle"]
  /\ hdel' = [hdel EXCEPT ![h] = None]
  /\ UNCHANGED <<sends, phase, workerVars, poolVars>>

\* Queue.Notify, then 200.
Notify(h) ==
  /\ hpc[h] = "notify"
  /\ wake' = TRUE
  /\ acked' = acked \cup {hdel[h]}
  /\ hpc' = [hpc EXCEPT ![h] = "idle"]
  /\ hdel' = [hdel EXCEPT ![h] = None]
  /\ UNCHANGED <<tableVars, nacked, sends, phase, workerVars, keyLock, cancels, budgetVars>>

-----------------------------------------------------------------------------
(* The workers: Queue.worker and Queue.run.                                *)

GoTo(w, l) == wpc' = [wpc EXCEPT ![w] = l]

\* Mutant: ClaimJob without its NOT EXISTS.
ClaimableAlone(i) == jobs[i].status = "pending" /\ jobs[i].due

Claimable(i) ==
  /\ jobs[i].status = "pending"
  /\ jobs[i].due
  /\ ~ \E r \in Ids : jobs[r].status = "running" /\ jobs[r].pr = jobs[i].pr

\* The row the UPDATE of ClaimJob picks: ORDER BY j.id LIMIT 1.
NextJob(i) == Claimable(i) /\ \A k \in Ids : k < i => ~ Claimable(k)

Claimed(i) == SetRow(i, "running", jobs[i].attempts + 1, TRUE)

ClaimJob(w) ==
  /\ phase = "up"
  /\ wpc[w] = "claim"
  /\ \E i \in Ids : /\ NextJob(i)
                    /\ jobs' = Claimed(i)
                    /\ wjob' = [wjob EXCEPT ![w] = i]
  /\ GoTo(w, "lock")
  /\ UNCHANGED <<lastId, senderVars, phase, handlerVars, result, canceled, poolVars, budgetVars>>

\* No row, or the statement failed because the context is done: on to select.
ClaimNothing(w) ==
  /\ wpc[w] = "claim"
  /\ phase = "stopping" \/ \A i \in Ids : ~ Claimable(i)
  /\ GoTo(w, "idle")
  /\ UNCHANGED <<tableVars, senderVars, phase, handlerVars, wjob, result, canceled,
                 poolVars, budgetVars>>

\* The UPDATE commits but reading the claimed row back fails (a store error,
\* or the context ends in between): the row stays running without a worker.
ClaimLost(w) ==
  /\ wpc[w] = "claim"
  /\ \/ phase = "stopping" /\ UNCHANGED budgetVars
     \/ phase = "up" /\ StoreFault
  /\ \E i \in Ids : NextJob(i) /\ jobs' = Claimed(i)
  /\ GoTo(w, "idle")
  /\ UNCHANGED <<lastId, senderVars, phase, handlerVars, wjob, result, canceled, poolVars>>

\* The select of Queue.worker: a wake token, or the two-second ticker.
Wake(w) ==
  /\ wpc[w] = "idle"
  /\ wake
  /\ wake' = FALSE
  /\ GoTo(w, "claim")
  /\ UNCHANGED <<tableVars, senderVars, phase, handlerVars, wjob, result, canceled,
                 keyLock, cancels, budgetVars>>

Tick(w) ==
  /\ wpc[w] = "idle"
  /\ GoTo(w, "claim")
  /\ UNCHANGED <<tableVars, senderVars, phase, handlerVars, wjob, result, canceled,
                 poolVars, budgetVars>>

\* The select of Queue.worker: ctx.Done().
Leave(w) ==
  /\ phase = "stopping"
  /\ wpc[w] = "idle"
  /\ GoTo(w, "off")
  /\ UNCHANGED <<tableVars, senderVars, phase, handlerVars, wjob, result, canceled,
                 poolVars, budgetVars>>

\* Mutant: the mutex is not awaited.
LockIgnored(w) == TRUE

LockFree(w) == keyLock[Key(w)] = None
ContextDone(w) == phase = "stopping"

\* Queue.run up to Process: take the key's mutex, then register the cancel
\* function. The status of the row is not read again. jobCtx is a child of
\* the pool's context.
StartRun(w) ==
  /\ wpc[w] = "lock"
  /\ LockFree(w)
  /\ keyLock' = [keyLock EXCEPT ![Key(w)] = w]
  /\ cancels' = [cancels EXCEPT ![Key(w)] = w]
  /\ canceled' = [canceled EXCEPT ![w] = ContextDone(w)]
  /\ GoTo(w, "process")
  /\ UNCHANGED <<tableVars, senderVars, phase, handlerVars, wjob, result, wake, budgetVars>>

\* Mutants: no status for a retry; one attempt too many; any error taken for
\* a cancellation.
OutcomeUnset(w, retryable) ==
  IF retryable /\ JobOf(w).attempts < MaxAttempts THEN "" ELSE "failed"
OutcomeOneMore(w, retryable) ==
  IF retryable /\ JobOf(w).attempts <= MaxAttempts THEN "pending" ELSE "failed"
OutcomeSuperseded(w, retryable) == "superseded"

\* What Queue.run records for an error of Process that is not a cancellation.
Outcome(w, retryable) ==
  IF retryable /\ JobOf(w).attempts < MaxAttempts THEN "pending" ELSE "failed"

\* Process returns. An error under a cancelled context counts as superseded.
ProcessReturns(w) ==
  /\ wpc[w] = "process"
  /\ \/ result' = [result EXCEPT ![w] = "done"]
     \/ canceled[w] /\ result' = [result EXCEPT ![w] = "superseded"]
     \/ /\ ~ canceled[w]
        /\ \E retryable \in BOOLEAN : result' = [result EXCEPT ![w] = Outcome(w, retryable)]
  /\ GoTo(w, "finish")
  /\ UNCHANGED <<tableVars, senderVars, phase, handlerVars, wjob, canceled, poolVars, budgetVars>>

\* Mutant: FinishJobDetailed, which does not ask for a running row.
AnyRow(w) == TRUE

StillRunning(w) == JobOf(w).status = "running"

\* FinishRunningJobDetailed: UPDATE ... WHERE id=? AND status='running'. A row
\* sent back to pending waits for next_attempt_at, and the pool is notified.
FinishRunningJob(w) ==
  /\ wpc[w] = "finish"
  /\ IF StillRunning(w)
     THEN /\ jobs' = SetRow(wjob[w], result[w], JobOf(w).attempts, result[w] # "pending")
          /\ wake' = (wake \/ result[w] = "pending")
     ELSE UNCHANGED <<jobs, wake>>
  /\ GoTo(w, "release")
  /\ UNCHANGED <<lastId, senderVars, phase, handlerVars, wjob, result, canceled,
                 keyLock, cancels, budgetVars>>

\* The error of FinishRunningJobDetailed is only logged.
FinishFails(w) ==
  /\ wpc[w] = "finish"
  /\ StoreFault
  /\ GoTo(w, "release")
  /\ UNCHANGED <<tableVars, senderVars, phase, handlerVars, wjob, result, canceled, poolVars>>

\* Mutant: the entry stays in Queue.cancels.
KeepRegistered(w) == UNCHANGED cancels

Unregister(w) == cancels' = [cancels EXCEPT ![Key(w)] = IF @ = w THEN None ELSE @]

\* The deferred calls of Queue.run, then the loop of Queue.worker.
Release(w) ==
  /\ wpc[w] = "release"
  /\ Unregister(w)
  /\ keyLock' = [keyLock EXCEPT ![Key(w)] = None]
  /\ wjob' = [wjob EXCEPT ![w] = None]
  /\ result' = [result EXCEPT ![w] = "none"]
  /\ canceled' = [canceled EXCEPT ![w] = FALSE]
  /\ GoTo(w, "claim")
  /\ UNCHANGED <<tableVars, senderVars, phase, handlerVars, wake, budgetVars>>

-----------------------------------------------------------------------------
(* The console, and the clock that makes a scheduled retry due.            *)

\* A fresh pending row with the payload of row i; the pool is not notified.
RerunJob(i) ==
  /\ phase \in {"boot", "up"}
  /\ reruns < MaxReruns
  /\ lastId < MaxJobs
  /\ jobs[i].status # "absent"
  /\ jobs' = [jobs EXCEPT ![lastId + 1] = NewRow(jobs[i].pr, None)]
  /\ lastId' = lastId + 1
  /\ reruns' = reruns + 1
  /\ UNCHANGED <<senderVars, phase, handlerVars, workerVars, poolVars, crashes, stops, faults>>

\* Mutant: the console cancels claimed jobs too.
CancelableActive(i) == jobs[i].status \in Active

Cancelable(i) == jobs[i].status = "pending"

CancelPendingJob(i) ==
  /\ phase \in {"boot", "up"}
  /\ Cancelable(i)
  /\ jobs' = SetRow(i, "canceled", jobs[i].attempts, TRUE)
  /\ UNCHANGED <<lastId, senderVars, phase, handlerVars, workerVars, poolVars, budgetVars>>

RetryDue(i) ==
  /\ jobs[i].status = "pending"
  /\ ~ jobs[i].due
  /\ jobs' = SetRow(i, "pending", jobs[i].attempts, TRUE)
  /\ UNCHANGED <<lastId, senderVars, phase, handlerVars, workerVars, poolVars, budgetVars>>

-----------------------------------------------------------------------------
(* The process.                                                            *)

\* Memory is gone; a request being served is never answered.
ProcessEnds ==
  /\ phase' = "down"
  /\ nacked' = nacked \cup {hdel[h] : h \in {g \in Handlers : hpc[g] # "idle"}}
  /\ hpc' = [h \in Handlers |-> "idle"]
  /\ hdel' = [h \in Handlers |-> None]
  /\ wpc' = [w \in Workers |-> "off"]
  /\ wjob' = [w \in Workers |-> None]
  /\ result' = [w \in Workers |-> "none"]
  /\ canceled' = [w \in Workers |-> FALSE]
  /\ keyLock' = [r \in Repos |-> None]
  /\ cancels' = [r \in Repos |-> None]
  /\ wake' = FALSE
  /\ UNCHANGED <<tableVars, acked, sends>>

Crash ==
  /\ phase # "down"
  /\ crashes < MaxCrashes
  /\ crashes' = crashes + 1
  /\ ProcessEnds
  /\ UNCHANGED <<reruns, stops, faults>>

\* SIGTERM: the context of the pool, and so every jobCtx, is done.
Terminate ==
  /\ phase \in {"boot", "up"}
  /\ stops < MaxStops
  /\ stops' = stops + 1
  /\ phase' = "stopping"
  /\ canceled' = [w \in Workers |-> wpc[w] = "process" \/ canceled[w]]
  /\ UNCHANGED <<tableVars, senderVars, handlerVars, wpc, wjob, result, poolVars,
                 reruns, crashes, faults>>

\* main returns after srv.Shutdown; it does not wait for the workers.
Exit ==
  /\ phase = "stopping"
  /\ \A h \in Handlers : hpc[h] = "idle"
  /\ ProcessEnds
  /\ UNCHANGED budgetVars

Boot ==
  /\ phase = "down"
  /\ phase' = "boot"
  /\ UNCHANGED <<tableVars, senderVars, handlerVars, workerVars, poolVars, budgetVars>>

\* Mutants: nothing is requeued on boot; what was running is given up.
NotRecovered == jobs
GivenUp ==
  [i \in Ids |-> IF jobs[i].status = "running"
                 THEN [jobs[i] EXCEPT !.status = "superseded"] ELSE jobs[i]]

\* RecoverRunning: every running row is pending again.
Recovered ==
  [i \in Ids |-> IF jobs[i].status = "running"
                 THEN [jobs[i] EXCEPT !.status = "pending"] ELSE jobs[i]]

\* Queue.Run: RecoverRunning, whose error is only logged, then the workers.
RecoverRunning ==
  /\ phase = "boot"
  /\ phase' = "up"
  /\ wpc' = [w \in Workers |-> "claim"]
  /\ \/ jobs' = Recovered /\ UNCHANGED budgetVars
     \/ StoreFault /\ UNCHANGED jobs
  /\ UNCHANGED <<lastId, senderVars, handlerVars, wjob, result, canceled, poolVars>>

-----------------------------------------------------------------------------
HandlerStep(h) ==
  \/ SupersedePending(h) \/ CancelInFlight(h)
  \/ EnqueueJob(h) \/ EnqueueDuplicate(h) \/ EnqueueFails(h) \/ EnqueueUnread(h)
  \/ Notify(h)

WorkerStep(w) ==
  \/ ClaimJob(w) \/ ClaimNothing(w) \/ ClaimLost(w)
  \/ Wake(w) \/ Tick(w) \/ Leave(w)
  \/ StartRun(w) \/ ProcessReturns(w)
  \/ FinishRunningJob(w) \/ FinishFails(w) \/ Release(w)

Next ==
  \/ \E h \in Handlers, d \in Deliveries : Receive(h, d)
  \/ \E h \in Handlers : HandlerStep(h)
  \/ \E w \in Workers : WorkerStep(w)
  \/ \E i \in Ids : RerunJob(i) \/ CancelPendingJob(i) \/ RetryDue(i)
  \/ Crash \/ Terminate \/ Exit \/ Boot \/ RecoverRunning

Spec == Init /\ [][Next]_vars

\* The scheduler runs every goroutine, the two-second ticker fires, Go's mutex
\* hands a waiter the lock in the end, and the container restarts the process
\* ("unless-stopped"). That Process returns is not among it: the agents have a
\* timeout, but the context of the run has no deadline and git has no limit.
Progress(w) ==
  \/ ClaimJob(w) \/ ClaimNothing(w) \/ Tick(w) \/ FinishRunningJob(w) \/ Release(w)

Fairness ==
  /\ \A h \in Handlers : WF_vars(HandlerStep(h))
  /\ \A w \in Workers : WF_vars(Progress(w)) /\ SF_vars(StartRun(w))
  /\ \A i \in Ids : WF_vars(RetryDue(i))
  /\ WF_vars(Exit) /\ WF_vars(Boot) /\ WF_vars(RecoverRunning)

FairSpec == Spec /\ Fairness

-----------------------------------------------------------------------------
(* Properties.                                                             *)

TypeOK ==
  /\ jobs \in [Ids -> Row]
  /\ lastId \in 0..MaxJobs
  /\ acked \subseteq Deliveries
  /\ nacked \subseteq Deliveries
  /\ sends \in [Deliveries -> Nat]
  /\ phase \in {"down", "boot", "up", "stopping"}
  /\ hpc \in [Handlers -> {"idle", "supersede", "cancel", "enqueue", "notify"}]
  /\ hdel \in [Handlers -> Deliveries \cup {None}]
  /\ wpc \in [Workers -> {"off", "claim", "idle", "lock", "process", "finish", "release"}]
  /\ wjob \in [Workers -> Ids \cup {None}]
  /\ result \in [Workers -> {"pending", "done", "failed", "superseded", "none"}]
  /\ canceled \in [Workers -> BOOLEAN]
  /\ keyLock \in [Repos -> Workers \cup {None}]
  /\ cancels \in [Repos -> Workers \cup {None}]
  /\ wake \in BOOLEAN
  /\ reruns \in Nat /\ crashes \in Nat /\ stops \in Nat /\ faults \in Nat

\* No two workers are inside Queue.run with jobs of one repository: the
\* worktree path is deterministic and cannot be shared (worker.go, run).
KeyExclusive ==
  \A v, w \in Workers :
    v # w /\ wpc[v] \in HoldsLock /\ wpc[w] \in HoldsLock => Key(v) # Key(w)

\* The cancel function registered for a repository is that of the worker
\* inside run with a job of that repository, so CancelInFlight never reaches
\* a run that is over.
CancelsOfHolder ==
  \A r \in Repos : cancels[r] # None =>
    /\ keyLock[r] = cancels[r]
    /\ wpc[cancels[r]] \in HoldsLock
    /\ Key(cancels[r]) = r

\* However claims, recoveries, retries and reruns interleave, at most one row
\* of a pull request is running.
OneRunningPerPR ==
  \A i, k \in Ids :
    i # k /\ jobs[i].status = "running" /\ jobs[k].status = "running"
      => jobs[i].pr # jobs[k].pr

\* No row is run by two workers, not even one that was superseded under a
\* worker that has not noticed yet.
NoDoubleRun ==
  \A v, w \in Workers :
    v # w /\ wpc[v] \in Owning /\ wpc[w] \in Owning => wjob[v] # wjob[w]

\* While the pool is up and no statement failed, a running row is some
\* worker's: none is left running with nobody to finish it, which would keep
\* every later job of its pull request from being claimed.
RunningOwned ==
  phase = "up" /\ faults = 0 =>
    \A i \in Ids : jobs[i].status = "running" =>
      \E w \in Workers : wpc[w] \in Owning /\ wjob[w] = i

\* A delivery answered 200 has its row, across crashes and redeliveries.
AckedDeliveryRecorded ==
  \A d \in acked : \E i \in Rows : jobs[i].delivery = d

\* A job starts at most maxAttempts times, and once more for each restart
\* that found it running.
AttemptsBounded ==
  \A i \in Ids : jobs[i].attempts <= MaxAttempts + crashes + stops

\* "worker finishes are conditional, so an old worker cannot overwrite a
\* canceled or superseded final state" (README, Tasks): no step leaves a
\* final state.
FinalStateKept ==
  [][\A i \in Ids : jobs[i].status \in Final => jobs'[i].status = jobs[i].status]_vars

\* What the table promises its readers.
Lifecycle == INSTANCE JobLifecycle WITH
  status <- [i \in Ids |-> jobs[i].status],
  pr     <- [i \in Ids |-> jobs[i].pr]

LifecycleSpec == Lifecycle!Spec

\* A push that is being handled, or whose sender was not told 200, for PR p.
PushUnderWay(p) ==
  \/ \E h \in Handlers : /\ hpc[h] \in {"cancel", "enqueue"}
                        /\ hdel[h] \in Pushes /\ PROf[hdel[h]] = p
  \/ \E d \in Pushes \cap nacked : PROf[d] = p

\* A superseded job gave way to a newer event of its pull request: the row of
\* a later push follows it, or that push is still being handled, or its
\* sender knows it failed (store/jobs.go, SupersedePending).
SupersededHasSuccessor ==
  \A i \in Ids : jobs[i].status = "superseded" =>
    \/ \E k \in Ids : k > i /\ jobs[k].pr = jobs[i].pr /\ jobs[k].delivery \in Pushes
    \/ PushUnderWay(jobs[i].pr)

\* A push other than the first sending of the job's own delivery was sent for
\* the pull request of row i.
PushedAgain(i) ==
  \E d \in Pushes : /\ PROf[d] = jobs[i].pr
                    /\ sends[d] > IF d = jobs[i].delivery THEN 1 ELSE 0

\* What reaches a run from outside its pull request: SIGTERM, and a push to
\* another pull request of the repository.
ReachedFromOutside(i) ==
  \/ stops > 0
  \/ \E d \in Pushes : /\ PROf[d] # jobs[i].pr
                        /\ RepoOf[PROf[d]] = RepoOf[jobs[i].pr]
                        /\ sends[d] > 0

\* Every way a job is superseded: by a push to its pull request, also by its
\* own delivered again, or, once it was started, by SIGTERM or a push next
\* door (worker.go, run). A crash, the recovery, a failing statement, an error
\* of the run, a retry or a rerun never does it, and a job that waits is never
\* the victim of a stop or of a neighbour.
SupersededCauses ==
  \A i \in Ids : jobs[i].status = "superseded" =>
    PushedAgain(i) \/ (jobs[i].attempts > 0 /\ ReachedFromOutside(i))

\* While the pool is up, a run is cancelled only by a push, other than its
\* own, for its own pull request (queue/worker.go, CancelInFlight).
CanceledByOwnPR ==
  \A w \in Workers : phase = "up" /\ wpc[w] = "process" /\ canceled[w] =>
    \E d \in Pushes : /\ d # JobOf(w).delivery
                      /\ PROf[d] = JobOf(w).pr
                      /\ sends[d] > 0

\* No call of Process lasts forever. Nothing in the code ensures it: a fetch
\* that hangs keeps its worker, the row and the lock of the repository.
ProcessComesBack == \A w \in Workers : []<>(wpc[w] # "process")

\* If the calls of Process come back, every job that waits, through retries,
\* restarts and the lock of its repository, ends.
EveryJobEnds ==
  ProcessComesBack =>
    \A i \in Ids : jobs[i].status = "pending" ~> jobs[i].status \in Final

=============================================================================
