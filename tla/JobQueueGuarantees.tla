------------------------ MODULE JobQueueGuarantees --------------------------
(***************************************************************************)
(* What the queue promises to those who use it: the lifecycle of its rows, *)
(* the record of what it answered, the number of attempts, and an owner    *)
(* for what runs. The invariants of JobQueueProofs carry the proofs.       *)
(***************************************************************************)
EXTENDS JobQueueProofs

-----------------------------------------------------------------------------
(* JobQueue implements JobLifecycle.                                       *)

LEMMA LifecycleInit == Init => Lifecycle!Init
  BY DEF Init, Lifecycle!Init, NoRow

LEMMA LifecycleStep ==
  ASSUME TypeInv, TableInv, TableStep
  PROVE  [Lifecycle!Next]_Lifecycle!lifecycleVars
<1> USE DEF TypeInv, TypeOK, TableInv, Lifecycle!Move, Lifecycle!Running, Lifecycle!Waiting
<1>1. CASE UNCHANGED tableVars
  BY <1>1 DEF tableVars, Lifecycle!lifecycleVars
<1>2. ASSUME NEW p \in PRs, NEW d \in Deliveries \cup {None}, Insert(p, d)
      PROVE  Lifecycle!Next
  <2>1. lastId + 1 \in Ids /\ jobs[lastId + 1].status = "absent"
    BY <1>2, QueueAssumption DEF Insert, Ids, Row
  <2>2. Lifecycle!Submit(lastId + 1, p)
    BY <1>2, <2>1 DEF Insert, NewRow, Lifecycle!Submit
  <2> QED BY <2>1, <2>2 DEF Lifecycle!Next
<1>3. ASSUME NEW p \in PRs, jobs' = Superseded(p)
      PROVE  Lifecycle!Next
  <2>1. Lifecycle!Replace(p)
    BY <1>3 DEF Superseded, Active, Row, Lifecycle!Replace
  <2> QED BY <2>1 DEF Lifecycle!Next
<1>4. ASSUME NEW i \in Ids, Start(i)
      PROVE  Lifecycle!Next
  <2>1. Lifecycle!Start(i)
    BY <1>4 DEF Start, NextJob, Claimable, Claimed, SetRow, Lifecycle!Start
  <2> QED BY <2>1 DEF Lifecycle!Next
<1>5. ASSUME NEW i \in Ids, NEW s \in Outcomes, NEW due \in BOOLEAN, Record(i, s, due)
      PROVE  Lifecycle!Next
  <2>1. CASE s = "pending"
    <3>1. Lifecycle!Requeue({i})
      BY <1>5, <2>1 DEF Record, SetRow, Lifecycle!Requeue
    <3> QED BY <3>1 DEF Lifecycle!Next
  <2>2. CASE s # "pending"
    <3>1. Lifecycle!Conclude(i, s)
      BY <1>5, <2>2 DEF Record, SetRow, Lifecycle!Conclude
    <3>2. s \in {"done", "failed", "superseded"}
      BY <2>2 DEF Outcomes
    <3> QED BY <3>1, <3>2 DEF Lifecycle!Next
  <2> QED BY <2>1, <2>2
<1>6. ASSUME NEW i \in Ids, Touch(i, "pending")
      PROVE  UNCHANGED Lifecycle!lifecycleVars
  BY <1>6 DEF Touch, SetRow, Lifecycle!lifecycleVars
<1>7. ASSUME NEW i \in Ids, Touch(i, "canceled")
      PROVE  Lifecycle!Next
  <2>1. Lifecycle!Cancel(i)
    BY <1>7 DEF Touch, SetRow, Lifecycle!Cancel
  <2> QED BY <2>1 DEF Lifecycle!Next
<1>8. ASSUME jobs' = Recovered
      PROVE  Lifecycle!Next
  <2> DEFINE S == {i \in Ids : jobs[i].status = "running"}
  <2>1. Lifecycle!Requeue(S)
    BY <1>8 DEF Recovered, Row, Lifecycle!Requeue
  <2>2. S \in SUBSET Ids
    OBVIOUS
  <2>3. \E T \in SUBSET Ids : Lifecycle!Requeue(T)
    <3> HIDE DEF S
    <3> QED BY <2>1, <2>2 DEF Lifecycle!Requeue
  <2> QED BY <2>3 DEF Lifecycle!Next
<1> QED
  BY <1>1, <1>2, <1>3, <1>4, <1>5, <1>6, <1>7, <1>8 DEF TableStep

\* Every behaviour of the queue, with its webhooks, workers, console, crashes
\* and store errors, is one JobLifecycle allows.
THEOREM ImplementsLifecycle == Spec => LifecycleSpec
<1>1. TypeInv /\ TableInv /\ [Next]_vars => [Lifecycle!Next]_Lifecycle!lifecycleVars
  BY NextTable, LifecycleStep
<1> QED
  BY <1>1, LifecycleInit, TableAlways, PTL DEF Spec, LifecycleSpec, Lifecycle!Spec

-----------------------------------------------------------------------------
(* Deliveries.                                                             *)

Recorded(d) == \E i \in Rows : jobs[i].delivery = d

\* What was acknowledged, or is about to be, has its row.
DeliveryInv ==
  /\ AckedDeliveryRecorded
  /\ \A h \in Handlers : hpc[h] = "notify" => Recorded(hdel[h])

LEMMA RecordedKept ==
  ASSUME \A i \in Ids : RowStep(i)
  PROVE  \A d : Recorded(d) => Recorded(d)'
  BY DEF RowStep, Recorded, Rows

LEMMA DeliveryBystander ==
  ASSUME DeliveryInv, \A i \in Ids : RowStep(i), acked' = acked,
         \A h \in Handlers : hpc'[h] = "notify" => hpc[h] = "notify" /\ hdel'[h] = hdel[h]
  PROVE  DeliveryInv'
<1>1. \A d : Recorded(d) => Recorded(d)'
  BY RecordedKept
<1>2. AckedDeliveryRecorded'
  BY <1>1 DEF DeliveryInv, AckedDeliveryRecorded, Recorded
<1>3. ASSUME NEW h \in Handlers, hpc'[h] = "notify" PROVE Recorded(hdel[h])'
  <2>1. hpc[h] = "notify" /\ hdel'[h] = hdel[h]
    BY <1>3
  <2>2. Recorded(hdel[h])
    BY <2>1 DEF DeliveryInv
  <2> QED BY <2>1, <2>2 DEF RowStep, Recorded, Rows
<1> QED BY <1>2, <1>3 DEF DeliveryInv

LEMMA DeliveryHandlerStep ==
  ASSUME TypeInv, TableInv, DeliveryInv, NEW h \in Handlers, HandlerStep(h),
         \A i \in Ids : RowStep(i)
  PROVE  DeliveryInv'
<1> USE DEF TypeInv, TypeOK
<1>1. CASE SupersedePending(h)
  BY <1>1, DeliveryBystander DEF SupersedePending, senderVars
<1>2. CASE CancelInFlight(h)
  BY <1>2, DeliveryBystander DEF CancelInFlight, senderVars
<1>3. CASE EnqueueFails(h)
  BY <1>3, DeliveryBystander DEF EnqueueFails, AnswerError
<1>4. CASE EnqueueUnread(h)
  BY <1>4, DeliveryBystander DEF EnqueueUnread, AnswerError
<1>5. CASE EnqueueJob(h)
  <2>1. AckedDeliveryRecorded'
    BY <1>5, RecordedKept DEF EnqueueJob, senderVars, DeliveryInv, AckedDeliveryRecorded, Recorded
  <2>2. lastId + 1 \in Ids /\ jobs'[lastId + 1] = NewRow(PROf[hdel[h]], hdel[h])
    BY <1>5, QueueAssumption DEF EnqueueJob, Ids
  <2>3. ASSUME NEW g \in Handlers, hpc'[g] = "notify" PROVE Recorded(hdel[g])'
    <3>1. CASE g = h
      BY <1>5, <2>2, <3>1 DEF EnqueueJob, Recorded, Rows, NewRow
    <3>2. CASE g # h
      BY <1>5, <2>3, <3>2 DEF EnqueueJob, DeliveryInv, RowStep, Recorded, Rows
    <3> QED BY <3>1, <3>2
  <2> QED BY <2>1, <2>3 DEF DeliveryInv
<1>6. CASE EnqueueDuplicate(h) \/ Notify(h)
  <2>1. /\ acked' = acked \cup {hdel[h]}
        /\ hpc' = [hpc EXCEPT ![h] = "idle"]
        /\ hdel' = [hdel EXCEPT ![h] = None]
        /\ jobs' = jobs
    BY <1>6 DEF EnqueueDuplicate, Notify, tableVars
  <2>2. Recorded(hdel[h])
    BY <1>6 DEF EnqueueDuplicate, Notify, SameDelivery, Recorded, DeliveryInv
  <2>3. AckedDeliveryRecorded'
    BY <2>1, <2>2 DEF DeliveryInv, AckedDeliveryRecorded, Recorded, Rows
  <2>4. \A g \in Handlers : hpc'[g] = "notify" => Recorded(hdel[g])'
    BY <2>1 DEF DeliveryInv, Recorded, Rows
  <2> QED BY <2>3, <2>4 DEF DeliveryInv
<1> QED BY <1>1, <1>2, <1>3, <1>4, <1>5, <1>6 DEF HandlerStep

LEMMA DeliveryNext ==
  TypeInv /\ TableInv /\ DeliveryInv /\ [Next]_vars => DeliveryInv'
<1> SUFFICES ASSUME TypeInv, TableInv, DeliveryInv, [Next]_vars PROVE DeliveryInv'
  OBVIOUS
<1>0. \A i \in Ids : RowStep(i)
  BY NextTable, TableStepRows
<1> USE DEF senderVars, handlerVars
<1>1. ASSUME NEW h \in Handlers, NEW d \in Deliveries, Receive(h, d) PROVE DeliveryInv'
  BY <1>0, <1>1, DeliveryBystander DEF Receive, FirstCall, TypeInv, TypeOK
<1>2. ASSUME NEW h \in Handlers, HandlerStep(h) PROVE DeliveryInv'
  BY <1>0, <1>2, DeliveryHandlerStep
<1>3. ASSUME NEW w \in Workers, WorkerStep(w) PROVE DeliveryInv'
  <2>1. UNCHANGED <<acked, hpc, hdel>>
    BY <1>3 DEF WorkerStep, ClaimJob, ClaimNothing, ClaimLost, Wake, Tick, Leave, StartRun,
                ProcessReturns, FinishRunningJob, FinishFails, Release
  <2> QED BY <1>0, <2>1, DeliveryBystander
<1>4. ASSUME NEW i \in Ids, RerunJob(i) \/ CancelPendingJob(i) \/ RetryDue(i)
      PROVE  DeliveryInv'
  BY <1>0, <1>4, DeliveryBystander DEF RerunJob, CancelPendingJob, RetryDue
<1>5. CASE Crash \/ Exit
  BY <1>0, <1>5, DeliveryBystander DEF Crash, Exit, ProcessEnds
<1>6. CASE Terminate \/ Boot \/ RecoverRunning
  BY <1>0, <1>6, DeliveryBystander DEF Terminate, Boot, RecoverRunning
<1>7. CASE UNCHANGED vars
  BY <1>0, <1>7, DeliveryBystander DEF vars
<1> QED
  BY <1>1, <1>2, <1>3, <1>4, <1>5, <1>6, <1>7 DEF Next

\* Gitea is told 200 only for deliveries the table holds, and the table never
\* forgets one, whatever fails or crashes.
THEOREM AckedRecorded == Spec => []AckedDeliveryRecorded
<1>1. Init => DeliveryInv
  BY DEF Init, DeliveryInv, AckedDeliveryRecorded
<1>2. DeliveryInv => AckedDeliveryRecorded
  BY DEF DeliveryInv
<1> QED
  BY <1>1, <1>2, DeliveryNext, TableAlways, PTL DEF Spec

-----------------------------------------------------------------------------
(* Owners.                                                                 *)

Owned(i) == \E w \in Workers : wpc[w] \in Owning /\ wjob[w] = i

\* The pool stays up, no statement fails, no worker gives up a row and no row
\* starts to run.
LEMMA OwnedBystander ==
  ASSUME RunningOwned, phase' = "up" => phase = "up", faults' = 0 => faults = 0,
         \A w \in Workers : wpc[w] \in Owning => wpc'[w] \in Owning /\ wjob'[w] = wjob[w],
         \A i \in Ids : jobs'[i].status = "running" => jobs[i].status = "running"
  PROVE  RunningOwned'
  BY DEF RunningOwned

LEMMA OwnedWorkerStep ==
  ASSUME TypeInv, RunningOwned, NEW w \in Workers, WorkerStep(w)
  PROVE  RunningOwned'
<1> USE DEF GoTo, TypeInv, TypeOK, tableVars, budgetVars
<1>1. CASE ClaimJob(w)
  <2>1. PICK i \in Ids : jobs' = Claimed(i) /\ wjob' = [wjob EXCEPT ![w] = i]
    BY <1>1 DEF ClaimJob
  <2>2. \A k \in Ids : k # i => jobs'[k] = jobs[k]
    BY <2>1 DEF Claimed, SetRow
  <2>3. wpc' = [wpc EXCEPT ![w] = "lock"] /\ wpc[w] = "claim" /\ phase = "up" /\ faults' = faults
    BY <1>1 DEF ClaimJob
  <2> QED BY <2>1, <2>2, <2>3 DEF RunningOwned, Owning
<1>2. CASE ClaimLost(w)
  BY <1>2 DEF ClaimLost, StoreFault, RunningOwned
<1>3. CASE FinishRunningJob(w)
  <2>1. /\ wpc' = [wpc EXCEPT ![w] = "release"] /\ wpc[w] = "finish"
        /\ wjob' = wjob /\ phase' = phase /\ faults' = faults
    BY <1>3 DEF FinishRunningJob
  <2>2. wjob[w] \in Ids /\ result[w] # "running"
    BY <2>1 DEF WorkerHasRow, Busy
  <2>3. /\ jobs'[wjob[w]].status # "running"
        /\ \A k \in Ids : k # wjob[w] => jobs'[k] = jobs[k]
    BY <1>3, <2>2 DEF FinishRunningJob, StillRunning, JobOf, SetRow
  <2> QED BY <2>1, <2>2, <2>3 DEF RunningOwned, Owning
<1>4. CASE FinishFails(w)
  BY <1>4 DEF FinishFails, StoreFault, RunningOwned
<1>5. CASE ClaimNothing(w) \/ Wake(w) \/ Tick(w) \/ Leave(w) \/ Release(w)
  BY <1>5, OwnedBystander DEF ClaimNothing, Wake, Tick, Leave, Release, Owning
<1>6. CASE StartRun(w) \/ ProcessReturns(w)
  BY <1>6, OwnedBystander DEF StartRun, ProcessReturns, Owning
<1> QED
  BY <1>1, <1>2, <1>3, <1>4, <1>5, <1>6 DEF WorkerStep

LEMMA OwnedNext ==
  TypeInv /\ TableInv /\ RunningOwned /\ [Next]_vars => RunningOwned'
<1> SUFFICES ASSUME TypeInv, TableInv, RunningOwned, [Next]_vars PROVE RunningOwned'
  OBVIOUS
<1> USE DEF TypeInv, TypeOK, tableVars, workerVars, budgetVars
<1>1. ASSUME NEW h \in Handlers, NEW d \in Deliveries, Receive(h, d) PROVE RunningOwned'
  BY <1>1, OwnedBystander DEF Receive
<1>2. ASSUME NEW h \in Handlers, HandlerStep(h) PROVE RunningOwned'
  <2>1. UNCHANGED <<wpc, wjob, phase>>
    BY <1>2 DEF HandlerStep, SupersedePending, CancelInFlight, EnqueueJob, EnqueueDuplicate,
                EnqueueFails, EnqueueUnread, Notify
  <2>2. faults' = 0 => faults = 0
    BY <1>2 DEF HandlerStep, SupersedePending, CancelInFlight, EnqueueJob, EnqueueDuplicate,
                EnqueueFails, EnqueueUnread, Notify, StoreFault
  <2>3. \A i \in Ids : jobs'[i].status = "running" => jobs[i].status = "running"
    <3>1. CASE SupersedePending(h)
      BY <3>1 DEF SupersedePending, Superseded, Row
    <3>2. CASE EnqueueJob(h) \/ EnqueueUnread(h)
      <4>1. jobs' = [jobs EXCEPT ![lastId + 1] = NewRow(PROf[hdel[h]], hdel[h])]
        BY <3>2 DEF EnqueueJob, EnqueueUnread
      <4> QED BY <4>1 DEF NewRow
    <3>3. CASE CancelInFlight(h) \/ EnqueueDuplicate(h) \/ EnqueueFails(h) \/ Notify(h)
      BY <3>3 DEF CancelInFlight, EnqueueDuplicate, EnqueueFails, Notify
    <3> QED BY <1>2, <3>1, <3>2, <3>3 DEF HandlerStep
  <2> QED BY <2>1, <2>2, <2>3, OwnedBystander
<1>3. ASSUME NEW w \in Workers, WorkerStep(w) PROVE RunningOwned'
  BY <1>3, OwnedWorkerStep
<1>4. ASSUME NEW i \in Ids, RerunJob(i) PROVE RunningOwned'
  BY <1>4, OwnedBystander, QueueAssumption DEF RerunJob, NewRow, Ids
<1>5. ASSUME NEW i \in Ids, CancelPendingJob(i) \/ RetryDue(i) PROVE RunningOwned'
  BY <1>5, OwnedBystander DEF CancelPendingJob, RetryDue, SetRow
<1>6. CASE Crash \/ Terminate \/ Exit \/ Boot
  BY <1>6 DEF Crash, Terminate, Exit, Boot, ProcessEnds, RunningOwned
<1>7. CASE RecoverRunning
  BY <1>7 DEF RecoverRunning, Recovered, Row, StoreFault, RunningOwned
<1>8. CASE UNCHANGED vars
  BY <1>8, OwnedBystander DEF vars
<1> QED
  BY <1>1, <1>2, <1>3, <1>4, <1>5, <1>6, <1>7, <1>8 DEF Next

\* As long as the store answers, what runs in a pool that is up has a worker:
\* a job is left behind only by a failed statement or the end of the process.
THEOREM RunningHasOwner == Spec => []RunningOwned
<1>1. Init => RunningOwned
  BY DEF Init, RunningOwned
<1> QED
  BY <1>1, OwnedNext, TableAlways, PTL DEF Spec

-----------------------------------------------------------------------------
(* Attempts.                                                               *)

\* MaxAttempts, and one more for each end of the process.
Allowance == MaxAttempts + crashes + stops

\* A row that waits has an attempt left, two while the pool stops; a row left
\* running by a pool that ended, or is ending, has one.
RowBound(i) ==
  /\ jobs[i].attempts <= Allowance
  /\ jobs[i].status = "pending" =>
       /\ jobs[i].attempts + 1 <= Allowance
       /\ phase = "stopping" => jobs[i].attempts + 2 <= Allowance
  /\ jobs[i].status = "running" /\ phase # "up" => jobs[i].attempts + 1 <= Allowance

\* A worker records a retry only below MaxAttempts.
RetryBelow ==
  \A w \in Workers : wpc[w] = "finish" /\ result[w] = "pending"
                     => JobOf(w).attempts < MaxAttempts

StopCounted == phase = "stopping" => stops > 0

AttemptsInv == (\A i \in Ids : RowBound(i)) /\ RetryBelow /\ StopCounted

\* Only a row that waits, or a new one, gets another count of attempts.
LEMMA AttemptsKept ==
  ASSUME TypeInv, TableInv, TableStep
  PROVE  \A i \in Ids : jobs[i].status \notin {"absent", "pending"}
                        => jobs'[i].attempts = jobs[i].attempts
<1> USE DEF TypeInv, TypeOK, TableInv
<1>1. CASE UNCHANGED tableVars
  BY <1>1 DEF tableVars
<1>2. ASSUME NEW p \in PRs, NEW d \in Deliveries \cup {None}, Insert(p, d),
             NEW i \in Ids, jobs[i].status \notin {"absent", "pending"}
      PROVE  jobs'[i].attempts = jobs[i].attempts
  BY <1>2, QueueAssumption DEF Insert, Ids
<1>3. ASSUME NEW p \in PRs, jobs' = Superseded(p), NEW i \in Ids
      PROVE  jobs'[i].attempts = jobs[i].attempts
  BY <1>3 DEF Superseded, Row
<1>4. ASSUME NEW k \in Ids, Start(k),
             NEW i \in Ids, jobs[i].status \notin {"absent", "pending"}
      PROVE  jobs'[i].attempts = jobs[i].attempts
  BY <1>4 DEF Start, NextJob, Claimable, Claimed, SetRow
<1>5. ASSUME NEW k \in Ids, NEW s \in Outcomes, NEW due \in BOOLEAN, Record(k, s, due),
             NEW i \in Ids
      PROVE  jobs'[i].attempts = jobs[i].attempts
  BY <1>5 DEF Record, SetRow
<1>6. ASSUME NEW k \in Ids, NEW s \in {"pending", "canceled"}, Touch(k, s), NEW i \in Ids
      PROVE  jobs'[i].attempts = jobs[i].attempts
  BY <1>6 DEF Touch, SetRow
<1>7. ASSUME jobs' = Recovered, NEW i \in Ids
      PROVE  jobs'[i].attempts = jobs[i].attempts
  BY <1>7 DEF Recovered, Row
<1> QED
  BY <1>1, <1>2, <1>3, <1>4, <1>5, <1>6, <1>7 DEF TableStep

\* A table step of a process that neither ends nor starts.
LEMMA BoundStep ==
  ASSUME TypeInv, TableInv, AttemptsInv, TableStep, UNCHANGED <<phase, crashes, stops>>,
         \A i \in Ids : jobs[i].status = "pending" /\ jobs'[i].status = "running"
                        => phase \in {"up", "stopping"},
         \A i \in Ids : jobs[i].status = "running" /\ jobs'[i].status = "pending"
                        => jobs[i].attempts < MaxAttempts
  PROVE  \A i \in Ids : RowBound(i)'
<1> USE DEF TypeInv, TypeOK, TableInv, AttemptsInv, RowBound, Allowance, StopCounted
<1>0. /\ MaxAttempts \in Nat \ {0} /\ crashes \in Nat /\ stops \in Nat
      /\ \A i \in Ids : jobs[i].attempts \in Nat
  BY QueueAssumption DEF Row
<1>1. CASE UNCHANGED tableVars
  BY <1>1 DEF tableVars
<1>2. ASSUME NEW p \in PRs, NEW d \in Deliveries \cup {None}, Insert(p, d), NEW i \in Ids
      PROVE  RowBound(i)'
  BY <1>0, <1>2 DEF Insert, NewRow
<1>3. ASSUME NEW p \in PRs, jobs' = Superseded(p), NEW i \in Ids PROVE RowBound(i)'
  BY <1>3 DEF Superseded, Row
<1>4. ASSUME NEW k \in Ids, Start(k), NEW i \in Ids PROVE RowBound(i)'
  <2>1. jobs[k].status = "pending" /\ phase \in {"up", "stopping"}
    BY <1>4 DEF Start, NextJob, Claimable, Claimed, SetRow
  <2>2. CASE i = k
    <3>1. jobs'[k].attempts = jobs[k].attempts + 1 /\ jobs'[k].status = "running"
      BY <1>4 DEF Start, Claimed, SetRow
    <3>2. RowBound(k)
      OBVIOUS
    <3> QED BY <1>0, <2>1, <2>2, <3>1, <3>2
  <2>3. CASE i # k
    BY <1>4, <2>3 DEF Start, Claimed, SetRow
  <2> QED BY <2>2, <2>3
<1>5. ASSUME NEW k \in Ids, NEW s \in Outcomes, NEW due \in BOOLEAN, Record(k, s, due),
             NEW i \in Ids
      PROVE  RowBound(i)'
  <2>1. CASE i = k
    <3>1. /\ jobs[k].status = "running" /\ jobs'[k].status = s
          /\ jobs'[k].attempts = jobs[k].attempts /\ s # "running"
      BY <1>5 DEF Record, SetRow, Outcomes
    <3>2. s = "pending" => jobs[k].attempts < MaxAttempts
      BY <3>1
    <3>3. RowBound(k)
      OBVIOUS
    <3> QED BY <1>0, <2>1, <3>1, <3>2, <3>3
  <2>2. CASE i # k
    BY <1>5, <2>2 DEF Record, SetRow
  <2> QED BY <2>1, <2>2
<1>6. ASSUME NEW k \in Ids, NEW s \in {"pending", "canceled"}, Touch(k, s), NEW i \in Ids
      PROVE  RowBound(i)'
  BY <1>6 DEF Touch, SetRow
<1>7. ASSUME jobs' = Recovered, NEW i \in Ids PROVE RowBound(i)'
  <2>1. CASE jobs[i].status = "running"
    <3>1. jobs'[i].status = "pending" /\ jobs'[i].attempts = jobs[i].attempts
      BY <1>7, <2>1 DEF Recovered, Row
    <3> QED BY <1>0, <2>1, <3>1
  <2>2. CASE jobs[i].status # "running"
    BY <1>7, <2>2 DEF Recovered
  <2> QED BY <2>1, <2>2
<1> QED
  BY <1>1, <1>2, <1>3, <1>4, <1>5, <1>6, <1>7 DEF TableStep

LEMMA RetryBelowBystander ==
  ASSUME TypeInv, TableInv, ClaimInv, AttemptsInv, TableStep, UNCHANGED <<wjob, result>>,
         \A w \in Workers : wpc'[w] = "finish" => wpc[w] = "finish"
  PROVE  RetryBelow'
<1>1. ASSUME NEW w \in Workers, wpc[w] = "finish"
      PROVE  jobs'[wjob[w]].attempts = jobs[wjob[w]].attempts
  <2>1. wjob[w] \in Ids /\ jobs[wjob[w]].status \notin {"absent", "pending"}
    BY <1>1 DEF TypeInv, WorkerHasRow, ClaimInv, BusyRows, Busy, Owning
  <2> QED BY <2>1, AttemptsKept
<1> QED BY <1>1 DEF AttemptsInv, RetryBelow, JobOf

\* The handlers, the console and the clock neither start a row nor send one
\* back.
LEMMA AttemptsBystander ==
  ASSUME TypeInv, TableInv, ClaimInv, AttemptsInv, TableStep,
         UNCHANGED <<phase, crashes, stops, wpc, wjob, result>>,
         \A i \in Ids : jobs'[i].status = "running" => jobs[i].status = "running",
         \A i \in Ids : jobs[i].status = "running" => jobs'[i].status # "pending"
  PROVE  AttemptsInv'
<1>1. \A i \in Ids : RowBound(i)'
  BY BoundStep
<1>2. RetryBelow'
  BY RetryBelowBystander
<1>3. StopCounted'
  BY DEF AttemptsInv, StopCounted
<1> QED BY <1>1, <1>2, <1>3 DEF AttemptsInv

LEMMA AttemptsWorkerStep ==
  ASSUME TypeInv, TableInv, ClaimInv, AttemptsInv, NEW w \in Workers, WorkerStep(w)
  PROVE  AttemptsInv'
<1>0. TableStep
  BY TableWorkerStep
<1> USE DEF GoTo, TypeInv, TypeOK, tableVars, budgetVars
<1>1. CASE ClaimJob(w) \/ ClaimLost(w)
  <2>1. PICK i \in Ids : jobs[i].status = "pending" /\ jobs' = Claimed(i)
    BY <1>1 DEF ClaimJob, ClaimLost, NextJob, Claimable
  <2>2. UNCHANGED <<phase, crashes, stops>> /\ phase \in {"up", "stopping"}
    BY <1>1 DEF ClaimJob, ClaimLost, StoreFault
  <2>3. \A k \in Ids : jobs[k].status = "running" => jobs'[k].status = "running"
    BY <2>1 DEF Claimed, SetRow
  <2>4. \A k \in Ids : RowBound(k)'
    BY <1>0, <2>2, <2>3, BoundStep
  <2>5. /\ \A v \in Workers : wpc'[v] = "finish" => v # w /\ wpc[v] = "finish"
        /\ \A v \in Workers : v # w => wjob'[v] = wjob[v]
        /\ result' = result
    BY <1>1 DEF ClaimJob, ClaimLost
  <2>6. ASSUME NEW v \in Workers, wpc'[v] = "finish"
        PROVE  wjob'[v] = wjob[v] /\ jobs'[wjob[v]].attempts = jobs[wjob[v]].attempts
    <3>1. wpc[v] = "finish" /\ wjob'[v] = wjob[v]
      BY <2>5, <2>6
    <3>2. wjob[v] \in Ids /\ jobs[wjob[v]].status \notin {"absent", "pending"}
      BY <3>1 DEF WorkerHasRow, ClaimInv, BusyRows, Busy, Owning
    <3> QED BY <1>0, <3>1, <3>2, AttemptsKept
  <2>7. RetryBelow'
    BY <2>5, <2>6 DEF AttemptsInv, RetryBelow, JobOf
  <2>8. StopCounted'
    BY <2>2 DEF AttemptsInv, StopCounted
  <2> QED BY <2>4, <2>7, <2>8 DEF AttemptsInv
<1>2. CASE ProcessReturns(w)
  <2>1. /\ jobs' = jobs /\ wjob' = wjob /\ UNCHANGED <<phase, crashes, stops>>
        /\ wpc' = [wpc EXCEPT ![w] = "finish"]
        /\ \E s \in Outcomes : result' = [result EXCEPT ![w] = s]
    BY <1>2 DEF ProcessReturns, Outcome, Outcomes
  <2>2. result'[w] = "pending" => JobOf(w).attempts < MaxAttempts
    BY <1>2 DEF ProcessReturns, Outcome
  <2>3. \A k \in Ids : RowBound(k)'
    BY <1>0, <2>1, BoundStep
  <2>4. RetryBelow'
    BY <2>1, <2>2 DEF AttemptsInv, RetryBelow, JobOf
  <2>5. StopCounted'
    BY <2>1 DEF AttemptsInv, StopCounted
  <2> QED BY <2>3, <2>4, <2>5 DEF AttemptsInv
<1>3. CASE FinishRunningJob(w)
  <2>1. /\ wpc' = [wpc EXCEPT ![w] = "release"] /\ wpc[w] = "finish"
        /\ UNCHANGED <<phase, crashes, stops, wjob, result>>
    BY <1>3 DEF FinishRunningJob
  <2>2. wjob[w] \in Ids
    BY <2>1 DEF WorkerHasRow, Busy
  <2>3. ASSUME NEW k \in Ids, jobs[k].status = "running", jobs'[k].status = "pending"
        PROVE  jobs[k].attempts < MaxAttempts
    <3>1. k = wjob[w] /\ result[w] = "pending"
      BY <1>3, <2>2, <2>3 DEF FinishRunningJob, SetRow
    <3> QED BY <2>1, <3>1 DEF AttemptsInv, RetryBelow, JobOf
  <2>4. \A k \in Ids : jobs[k].status = "pending" => jobs'[k].status # "running"
    BY <1>3, <2>2 DEF FinishRunningJob, StillRunning, JobOf, SetRow
  <2>5. \A k \in Ids : RowBound(k)'
    BY <1>0, <2>1, <2>3, <2>4, BoundStep
  <2>6. RetryBelow'
    BY <1>0, <2>1, RetryBelowBystander
  <2>7. StopCounted'
    BY <2>1 DEF AttemptsInv, StopCounted
  <2> QED BY <2>5, <2>6, <2>7 DEF AttemptsInv
<1>4. CASE Release(w)
  <2>1. /\ jobs' = jobs /\ UNCHANGED <<phase, crashes, stops>>
        /\ wpc' = [wpc EXCEPT ![w] = "claim"]
        /\ \A v \in Workers : v # w => wjob'[v] = wjob[v] /\ result'[v] = result[v]
    BY <1>4 DEF Release
  <2>2. \A k \in Ids : RowBound(k)'
    BY <1>0, <2>1, BoundStep
  <2>3. RetryBelow'
    BY <2>1 DEF AttemptsInv, RetryBelow, JobOf
  <2>4. StopCounted'
    BY <2>1 DEF AttemptsInv, StopCounted
  <2> QED BY <2>2, <2>3, <2>4 DEF AttemptsInv
<1>5. CASE \/ ClaimNothing(w) \/ Wake(w) \/ Tick(w) \/ Leave(w) \/ StartRun(w) \/ FinishFails(w)
  <2>1. /\ jobs' = jobs /\ UNCHANGED <<phase, crashes, stops, wjob, result>>
        /\ \A v \in Workers : wpc'[v] = "finish" => wpc[v] = "finish"
    BY <1>5 DEF ClaimNothing, Wake, Tick, Leave, StartRun, FinishFails, StoreFault
  <2>2. \A k \in Ids : RowBound(k)'
    BY <1>0, <2>1, BoundStep
  <2>3. RetryBelow'
    BY <1>0, <2>1, RetryBelowBystander
  <2>4. StopCounted'
    BY <2>1 DEF AttemptsInv, StopCounted
  <2> QED BY <2>2, <2>3, <2>4 DEF AttemptsInv
<1> QED
  BY <1>1, <1>2, <1>3, <1>4, <1>5 DEF WorkerStep

\* The end of the process grants every row one more attempt.
LEMMA AttemptsProcessEnds ==
  ASSUME TypeInv, AttemptsInv, ProcessEnds,
         \/ crashes' = crashes + 1 /\ stops' = stops
         \/ phase = "stopping" /\ UNCHANGED <<crashes, stops>>
  PROVE  AttemptsInv'
<1>1. /\ MaxAttempts \in Nat \ {0} /\ crashes \in Nat /\ stops \in Nat
      /\ \A i \in Ids : jobs[i].attempts \in Nat
  BY QueueAssumption DEF TypeInv, TypeOK, Row
<1>2. jobs' = jobs /\ phase' = "down" /\ \A w \in Workers : wpc'[w] = "off"
  BY DEF ProcessEnds, tableVars
<1>3. \A i \in Ids : RowBound(i)'
  BY <1>1, <1>2 DEF AttemptsInv, RowBound, Allowance
<1>4. RetryBelow' /\ StopCounted'
  BY <1>2 DEF RetryBelow, StopCounted
<1> QED BY <1>3, <1>4 DEF AttemptsInv

LEMMA AttemptsNext ==
  TypeInv /\ TableInv /\ ClaimInv /\ AttemptsInv /\ [Next]_vars => AttemptsInv'
<1> SUFFICES ASSUME TypeInv, TableInv, ClaimInv, AttemptsInv, [Next]_vars PROVE AttemptsInv'
  OBVIOUS
<1>0. TableStep
  BY NextTable
<1> USE DEF TypeInv, TypeOK, tableVars, workerVars, budgetVars
<1>1. ASSUME NEW h \in Handlers, NEW d \in Deliveries, Receive(h, d) PROVE AttemptsInv'
  BY <1>0, <1>1, AttemptsBystander DEF Receive
<1>2. ASSUME NEW h \in Handlers, HandlerStep(h) PROVE AttemptsInv'
  <2>1. UNCHANGED <<phase, crashes, stops, wpc, wjob, result>>
    BY <1>2 DEF HandlerStep, SupersedePending, CancelInFlight, EnqueueJob, EnqueueDuplicate,
                EnqueueFails, EnqueueUnread, Notify, StoreFault
  <2>2. \A i \in Ids : /\ jobs'[i].status = "running" => jobs[i].status = "running"
                       /\ jobs[i].status = "running" => jobs'[i].status # "pending"
    <3>1. CASE SupersedePending(h)
      BY <3>1 DEF SupersedePending, Superseded, Row
    <3>2. CASE EnqueueJob(h) \/ EnqueueUnread(h)
      <4>1. jobs' = [jobs EXCEPT ![lastId + 1] = NewRow(PROf[hdel[h]], hdel[h])]
        BY <3>2 DEF EnqueueJob, EnqueueUnread
      <4>2. lastId + 1 \in Ids => jobs[lastId + 1].status = "absent"
        BY DEF TableInv
      <4> QED BY <4>1, <4>2 DEF NewRow
    <3>3. CASE CancelInFlight(h) \/ EnqueueDuplicate(h) \/ EnqueueFails(h) \/ Notify(h)
      BY <3>3 DEF CancelInFlight, EnqueueDuplicate, EnqueueFails, Notify
    <3> QED BY <1>2, <3>1, <3>2, <3>3 DEF HandlerStep
  <2> QED BY <1>0, <2>1, <2>2, AttemptsBystander
<1>3. ASSUME NEW w \in Workers, WorkerStep(w) PROVE AttemptsInv'
  BY <1>3, AttemptsWorkerStep
<1>4. ASSUME NEW i \in Ids, RerunJob(i) PROVE AttemptsInv'
  <2>1. lastId + 1 \in Ids => jobs[lastId + 1].status = "absent"
    BY DEF TableInv
  <2> QED BY <1>0, <1>4, <2>1, AttemptsBystander DEF RerunJob, NewRow
<1>5. ASSUME NEW i \in Ids, CancelPendingJob(i) \/ RetryDue(i) PROVE AttemptsInv'
  BY <1>0, <1>5, AttemptsBystander DEF CancelPendingJob, Cancelable, RetryDue, SetRow
<1>6. CASE Crash
  BY <1>6, AttemptsProcessEnds DEF Crash
<1>7. CASE Exit
  BY <1>7, AttemptsProcessEnds DEF Exit
<1>8. CASE Terminate
  <2>1. /\ jobs' = jobs /\ phase' = "stopping" /\ stops' = stops + 1 /\ crashes' = crashes
        /\ wpc' = wpc /\ wjob' = wjob /\ result' = result /\ phase \in {"boot", "up"}
    BY <1>8 DEF Terminate
  <2>2. /\ MaxAttempts \in Nat \ {0} /\ crashes \in Nat /\ stops \in Nat
        /\ \A i \in Ids : jobs[i].attempts \in Nat
    BY QueueAssumption DEF Row
  <2>3. \A i \in Ids : RowBound(i)'
    BY <2>1, <2>2 DEF AttemptsInv, RowBound, Allowance
  <2>4. RetryBelow' /\ StopCounted'
    BY <2>1, <2>2 DEF AttemptsInv, RetryBelow, JobOf, StopCounted
  <2> QED BY <2>3, <2>4 DEF AttemptsInv
<1>9. CASE Boot
  BY <1>9 DEF Boot, AttemptsInv, RowBound, Allowance, RetryBelow, JobOf, StopCounted
<1>10. CASE RecoverRunning
  <2>1. /\ phase = "boot" /\ phase' = "up" /\ UNCHANGED <<crashes, stops>>
        /\ \A w \in Workers : wpc'[w] # "finish"
        /\ jobs' = Recovered \/ jobs' = jobs
    BY <1>10 DEF RecoverRunning, StoreFault
  <2>2. \A i \in Ids : /\ jobs'[i].attempts = jobs[i].attempts
                       /\ \/ jobs'[i].status = jobs[i].status
                          \/ jobs[i].status = "running" /\ jobs'[i].status = "pending"
    BY <2>1 DEF Recovered, Row
  <2>3. \A i \in Ids : RowBound(i)'
    BY <2>1, <2>2 DEF AttemptsInv, RowBound, Allowance
  <2>4. RetryBelow' /\ StopCounted'
    BY <2>1 DEF RetryBelow, StopCounted
  <2> QED BY <2>3, <2>4 DEF AttemptsInv
<1>11. CASE UNCHANGED vars
  BY <1>0, <1>11, AttemptsBystander DEF vars
<1> QED
  BY <1>1, <1>2, <1>3, <1>4, <1>5, <1>6, <1>7, <1>8, <1>9, <1>10, <1>11 DEF Next

\* Retries and restarts together never start a job more often than
\* maxAttempts plus the number of times the process ended.
THEOREM AttemptsLimited == Spec => []AttemptsBounded
<1>1. Init => AttemptsInv
  BY QueueAssumption DEF Init, AttemptsInv, RowBound, Allowance, RetryBelow, StopCounted, NoRow
<1>2. AttemptsInv => AttemptsBounded
  BY DEF AttemptsInv, RowBound, Allowance, AttemptsBounded
<1> QED
  BY <1>1, <1>2, AttemptsNext, ClaimAlways, PTL DEF Spec

-----------------------------------------------------------------------------
(* Superseding: its causes.                                                 *)

Serving(h) == hpc[h] # "idle"
BeforeInsert == {"supersede", "cancel", "enqueue"}

\* `sends` counts: once for every request that is being served, and for a row
\* once more if a request for its delivery comes after it.
SendsCount ==
  /\ \A h \in Handlers : Serving(h) => sends[hdel[h]] > 0
  /\ \A h, g \in Handlers :
       h # g /\ Serving(h) /\ Serving(g) /\ hdel[h] = hdel[g] => sends[hdel[h]] > 1
  /\ \A h \in Handlers : hpc[h] \in {"supersede", "cancel"} => hdel[h] \in Pushes
  /\ \A i \in Ids : jobs[i].delivery # None =>
       jobs[i].status # "absent" /\ sends[jobs[i].delivery] > 0
  /\ \A h \in Handlers, i \in Ids :
       hpc[h] \in BeforeInsert /\ jobs[i].delivery = hdel[h] => sends[hdel[h]] > 1

\* What may make a run of row i end as superseded.
MayEnd(i) == PushedAgain(i) \/ ReachedFromOutside(i)

CauseInv ==
  /\ SupersededCauses
  /\ \A w \in Workers : wpc[w] \in Owning => JobOf(w).attempts > 0
  /\ \A w \in Workers :
       \/ wpc[w] = "process" /\ canceled[w]
       \/ wpc[w] = "finish" /\ result[w] = "superseded"
       => MayEnd(wjob[w])
  /\ phase = "stopping" => stops > 0

LEMMA CauseInit == Init => SendsCount /\ CauseInv
  BY DEF Init, SendsCount, Serving, BeforeInsert, CauseInv, SupersededCauses, NoRow, Owning

LEMMA CountsGrow ==
  ASSUME TypeInv, [Next]_vars
  PROVE  /\ \A d \in Deliveries : sends[d] \in Nat /\ sends'[d] \in Nat /\ sends'[d] >= sends[d]
         /\ stops' >= stops
<1>1. sends' = sends \/ \E d \in Deliveries : sends' = [sends EXCEPT ![d] = sends[d] + 1]
  BY DEF Next, HandlerStep, WorkerStep, vars, Receive, SupersedePending, CancelInFlight, EnqueueJob,
     EnqueueDuplicate, EnqueueFails, EnqueueUnread, AnswerError, Notify, ClaimJob, ClaimNothing, ClaimLost,
     Wake, Tick, Leave, StartRun, ProcessReturns, FinishRunningJob, FinishFails, Release, RerunJob,
     CancelPendingJob, RetryDue, Crash, Terminate, Exit, Boot, RecoverRunning, ProcessEnds, senderVars
<1>2. stops' = stops \/ stops' = stops + 1
  BY DEF Next, HandlerStep, WorkerStep, vars, Receive, SupersedePending, CancelInFlight, EnqueueJob,
     EnqueueDuplicate, EnqueueFails, EnqueueUnread, AnswerError, Notify, ClaimJob, ClaimNothing, ClaimLost,
     Wake, Tick, Leave, StartRun, ProcessReturns, FinishRunningJob, FinishFails, Release, RerunJob,
     CancelPendingJob, RetryDue, Crash, Terminate, Exit, Boot, RecoverRunning, budgetVars, StoreFault
<1>3. \A d \in Deliveries : sends[d] \in Nat /\ sends'[d] \in Nat /\ sends'[d] >= sends[d]
  BY <1>1 DEF TypeInv, TypeOK
<1> QED BY <1>2, <1>3 DEF TypeInv, TypeOK

\* A cause, once there, stays one.
LEMMA CausesKept ==
  ASSUME TypeInv, [Next]_vars, \A i \in Ids : RowStep(i), NEW i \in Ids, jobs[i].status # "absent"
  PROVE  /\ PushedAgain(i) => PushedAgain(i)'
         /\ ReachedFromOutside(i) => ReachedFromOutside(i)'
<1>1. jobs'[i].pr = jobs[i].pr /\ jobs'[i].delivery = jobs[i].delivery
  BY DEF RowStep
<1>2. /\ \A d \in Deliveries : sends[d] \in Nat /\ sends'[d] \in Nat /\ sends'[d] >= sends[d]
      /\ stops' >= stops /\ stops \in Nat /\ stops' \in Nat
  BY CountsGrow, TypeNext DEF TypeInv, TypeOK
<1>3. PushedAgain(i) => PushedAgain(i)'
  BY <1>1, <1>2, QueueAssumption DEF PushedAgain
<1>4. ReachedFromOutside(i) => ReachedFromOutside(i)'
  BY <1>1, <1>2, QueueAssumption DEF ReachedFromOutside
<1> QED BY <1>3, <1>4

\* The handlers keep their places or become idle, no row gets a delivery.
LEMMA CountBystander ==
  ASSUME TypeInv, SendsCount, sends' = sends,
         \A i \in Ids : RowStep(i),
         \A i \in Ids : jobs'[i].delivery # None => jobs'[i].delivery = jobs[i].delivery,
         \A h \in Handlers : hpc'[h] = "idle" \/ (hpc'[h] = hpc[h] /\ hdel'[h] = hdel[h])
  PROVE  SendsCount'
BY QueueAssumption DEF SendsCount, Serving, BeforeInsert, RowStep, TypeInv, HandlerServes

LEMMA CountHandlerStep ==
  ASSUME TypeInv, TableInv, SendsCount, NEW h \in Handlers, HandlerStep(h), \A i \in Ids : RowStep(i)
  PROVE  SendsCount'
<1> USE DEF TypeInv, TypeOK, senderVars, handlerVars, tableVars
<1>1. CASE SupersedePending(h)
  <2>1. \A i \in Ids : jobs'[i].delivery = jobs[i].delivery
    BY <1>1 DEF SupersedePending, Superseded, Row
  <2>2. /\ sends' = sends /\ hdel' = hdel
        /\ hpc' = [hpc EXCEPT ![h] = "cancel"] /\ hpc[h] = "supersede"
    BY <1>1 DEF SupersedePending
  <2> QED BY <2>1, <2>2 DEF SendsCount, Serving, BeforeInsert, RowStep
<1>2. CASE CancelInFlight(h)
  BY <1>2 DEF CancelInFlight, SendsCount, Serving, BeforeInsert
<1>3. CASE EnqueueJob(h) \/ EnqueueUnread(h)
  <2>1. /\ jobs' = [jobs EXCEPT ![lastId + 1] = NewRow(PROf[hdel[h]], hdel[h])]
        /\ sends' = sends /\ hpc[h] = "enqueue"
        /\ lastId + 1 \in Ids
    BY <1>3, QueueAssumption DEF EnqueueJob, EnqueueUnread, Ids
  <2>2. \A g \in Handlers : g # h => hpc'[g] = hpc[g] /\ hdel'[g] = hdel[g]
    BY <1>3 DEF EnqueueJob, EnqueueUnread
  <2>3. hpc'[h] = "idle" \/ (hpc'[h] = "notify" /\ hdel'[h] = hdel[h])
    BY <1>3 DEF EnqueueJob, EnqueueUnread
  <2>4. /\ jobs'[lastId + 1].delivery = hdel[h] /\ jobs'[lastId + 1].status # "absent"
        /\ \A i \in Ids \ {lastId + 1} : jobs'[i] = jobs[i]
    BY <2>1 DEF NewRow
  <2> QED BY <2>1, <2>2, <2>3, <2>4 DEF SendsCount, Serving, BeforeInsert
<1>4. CASE EnqueueDuplicate(h) \/ EnqueueFails(h) \/ Notify(h)
  <2>1. UNCHANGED <<jobs, sends, phase>> /\ hpc' = [hpc EXCEPT ![h] = "idle"]
    BY <1>4 DEF EnqueueDuplicate, EnqueueFails, Notify, AnswerError
  <2>2. \A g \in Handlers : g # h => hdel'[g] = hdel[g]
    BY <1>4 DEF EnqueueDuplicate, EnqueueFails, Notify
  <2> QED BY <2>1, <2>2, CountBystander
<1> QED BY <1>1, <1>2, <1>3, <1>4 DEF HandlerStep

LEMMA CountNext == TypeInv /\ TableInv /\ SendsCount /\ [Next]_vars => SendsCount'
<1> SUFFICES ASSUME TypeInv, TableInv, SendsCount, [Next]_vars PROVE SendsCount'
  OBVIOUS
<1>0. \A i \in Ids : RowStep(i)
  BY NextTable, TableStepRows
<1> USE DEF senderVars, handlerVars, tableVars
<1>1. ASSUME NEW h \in Handlers, NEW d \in Deliveries, Receive(h, d) PROVE SendsCount'
  <2>1. sends' = [sends EXCEPT ![d] = sends[d] + 1] /\ \A e \in Deliveries : sends[e] \in Nat
    BY <1>1 DEF Receive, TypeInv, TypeOK
  <2>2. /\ hpc[h] = "idle" /\ hpc' = [hpc EXCEPT ![h] = FirstCall(d)]
        /\ hdel' = [hdel EXCEPT ![h] = d] /\ jobs' = jobs
    BY <1>1 DEF Receive
  <2>3. FirstCall(d) \in {"supersede", "enqueue"} /\ (FirstCall(d) = "supersede" => d \in Pushes)
    BY DEF FirstCall
  <2>4. /\ sends'[d] > 0
        /\ \A e \in Deliveries : sends[e] > 0 => sends'[e] > 0
        /\ \A e \in Deliveries : sends[e] > 1 => sends'[e] > 1
        /\ sends[d] > 0 => sends'[d] > 1
    BY <2>1 DEF TypeInv, TypeOK
  <2>5. \A i \in Ids : jobs[i].delivery \in Deliveries \cup {None}
    BY DEF TypeInv, TypeOK, Row
  <2>6. \A g \in Handlers : Serving(g) => hdel[g] \in Deliveries
    BY DEF TypeInv, HandlerServes, Serving
  <2>7. /\ \A g \in Handlers \ {h} : hpc'[g] = hpc[g] /\ hdel'[g] = hdel[g]
        /\ hpc'[h] = FirstCall(d) /\ hdel'[h] = d
    BY <2>2 DEF TypeInv, TypeOK
  <2>8. d # None
    BY QueueAssumption
  <2> QED
    BY <2>2, <2>3, <2>4, <2>5, <2>6, <2>7, <2>8 DEF SendsCount, Serving, BeforeInsert
<1>2. ASSUME NEW h \in Handlers, HandlerStep(h) PROVE SendsCount'
  BY <1>0, <1>2, CountHandlerStep
<1>3. ASSUME NEW w \in Workers, WorkerStep(w) PROVE SendsCount'
  <2>1. UNCHANGED <<sends, hpc, hdel>>
    BY <1>3 DEF WorkerStep, ClaimJob, ClaimNothing, ClaimLost, Wake, Tick, Leave, StartRun,
                ProcessReturns, FinishRunningJob, FinishFails, Release
  <2>2. \A i \in Ids : jobs'[i].delivery = jobs[i].delivery
    BY <1>3 DEF WorkerStep, ClaimJob, ClaimNothing, ClaimLost, Wake, Tick, Leave, StartRun,
                ProcessReturns, FinishRunningJob, FinishFails, Release, Claimed, SetRow, TypeInv, TypeOK
  <2> QED BY <1>0, <2>1, <2>2, CountBystander
<1>4. ASSUME NEW i \in Ids, RerunJob(i) PROVE SendsCount'
  BY <1>0, <1>4, QueueAssumption, CountBystander DEF RerunJob, NewRow, TypeInv, TypeOK, Ids
<1>5. ASSUME NEW i \in Ids, CancelPendingJob(i) \/ RetryDue(i) PROVE SendsCount'
  BY <1>0, <1>5, CountBystander DEF CancelPendingJob, RetryDue, SetRow, TypeInv, TypeOK
<1>6. CASE Crash \/ Exit
  BY <1>0, <1>6, CountBystander DEF Crash, Exit, ProcessEnds
<1>7. CASE Terminate \/ Boot
  BY <1>0, <1>7, CountBystander DEF Terminate, Boot
<1>8. CASE RecoverRunning
  <2>1. \A i \in Ids : jobs'[i].delivery = jobs[i].delivery
    BY <1>8 DEF RecoverRunning, Recovered, TypeInv, TypeOK, Row
  <2> QED BY <1>0, <1>8, <2>1, CountBystander DEF RecoverRunning
<1>9. CASE UNCHANGED vars
  BY <1>0, <1>9, CountBystander DEF vars
<1> QED
  BY <1>1, <1>2, <1>3, <1>4, <1>5, <1>6, <1>7, <1>8, <1>9 DEF Next

\* No row is newly superseded, no run newly claimed or cancelled.
LEMMA CauseBystander ==
  ASSUME TypeInv, TableInv, ClaimInv, CauseInv, [Next]_vars, \A i \in Ids : RowStep(i),
         \A i \in Ids : jobs'[i].status = "superseded" => jobs[i].status = "superseded",
         phase' = "stopping" => phase = "stopping",
         \A w \in Workers : wpc'[w] \in Owning => wpc[w] \in Owning /\ wjob'[w] = wjob[w],
         \A w \in Workers :
           /\ wpc'[w] = "process" /\ canceled'[w] => wpc[w] = "process" /\ canceled[w]
           /\ wpc'[w] = "finish" /\ result'[w] = "superseded" =>
                wpc[w] = "finish" /\ result[w] = "superseded"
  PROVE  CauseInv'
<1>1. \A i \in Ids : jobs[i].status \notin {"absent", "pending"} => jobs'[i].attempts = jobs[i].attempts
  BY NextTable, AttemptsKept
<1>2. \A i \in Ids : jobs[i].status # "absent" =>
        /\ PushedAgain(i) => PushedAgain(i)'
        /\ ReachedFromOutside(i) => ReachedFromOutside(i)'
  BY CausesKept
<1>3. \A w \in Workers : wpc[w] \in Owning => wjob[w] \in Ids /\ jobs[wjob[w]].status \notin {"absent", "pending"}
  BY DEF ClaimInv, BusyRows, Owning, Busy, TypeInv, WorkerHasRow
<1>4. SupersededCauses'
  BY <1>1, <1>2 DEF CauseInv, SupersededCauses
<1>5. \A w \in Workers : wpc'[w] \in Owning => JobOf(w)'.attempts > 0
  BY <1>1, <1>3 DEF CauseInv, JobOf
<1>6. ASSUME NEW w \in Workers, \/ wpc'[w] = "process" /\ canceled'[w]
                                \/ wpc'[w] = "finish" /\ result'[w] = "superseded"
      PROVE  MayEnd(wjob[w])'
  <2>1. MayEnd(wjob[w]) /\ wjob'[w] = wjob[w] /\ wpc[w] \in Owning
    BY <1>6 DEF CauseInv, Owning
  <2>2. \A i \in Ids : i = wjob[w] => MayEnd(i)'
    BY <1>2, <1>3, <2>1 DEF MayEnd
  <2> QED BY <1>3, <2>1, <2>2 DEF MayEnd, PushedAgain, ReachedFromOutside
<1>7. phase' = "stopping" => stops' > 0
  BY CountsGrow, TypeNext DEF CauseInv, TypeInv, TypeOK
<1> QED BY <1>4, <1>5, <1>6, <1>7 DEF CauseInv

LEMMA CauseHandlerStep ==
  ASSUME TypeInv, TableInv, ClaimInv, LockInv, SendsCount, CauseInv, [Next]_vars,
         \A i \in Ids : RowStep(i), NEW h \in Handlers, HandlerStep(h)
  PROVE  CauseInv'
<1> USE DEF workerVars, tableVars, senderVars
<1> DEFINE d == hdel[h]
<1>0. \A i \in Ids : jobs[i].status # "absent" =>
        /\ PushedAgain(i) => PushedAgain(i)'
        /\ ReachedFromOutside(i) => ReachedFromOutside(i)'
  BY CausesKept
<1>00. \A w \in Workers : wpc[w] \in Owning => wjob[w] \in Ids /\ jobs[wjob[w]].status \notin {"absent", "pending"}
  BY DEF ClaimInv, BusyRows, Owning, Busy, TypeInv, WorkerHasRow
<1>1. CASE SupersedePending(h)
  <2>1. /\ hpc[h] = "supersede" /\ UNCHANGED <<sends, wpc, wjob, result, canceled, phase>>
    BY <1>1 DEF SupersedePending
  <2>2. /\ d \in Pushes /\ sends[d] > 0
        /\ \A i \in Ids : jobs[i].delivery = d => sends[d] > 1
    BY <2>1 DEF SendsCount, Serving, BeforeInsert
  <2>3. \A i \in Ids : jobs[i].status \notin {"absent", "pending"} => jobs'[i].attempts = jobs[i].attempts
    BY NextTable, AttemptsKept
  <2>4. ASSUME NEW i \in Ids, jobs'[i].status = "superseded"
        PROVE  PushedAgain(i)' \/ (jobs'[i].attempts > 0 /\ ReachedFromOutside(i)')
    <3>1. CASE jobs[i].status = "superseded"
      BY <1>0, <2>3, <3>1 DEF CauseInv, SupersededCauses
    <3>2. CASE jobs[i].status # "superseded"
      <4>1. jobs[i].pr = PROf[d] /\ jobs'[i].pr = jobs[i].pr /\ jobs'[i].delivery = jobs[i].delivery
        BY <1>1, <2>4, <3>2 DEF SupersedePending, Superseded, TypeInv, TypeOK, Row
      <4>2. PushedAgain(i)'
        BY <2>1, <2>2, <4>1 DEF PushedAgain
      <4> QED BY <4>2
    <3> QED BY <3>1, <3>2
  <2>5. \A w \in Workers : wpc'[w] \in Owning => JobOf(w)'.attempts > 0
    BY <1>00, <2>1, <2>3 DEF CauseInv, JobOf
  <2>6. ASSUME NEW w \in Workers, \/ wpc'[w] = "process" /\ canceled'[w]
                                  \/ wpc'[w] = "finish" /\ result'[w] = "superseded"
        PROVE  MayEnd(wjob[w])'
    <3>1. MayEnd(wjob[w]) /\ wjob'[w] = wjob[w] /\ wpc[w] \in Owning
      BY <2>1, <2>6 DEF CauseInv, Owning
    <3>2. \A i \in Ids : i = wjob[w] => MayEnd(i)'
      BY <1>0, <1>00, <3>1 DEF MayEnd
    <3> QED BY <1>00, <3>1, <3>2 DEF MayEnd, PushedAgain, ReachedFromOutside
  <2>7. stops' = stops
    BY <1>1 DEF SupersedePending, StoreFault, budgetVars
  <2> QED BY <2>1, <2>4, <2>5, <2>6, <2>7 DEF CauseInv, SupersededCauses
<1>2. CASE CancelInFlight(h)
  <2> DEFINE v == cancels[RepoOf[PROf[d]]]
  <2>1. /\ hpc[h] = "cancel"
        /\ UNCHANGED <<jobs, sends, wpc, wjob, result, phase, stops>>
        /\ canceled' = IF v = None THEN canceled ELSE [canceled EXCEPT ![v] = TRUE]
    BY <1>2 DEF CancelInFlight, budgetVars
  <2>2. /\ d \in Pushes /\ sends[d] > 0 /\ d \in Deliveries /\ PROf[d] \in PRs /\ RepoOf[PROf[d]] \in Repos
        /\ \A i \in Ids : jobs[i].delivery = d => sends[d] > 1
    BY <2>1, QueueAssumption DEF SendsCount, Serving, BeforeInsert
  <2>3. ASSUME NEW w \in Workers, wpc[w] = "process", canceled'[w], ~canceled[w]
        PROVE  MayEnd(wjob[w])'
    <3>1. v = w
      BY <2>1, <2>3 DEF TypeInv, TypeOK
    <3>2. Key(w) = RepoOf[PROf[d]]
      BY <2>2, <3>1, QueueAssumption DEF LockInv, RegisteredHolds, HolderInside
    <3>3. wjob[w] \in Ids /\ RepoOf[jobs[wjob[w]].pr] = RepoOf[PROf[d]]
      BY <1>00, <2>3, <3>2 DEF Key, JobOf, Owning
    <3>4. CASE PROf[d] = jobs[wjob[w]].pr
      BY <2>1, <2>2, <3>3, <3>4 DEF MayEnd, PushedAgain
    <3>5. CASE PROf[d] # jobs[wjob[w]].pr
      BY <2>1, <2>2, <3>3, <3>5 DEF MayEnd, ReachedFromOutside
    <3> QED BY <3>4, <3>5
  <2>4. SupersededCauses'
    BY <2>1 DEF CauseInv, SupersededCauses, PushedAgain, ReachedFromOutside
  <2>5. \A w \in Workers : wpc'[w] \in Owning => JobOf(w)'.attempts > 0
    BY <2>1 DEF CauseInv, JobOf
  <2>6. ASSUME NEW w \in Workers, \/ wpc'[w] = "process" /\ canceled'[w]
                                  \/ wpc'[w] = "finish" /\ result'[w] = "superseded"
        PROVE  MayEnd(wjob[w])'
    <3>1. CASE wpc[w] = "process" /\ canceled'[w] /\ ~canceled[w]
      BY <2>3, <3>1
    <3>2. CASE ~(wpc[w] = "process" /\ canceled'[w] /\ ~canceled[w])
      <4>1. MayEnd(wjob[w])
        BY <2>1, <2>6, <3>2 DEF CauseInv
      <4> QED BY <2>1, <4>1 DEF MayEnd, PushedAgain, ReachedFromOutside
    <3> QED BY <3>1, <3>2
  <2> QED BY <2>1, <2>4, <2>5, <2>6 DEF CauseInv
<1>3. CASE EnqueueJob(h) \/ EnqueueUnread(h)
  <2>1. \A i \in Ids : jobs'[i].status = "superseded" => jobs[i].status = "superseded"
    <3>1. jobs' = [jobs EXCEPT ![lastId + 1] = NewRow(PROf[hdel[h]], hdel[h])]
      BY <1>3 DEF EnqueueJob, EnqueueUnread
    <3> QED BY <3>1 DEF NewRow, TypeInv, TypeOK
  <2>2. UNCHANGED <<wpc, wjob, result, canceled, phase>>
    BY <1>3 DEF EnqueueJob, EnqueueUnread
  <2> QED BY <2>1, <2>2, CauseBystander
<1>4. CASE EnqueueDuplicate(h) \/ EnqueueFails(h) \/ Notify(h)
  <2>1. UNCHANGED <<jobs, wpc, wjob, result, canceled, phase>>
    BY <1>4 DEF EnqueueDuplicate, EnqueueFails, Notify
  <2> QED BY <2>1, CauseBystander
<1> QED BY <1>1, <1>2, <1>3, <1>4 DEF HandlerStep

LEMMA CauseWorkerStep ==
  ASSUME TypeInv, TableInv, ClaimInv, CauseInv, [Next]_vars, \A i \in Ids : RowStep(i),
         NEW w \in Workers, WorkerStep(w)
  PROVE  CauseInv'
<1> USE DEF GoTo, tableVars, budgetVars, senderVars
<1>0. \A i \in Ids : jobs[i].status # "absent" =>
        /\ PushedAgain(i) => PushedAgain(i)'
        /\ ReachedFromOutside(i) => ReachedFromOutside(i)'
  BY CausesKept
<1>00. \A v \in Workers : wpc[v] \in Owning => wjob[v] \in Ids /\ jobs[wjob[v]].status \notin {"absent", "pending"}
  BY DEF ClaimInv, BusyRows, Owning, Busy, TypeInv, WorkerHasRow
<1>000. \A i \in Ids : jobs[i].status \notin {"absent", "pending"} => jobs'[i].attempts = jobs[i].attempts
  BY NextTable, AttemptsKept
<1>1. CASE ClaimJob(w)
  <2>1. PICK i \in Ids : jobs' = Claimed(i) /\ wjob' = [wjob EXCEPT ![w] = i]
    BY <1>1 DEF ClaimJob
  <2>2. /\ wpc[w] = "claim" /\ wpc' = [wpc EXCEPT ![w] = "lock"]
        /\ UNCHANGED <<result, canceled, phase, stops>>
    BY <1>1 DEF ClaimJob
  <2>3. jobs'[i].attempts > 0 /\ jobs'[i].status = "running"
    BY <2>1 DEF Claimed, SetRow, TypeInv, TypeOK, Row
  <2>4. \A k \in Ids : jobs'[k].status = "superseded" => jobs[k].status = "superseded"
    BY <2>1 DEF Claimed, SetRow, TypeInv, TypeOK
  <2>5. SupersededCauses'
    BY <1>0, <1>000, <2>4 DEF CauseInv, SupersededCauses
  <2>6. \A v \in Workers \ {w} : wpc'[v] = wpc[v] /\ wjob'[v] = wjob[v]
    BY <2>1, <2>2 DEF TypeInv, TypeOK
  <2>7. wjob'[w] = i /\ wpc'[w] = "lock"
    BY <2>1, <2>2 DEF TypeInv, TypeOK
  <2>8. \A v \in Workers : wpc'[v] \in Owning => JobOf(v)'.attempts > 0
    BY <1>00, <1>000, <2>3, <2>6, <2>7 DEF CauseInv, JobOf
  <2>9. ASSUME NEW v \in Workers, \/ wpc'[v] = "process" /\ canceled'[v]
                                  \/ wpc'[v] = "finish" /\ result'[v] = "superseded"
        PROVE  MayEnd(wjob[v])'
    <3>1. MayEnd(wjob[v]) /\ wjob'[v] = wjob[v] /\ wpc[v] \in Owning
      BY <2>2, <2>6, <2>7, <2>9 DEF CauseInv, Owning
    <3>2. \A k \in Ids : k = wjob[v] => MayEnd(k)'
      BY <1>0, <1>00, <3>1 DEF MayEnd
    <3> QED BY <1>00, <3>1, <3>2 DEF MayEnd, PushedAgain, ReachedFromOutside
  <2> QED BY <2>2, <2>5, <2>8, <2>9 DEF CauseInv
<1>2. CASE ClaimLost(w)
  <2>1. \A i \in Ids : jobs'[i].status = "superseded" => jobs[i].status = "superseded"
    BY <1>2 DEF ClaimLost, Claimed, SetRow, TypeInv, TypeOK
  <2>2. wpc' = [wpc EXCEPT ![w] = "idle"] /\ UNCHANGED <<wjob, result, canceled, phase>>
    BY <1>2 DEF ClaimLost
  <2> QED BY <2>1, <2>2, CauseBystander DEF Owning, TypeInv, TypeOK
<1>3. CASE ClaimNothing(w) \/ Wake(w) \/ Tick(w) \/ Leave(w) \/ FinishFails(w) \/ Release(w)
  <2>1. /\ UNCHANGED <<jobs, phase>>
        /\ \A v \in Workers \ {w} : wjob'[v] = wjob[v] /\ result'[v] = result[v] /\ canceled'[v] = canceled[v]
    BY <1>3 DEF ClaimNothing, Wake, Tick, Leave, FinishFails, Release, TypeInv, TypeOK
  <2>2. /\ wpc'[w] \in {"idle", "claim", "off", "release"}
        /\ \A v \in Workers \ {w} : wpc'[v] = wpc[v]
    BY <1>3 DEF ClaimNothing, Wake, Tick, Leave, FinishFails, Release, TypeInv, TypeOK
  <2> QED BY <2>1, <2>2, CauseBystander DEF Owning
<1>4. CASE StartRun(w)
  <2>1. /\ wpc[w] = "lock" /\ wpc' = [wpc EXCEPT ![w] = "process"]
        /\ UNCHANGED <<jobs, sends, wjob, result, phase, stops>>
        /\ canceled' = [canceled EXCEPT ![w] = (phase = "stopping")]
    BY <1>4 DEF StartRun, ContextDone
  <2>2. SupersededCauses'
    BY <2>1 DEF CauseInv, SupersededCauses, PushedAgain, ReachedFromOutside
  <2>3. \A v \in Workers : wpc'[v] \in Owning => JobOf(v)'.attempts > 0
    BY <2>1 DEF CauseInv, JobOf, Owning, TypeInv, TypeOK
  <2>4. ASSUME NEW v \in Workers, \/ wpc'[v] = "process" /\ canceled'[v]
                                  \/ wpc'[v] = "finish" /\ result'[v] = "superseded"
        PROVE  MayEnd(wjob[v])'
    <3>1. CASE v = w
      <4>1. stops > 0
        BY <2>1, <2>4, <3>1 DEF CauseInv, TypeInv, TypeOK
      <4> QED BY <2>1, <4>1 DEF MayEnd, ReachedFromOutside
    <3>2. CASE v # w
      <4>1. MayEnd(wjob[v])
        BY <2>1, <2>4, <3>2 DEF CauseInv, TypeInv, TypeOK
      <4> QED BY <2>1, <4>1 DEF MayEnd, PushedAgain, ReachedFromOutside
    <3> QED BY <3>1, <3>2
  <2> QED BY <2>1, <2>2, <2>3, <2>4 DEF CauseInv
<1>5. CASE ProcessReturns(w)
  <2>1. /\ wpc[w] = "process" /\ wpc' = [wpc EXCEPT ![w] = "finish"]
        /\ UNCHANGED <<jobs, sends, wjob, canceled, phase, stops>>
    BY <1>5 DEF ProcessReturns
  <2>6. \A v \in Workers \ {w} : result'[v] = result[v]
    BY <1>5 DEF ProcessReturns, TypeInv, TypeOK
  <2>2. result'[w] = "superseded" => canceled[w]
    BY <1>5 DEF ProcessReturns, Outcome, TypeInv, TypeOK
  <2>3. SupersededCauses'
    BY <2>1 DEF CauseInv, SupersededCauses, PushedAgain, ReachedFromOutside
  <2>4. \A v \in Workers : wpc'[v] \in Owning => JobOf(v)'.attempts > 0
    BY <2>1 DEF CauseInv, JobOf, Owning, TypeInv, TypeOK
  <2>5. ASSUME NEW v \in Workers, \/ wpc'[v] = "process" /\ canceled'[v]
                                  \/ wpc'[v] = "finish" /\ result'[v] = "superseded"
        PROVE  MayEnd(wjob[v])'
    <3>1. CASE v = w
      <4>1. canceled[w]
        BY <2>1, <2>2, <2>5, <3>1 DEF TypeInv, TypeOK
      <4>2. MayEnd(wjob[v])
        BY <2>1, <3>1, <4>1 DEF CauseInv
      <4> QED BY <2>1, <4>2 DEF MayEnd, PushedAgain, ReachedFromOutside
    <3>2. CASE v # w
      <4>1. wpc'[v] = wpc[v] /\ result'[v] = result[v] /\ canceled'[v] = canceled[v]
        BY <2>1, <2>6, <3>2 DEF TypeInv, TypeOK
      <4>2. MayEnd(wjob[v])
        BY <2>5, <4>1 DEF CauseInv
      <4> QED BY <2>1, <4>2 DEF MayEnd, PushedAgain, ReachedFromOutside
    <3> QED BY <3>1, <3>2
  <2> QED BY <2>1, <2>3, <2>4, <2>5 DEF CauseInv
<1>6. CASE FinishRunningJob(w)
  <2>1. /\ wpc[w] = "finish" /\ wpc' = [wpc EXCEPT ![w] = "release"]
        /\ UNCHANGED <<wjob, result, canceled, phase, stops>>
    BY <1>6 DEF FinishRunningJob
  <2>2. wjob[w] \in Ids /\ jobs[wjob[w]].status \notin {"absent", "pending"}
    BY <1>00, <2>1 DEF Owning
  <2>3. \A i \in Ids : jobs'[i].status = "superseded" =>
          jobs[i].status = "superseded" \/ (i = wjob[w] /\ result[w] = "superseded")
    BY <1>6, <2>2 DEF FinishRunningJob, SetRow, TypeInv, TypeOK
  <2>4. jobs[wjob[w]].attempts > 0
    BY <2>1 DEF CauseInv, Owning, JobOf
  <2>5. result[w] = "superseded" => MayEnd(wjob[w])
    BY <2>1 DEF CauseInv
  <2>6. ASSUME NEW i \in Ids, jobs'[i].status = "superseded"
        PROVE  PushedAgain(i)' \/ (jobs'[i].attempts > 0 /\ ReachedFromOutside(i)')
    <3>1. CASE jobs[i].status = "superseded"
      BY <1>0, <1>000, <3>1 DEF CauseInv, SupersededCauses
    <3>2. CASE i = wjob[w] /\ result[w] = "superseded"
      BY <1>0, <1>000, <2>2, <2>4, <2>5, <3>2 DEF MayEnd
    <3> QED BY <2>3, <2>6, <3>1, <3>2
  <2>7. \A v \in Workers : wpc'[v] \in Owning => wpc[v] \in Owning
    BY <2>1 DEF Owning, TypeInv, TypeOK
  <2>8. \A v \in Workers : wpc'[v] \in Owning => JobOf(v)'.attempts > 0
    BY <1>00, <1>000, <2>1, <2>7 DEF CauseInv, JobOf
  <2>9. ASSUME NEW v \in Workers, \/ wpc'[v] = "process" /\ canceled'[v]
                                  \/ wpc'[v] = "finish" /\ result'[v] = "superseded"
        PROVE  MayEnd(wjob[v])'
    <3>1. MayEnd(wjob[v]) /\ wjob'[v] = wjob[v] /\ wpc[v] \in Owning
      BY <2>1, <2>9 DEF CauseInv, Owning, TypeInv, TypeOK
    <3>2. \A k \in Ids : k = wjob[v] => MayEnd(k)'
      BY <1>0, <1>00, <3>1 DEF MayEnd
    <3> QED BY <1>00, <3>1, <3>2 DEF MayEnd, PushedAgain, ReachedFromOutside
  <2> QED BY <2>1, <2>6, <2>8, <2>9 DEF CauseInv, SupersededCauses
<1> QED BY <1>1, <1>2, <1>3, <1>4, <1>5, <1>6 DEF WorkerStep

LEMMA CauseNext ==
  TypeInv /\ TableInv /\ ClaimInv /\ LockInv /\ SendsCount /\ CauseInv /\ [Next]_vars => CauseInv'
<1> SUFFICES ASSUME TypeInv, TableInv, ClaimInv, LockInv, SendsCount, CauseInv, [Next]_vars
             PROVE  CauseInv'
  OBVIOUS
<1>0. \A i \in Ids : RowStep(i)
  BY NextTable, TableStepRows
<1> USE DEF workerVars, tableVars
<1>1. ASSUME NEW h \in Handlers, NEW d \in Deliveries, Receive(h, d) PROVE CauseInv'
  BY <1>0, <1>1, CauseBystander DEF Receive
<1>2. ASSUME NEW h \in Handlers, HandlerStep(h) PROVE CauseInv'
  BY <1>0, <1>2, CauseHandlerStep
<1>3. ASSUME NEW w \in Workers, WorkerStep(w) PROVE CauseInv'
  BY <1>0, <1>3, CauseWorkerStep
<1>4. ASSUME NEW i \in Ids, RerunJob(i) \/ CancelPendingJob(i) \/ RetryDue(i) PROVE CauseInv'
  <2>1. \A k \in Ids : jobs'[k].status = "superseded" => jobs[k].status = "superseded"
    BY <1>4 DEF RerunJob, CancelPendingJob, RetryDue, NewRow, SetRow, TypeInv, TypeOK
  <2>2. UNCHANGED <<wpc, wjob, result, canceled, phase>>
    BY <1>4 DEF RerunJob, CancelPendingJob, RetryDue
  <2> QED BY <1>0, <2>1, <2>2, CauseBystander
<1>5. CASE Crash \/ Exit
  BY <1>0, <1>5, CauseBystander DEF Crash, Exit, ProcessEnds, Owning
<1>6. CASE Terminate
  <2>1. /\ UNCHANGED <<jobs, sends, wpc, wjob>> /\ stops' > 0
    BY <1>6 DEF Terminate, senderVars, TypeInv, TypeOK
  <2>2. \A w \in Workers : MayEnd(wjob[w])'
    BY <2>1 DEF MayEnd, ReachedFromOutside
  <2>3. SupersededCauses'
    BY <2>1 DEF CauseInv, SupersededCauses, PushedAgain, ReachedFromOutside
  <2> QED BY <2>1, <2>2, <2>3 DEF CauseInv, JobOf
<1>7. CASE Boot
  BY <1>0, <1>7, CauseBystander DEF Boot
<1>8. CASE RecoverRunning
  <2>1. \A i \in Ids : jobs'[i].status = "superseded" => jobs[i].status = "superseded"
    BY <1>8 DEF RecoverRunning, Recovered, TypeInv, TypeOK, Row
  <2>2. /\ \A w \in Workers : wpc'[w] = "claim"
        /\ phase' = "up"
    BY <1>8 DEF RecoverRunning
  <2> QED BY <1>0, <2>1, <2>2, CauseBystander DEF Owning
<1>9. CASE UNCHANGED vars
  BY <1>0, <1>9, CauseBystander DEF vars
<1> QED
  BY <1>1, <1>2, <1>3, <1>4, <1>5, <1>6, <1>7, <1>8, <1>9 DEF Next

\* A job is superseded by a push to its pull request, also by its own delivered
\* again, or, once it was started, by SIGTERM or a push to a neighbour: there is
\* no other way, however statements fail, jobs are rerun or retried and the
\* process crashes.
THEOREM SupersededHasCause == Spec => []SupersededCauses
<1>1. CauseInv => SupersededCauses
  BY DEF CauseInv
<1> QED
  BY <1>1, CauseInit, CountNext, CauseNext, ClaimAlways, LockAlways, PTL DEF Spec

-----------------------------------------------------------------------------
(* Superseding: what follows a superseded job.                              *)

\* No delivery is sent twice, the process is not asked to stop, and no two
\* pull requests share a repository. Each of the three is needed: a redelivered
\* push supersedes its own job, a stopping pool records what it interrupts as
\* superseded, and CancelInFlight reaches the run of any pull request of the
\* repository.
Debounced ==
  /\ \A d \in Deliveries : MaxSends[d] <= 1
  /\ MaxStops = 0
  /\ \A p, q \in PRs : RepoOf[p] = RepoOf[q] => p = q

\* Every delivery has one handler, which inserts its row at the end.
DeliveryOnce ==
  /\ phase # "stopping"
  /\ \A h \in Handlers : Serving(h) => sends[hdel[h]] > 0
  /\ \A h, g \in Handlers : h # g /\ Serving(h) /\ Serving(g) => hdel[h] # hdel[g]
  /\ \A h \in Handlers : hpc[h] \in {"supersede", "cancel"} => hdel[h] \in Pushes
  /\ \A i \in Ids : jobs[i].delivery # None =>
       jobs[i].status # "absent" /\ sends[jobs[i].delivery] > 0
  /\ \A h \in Handlers, i \in Ids :
       hpc[h] \in {"supersede", "cancel", "enqueue"} => jobs[i].delivery # hdel[h]

LEMMA OnceInit == Init => DeliveryOnce
  BY DEF Init, DeliveryOnce, Serving, NoRow

\* The handlers keep their places or become idle, no row gets a delivery.
LEMMA OnceBystander ==
  ASSUME TypeInv, DeliveryOnce, phase' # "stopping", sends' = sends,
         \A i \in Ids : RowStep(i),
         \A i \in Ids : jobs'[i].delivery # None => jobs'[i].delivery = jobs[i].delivery,
         \A h \in Handlers : hpc'[h] = "idle" \/ (hpc'[h] = hpc[h] /\ hdel'[h] = hdel[h])
  PROVE  DeliveryOnce'
BY DEF DeliveryOnce, Serving, RowStep

LEMMA OnceHandlerStep ==
  ASSUME TypeInv, TableInv, DeliveryOnce, NEW h \in Handlers, HandlerStep(h), \A i \in Ids : RowStep(i)
  PROVE  DeliveryOnce'
<1> USE DEF TypeInv, TypeOK, senderVars, handlerVars, tableVars
<1>1. CASE SupersedePending(h)
  <2>1. \A i \in Ids : jobs'[i].delivery = jobs[i].delivery
    BY <1>1 DEF SupersedePending, Superseded, Row
  <2>2. /\ sends' = sends /\ phase' = phase /\ hdel' = hdel
        /\ hpc' = [hpc EXCEPT ![h] = "cancel"] /\ hpc[h] = "supersede"
    BY <1>1 DEF SupersedePending
  <2> QED BY <2>1, <2>2 DEF DeliveryOnce, Serving, RowStep
<1>2. CASE CancelInFlight(h)
  BY <1>2 DEF CancelInFlight, DeliveryOnce, Serving
<1>3. CASE EnqueueJob(h) \/ EnqueueUnread(h)
  <2>1. /\ jobs' = [jobs EXCEPT ![lastId + 1] = NewRow(PROf[hdel[h]], hdel[h])]
        /\ sends' = sends /\ phase' = phase /\ hpc[h] = "enqueue"
        /\ lastId + 1 \in Ids
    BY <1>3, QueueAssumption DEF EnqueueJob, EnqueueUnread, Ids
  <2>2. \A g \in Handlers : g # h => hpc'[g] = hpc[g] /\ hdel'[g] = hdel[g]
    BY <1>3 DEF EnqueueJob, EnqueueUnread
  <2>3. hpc'[h] = "idle" \/ (hpc'[h] = "notify" /\ hdel'[h] = hdel[h])
    BY <1>3 DEF EnqueueJob, EnqueueUnread
  <2>4. /\ jobs'[lastId + 1].delivery = hdel[h] /\ jobs'[lastId + 1].status # "absent"
        /\ \A i \in Ids \ {lastId + 1} : jobs'[i] = jobs[i]
    BY <2>1 DEF NewRow
  <2> QED BY <2>1, <2>2, <2>3, <2>4 DEF DeliveryOnce, Serving
<1>4. CASE EnqueueDuplicate(h) \/ EnqueueFails(h) \/ Notify(h)
  <2>1. UNCHANGED <<jobs, sends, phase>> /\ hpc' = [hpc EXCEPT ![h] = "idle"]
    BY <1>4 DEF EnqueueDuplicate, EnqueueFails, Notify, AnswerError
  <2>2. \A g \in Handlers : g # h => hdel'[g] = hdel[g]
    BY <1>4 DEF EnqueueDuplicate, EnqueueFails, Notify
  <2> QED BY <2>1, <2>2, OnceBystander DEF DeliveryOnce
<1> QED BY <1>1, <1>2, <1>3, <1>4 DEF HandlerStep

LEMMA OnceNext ==
  ASSUME Debounced, TypeInv, TableInv, DeliveryOnce, [Next]_vars
  PROVE  DeliveryOnce'
<1>0. \A i \in Ids : RowStep(i)
  BY NextTable, TableStepRows
<1> USE DEF senderVars, handlerVars, tableVars
<1>1. ASSUME NEW h \in Handlers, NEW d \in Deliveries, Receive(h, d) PROVE DeliveryOnce'
  <2>1. sends[d] = 0 /\ sends' = [sends EXCEPT ![d] = 1]
    <3>1. sends[d] \in Nat /\ sends[d] < MaxSends[d] /\ sends' = [sends EXCEPT ![d] = sends[d] + 1]
      BY <1>1 DEF Receive, TypeInv, TypeOK
    <3>2. sends[d] = 0
      BY <3>1, QueueAssumption DEF Debounced
    <3> QED BY <3>1, <3>2
  <2>2. /\ hpc[h] = "idle" /\ hpc' = [hpc EXCEPT ![h] = FirstCall(d)]
        /\ hdel' = [hdel EXCEPT ![h] = d] /\ jobs' = jobs /\ phase' = phase
    BY <1>1 DEF Receive
  <2>3. FirstCall(d) \in {"supersede", "enqueue"} /\ (FirstCall(d) = "supersede" => d \in Pushes)
    BY DEF FirstCall
  <2>4. \A g \in Handlers : Serving(g) => hdel[g] # d
    BY <2>1 DEF DeliveryOnce
  <2>5. \A i \in Ids : jobs[i].delivery # d
    BY <2>1, QueueAssumption DEF DeliveryOnce
  <2> QED
    BY <2>1, <2>2, <2>3, <2>4, <2>5 DEF DeliveryOnce, Serving, TypeInv, TypeOK, HandlerServes, Row
<1>2. ASSUME NEW h \in Handlers, HandlerStep(h) PROVE DeliveryOnce'
  BY <1>0, <1>2, OnceHandlerStep
<1>3. ASSUME NEW w \in Workers, WorkerStep(w) PROVE DeliveryOnce'
  <2>1. UNCHANGED <<sends, phase, hpc, hdel>>
    BY <1>3 DEF WorkerStep, ClaimJob, ClaimNothing, ClaimLost, Wake, Tick, Leave, StartRun,
                ProcessReturns, FinishRunningJob, FinishFails, Release
  <2>2. \A i \in Ids : jobs'[i].delivery = jobs[i].delivery
    BY <1>3 DEF WorkerStep, ClaimJob, ClaimNothing, ClaimLost, Wake, Tick, Leave, StartRun,
                ProcessReturns, FinishRunningJob, FinishFails, Release, Claimed, SetRow, TypeInv, TypeOK
  <2> QED BY <1>0, <2>1, <2>2, OnceBystander DEF DeliveryOnce
<1>4. ASSUME NEW i \in Ids, RerunJob(i) PROVE DeliveryOnce'
  BY <1>0, <1>4, QueueAssumption, OnceBystander DEF RerunJob, NewRow, TypeInv, TypeOK, Ids, DeliveryOnce
<1>5. ASSUME NEW i \in Ids, CancelPendingJob(i) \/ RetryDue(i) PROVE DeliveryOnce'
  BY <1>0, <1>5, OnceBystander DEF CancelPendingJob, RetryDue, SetRow, TypeInv, TypeOK, DeliveryOnce
<1>6. CASE Crash \/ Exit
  BY <1>0, <1>6, OnceBystander DEF Crash, Exit, ProcessEnds
<1>7. ~Terminate
  BY DEF Terminate, Debounced, TypeInv, TypeOK
<1>8. CASE Boot
  BY <1>0, <1>8, OnceBystander DEF Boot
<1>9. CASE RecoverRunning
  <2>1. \A i \in Ids : jobs'[i].delivery = jobs[i].delivery
    BY <1>9 DEF RecoverRunning, Recovered, TypeInv, TypeOK, Row
  <2> QED BY <1>0, <1>9, <2>1, OnceBystander DEF RecoverRunning
<1>10. CASE UNCHANGED vars
  BY <1>0, <1>10, OnceBystander DEF vars, DeliveryOnce
<1> QED
  BY <1>1, <1>2, <1>3, <1>4, <1>5, <1>6, <1>7, <1>8, <1>9, <1>10 DEF Next

\* Why row i may be superseded, and a run of it cancelled: another push of its
\* pull request was sent, and its job follows, or will, or its sender knows.
Caused(i) ==
  \E d \in Pushes : d # jobs[i].delivery /\ PROf[d] = jobs[i].pr /\ sends[d] > 0
Followed(i) ==
  \/ \E k \in Ids : k > i /\ jobs[k].pr = jobs[i].pr /\ jobs[k].delivery \in Pushes
  \/ PushUnderWay(jobs[i].pr)
Excused(i) == Caused(i) /\ Followed(i)

DebounceInv ==
  /\ \A i \in Ids : jobs[i].status = "superseded" => Excused(i)
  /\ \A w \in Workers, i \in Ids :
       wjob[w] = i /\ \/ wpc[w] = "process" /\ canceled[w]
                      \/ wpc[w] = "finish" /\ result[w] = "superseded"
       => Excused(i)

LEMMA DebounceInit == Init => DebounceInv
  BY DEF Init, DebounceInv, NoRow

\* A push under way gets its row, after every row there is, or its sender
\* learns that it failed.
LEMMA WayKept ==
  ASSUME TypeInv, TableInv, DeliveryOnce, [Next]_vars, \A i \in Ids : RowStep(i),
         NEW i \in Ids, jobs[i].status # "absent", PushUnderWay(jobs[i].pr)
  PROVE  Followed(i)'
<1> DEFINE p == jobs[i].pr
<1>0. jobs'[i].pr = p
  BY DEF RowStep
<1> USE DEF senderVars, handlerVars, TypeInv, TypeOK
<1>1. nacked \subseteq nacked'
  BY DEF Next, HandlerStep, WorkerStep, vars, Receive, SupersedePending, CancelInFlight, EnqueueJob,
     EnqueueDuplicate, EnqueueFails, EnqueueUnread, AnswerError, Notify, ClaimJob, ClaimNothing, ClaimLost,
     Wake, Tick, Leave, StartRun, ProcessReturns, FinishRunningJob, FinishFails, Release, RerunJob,
     CancelPendingJob, RetryDue, Crash, Terminate, Exit, Boot, RecoverRunning, ProcessEnds
<1>2. CASE \E d \in Pushes \cap nacked : PROf[d] = p
  BY <1>0, <1>1, <1>2 DEF Followed, PushUnderWay
<1>3. ASSUME NEW h \in Handlers, hpc[h] \in {"cancel", "enqueue"}, hdel[h] \in Pushes, PROf[hdel[h]] = p
      PROVE  Followed(i)'
  <2>1. ASSUME hpc'[h] \in {"cancel", "enqueue"}, hdel'[h] = hdel[h] PROVE Followed(i)'
    BY <1>0, <1>3, <2>1 DEF Followed, PushUnderWay
  <2>2. ASSUME hdel[h] \in nacked' PROVE Followed(i)'
    BY <1>0, <1>3, <2>2 DEF Followed, PushUnderWay
  <2>3. ASSUME HandlerStep(h) PROVE Followed(i)'
    <3>1. CASE SupersedePending(h) \/ Notify(h)
      BY <1>3, <3>1 DEF SupersedePending, Notify
    <3>2. CASE CancelInFlight(h)
      BY <1>3, <2>1, <3>2 DEF CancelInFlight
    <3>3. CASE EnqueueFails(h) \/ EnqueueUnread(h)
      BY <2>2, <3>3 DEF EnqueueFails, EnqueueUnread, AnswerError
    <3>4. CASE EnqueueDuplicate(h)
      BY <3>4 DEF EnqueueDuplicate, SameDelivery, DeliveryOnce, Rows
    <3>5. CASE EnqueueJob(h)
      <4>1. /\ lastId + 1 \in Ids /\ i <= lastId
            /\ jobs' = [jobs EXCEPT ![lastId + 1] = NewRow(PROf[hdel[h]], hdel[h])]
        BY <3>5, QueueAssumption DEF EnqueueJob, Ids, TableInv
      <4>2. jobs'[lastId + 1].pr = p /\ jobs'[lastId + 1].delivery \in Pushes /\ lastId + 1 > i
        BY <1>3, <4>1 DEF NewRow, Ids
      <4> QED BY <1>0, <4>1, <4>2 DEF Followed
    <3> QED BY <2>3, <3>1, <3>2, <3>3, <3>4, <3>5 DEF HandlerStep
  <2>4. CASE UNCHANGED <<hpc, hdel>>
    BY <1>3, <2>1, <2>4
  <2>5. ASSUME NEW g \in Handlers \ {h}, HandlerStep(g) PROVE Followed(i)'
    <3>1. hpc'[h] = hpc[h] /\ hdel'[h] = hdel[h]
      BY <2>5 DEF HandlerStep, SupersedePending, CancelInFlight, EnqueueJob, EnqueueDuplicate,
         EnqueueFails, EnqueueUnread, Notify
    <3> QED BY <1>3, <2>1, <3>1
  <2>6. ASSUME NEW g \in Handlers, NEW d \in Deliveries, Receive(g, d) PROVE Followed(i)'
    <3>1. hpc'[h] = hpc[h] /\ hdel'[h] = hdel[h]
      BY <1>3, <2>6 DEF Receive
    <3> QED BY <1>3, <2>1, <3>1
  <2>7. CASE Crash \/ Exit
    <3>1. hdel[h] \in nacked'
      BY <1>3, <2>7 DEF Crash, Exit, ProcessEnds
    <3> QED BY <2>2, <3>1
  <2> QED
    BY <2>3, <2>4, <2>5, <2>6, <2>7 DEF Next, WorkerStep, vars, ClaimJob, ClaimNothing, ClaimLost,
     Wake, Tick, Leave, StartRun, ProcessReturns, FinishRunningJob, FinishFails, Release, RerunJob,
     CancelPendingJob, RetryDue, Terminate, Boot, RecoverRunning
<1> QED
  BY <1>2, <1>3 DEF PushUnderWay

LEMMA ExcusedKept ==
  ASSUME TypeInv, TableInv, DeliveryOnce, [Next]_vars, \A i \in Ids : RowStep(i),
         NEW i \in Ids, jobs[i].status # "absent", Excused(i)
  PROVE  Excused(i)'
<1>1. \A d \in Deliveries : sends[d] > 0 => sends'[d] > 0
  <2>1. sends' = sends \/ \E d \in Deliveries : sends' = [sends EXCEPT ![d] = sends[d] + 1]
    BY DEF Next, HandlerStep, WorkerStep, vars, Receive, SupersedePending, CancelInFlight, EnqueueJob,
     EnqueueDuplicate, EnqueueFails, EnqueueUnread, AnswerError, Notify, ClaimJob, ClaimNothing, ClaimLost,
     Wake, Tick, Leave, StartRun, ProcessReturns, FinishRunningJob, FinishFails, Release, RerunJob,
     CancelPendingJob, RetryDue, Crash, Terminate, Exit, Boot, RecoverRunning, ProcessEnds, senderVars
  <2> QED BY <2>1 DEF TypeInv, TypeOK
<1>2. Caused(i)'
  BY <1>1, QueueAssumption DEF Excused, Caused, RowStep
<1>3. Followed(i)'
  <2>1. ASSUME NEW k \in Ids, k > i, jobs[k].pr = jobs[i].pr, jobs[k].delivery \in Pushes
        PROVE  Followed(i)'
    <3>1. jobs[k].status # "absent"
      BY <2>1, QueueAssumption DEF DeliveryOnce
    <3> QED BY <2>1, <3>1 DEF RowStep, Followed
  <2> QED BY <2>1, WayKept DEF Excused, Followed
<1> QED BY <1>2, <1>3 DEF Excused

\* No row is newly superseded and no run newly cancelled.
LEMMA DebounceBystander ==
  ASSUME TypeInv, ClaimInv, DebounceInv,
         \A i \in Ids : jobs[i].status # "absent" /\ Excused(i) => Excused(i)',
         \A i \in Ids : jobs'[i].status = "superseded" => jobs[i].status = "superseded",
         \A w \in Workers :
           /\ wpc'[w] = "process" /\ canceled'[w] =>
                wpc[w] = "process" /\ canceled[w] /\ wjob'[w] = wjob[w]
           /\ wpc'[w] = "finish" /\ result'[w] = "superseded" =>
                wpc[w] = "finish" /\ result[w] = "superseded" /\ wjob'[w] = wjob[w]
  PROVE  DebounceInv'
<1>1. \A w \in Workers : wpc[w] \in {"process", "finish"} => jobs[wjob[w]].status # "absent"
  BY DEF ClaimInv, BusyRows, Busy
<1> QED BY <1>1 DEF DebounceInv

LEMMA DebounceHandlerStep ==
  ASSUME Debounced, TypeInv, TableInv, ClaimInv, LockInv, DeliveryOnce, DebounceInv,
         NEW h \in Handlers, HandlerStep(h),
         \A i \in Ids : RowStep(i),
         \A i \in Ids : jobs[i].status # "absent" /\ Excused(i) => Excused(i)'
  PROVE  DebounceInv'
<1> USE DEF TypeInv, TypeOK, workerVars
<1>1. CASE SupersedePending(h)
  <2>1. /\ hpc[h] = "supersede" /\ hpc' = [hpc EXCEPT ![h] = "cancel"] /\ hdel' = hdel
        /\ sends' = sends
        /\ UNCHANGED <<wpc, wjob, result, canceled>>
    BY <1>1 DEF SupersedePending, senderVars
  <2>2. /\ hdel[h] \in Pushes /\ sends[hdel[h]] > 0
        /\ \A i \in Ids : jobs[i].delivery # hdel[h]
    BY <2>1 DEF DeliveryOnce, Serving
  <2>3. ASSUME NEW i \in Ids, jobs'[i].status = "superseded" PROVE Excused(i)'
    <3>1. CASE jobs[i].status = "superseded"
      BY <3>1 DEF DebounceInv
    <3>2. CASE jobs[i].status # "superseded"
      <4>1. jobs[i].pr = PROf[hdel[h]] /\ jobs'[i].pr = jobs[i].pr /\ jobs'[i].delivery = jobs[i].delivery
        BY <1>1, <2>3, <3>2 DEF SupersedePending, Superseded, Row
      <4>2. Caused(i)'
        BY <2>1, <2>2, <4>1 DEF Caused
      <4>3. Followed(i)'
        BY <2>1, <2>2, <4>1 DEF Followed, PushUnderWay
      <4> QED BY <4>2, <4>3 DEF Excused
    <3> QED BY <3>1, <3>2
  <2>4. \A w \in Workers : wpc[w] \in {"process", "finish"} => jobs[wjob[w]].status # "absent"
    BY DEF ClaimInv, BusyRows, Busy
  <2> QED BY <2>1, <2>3, <2>4 DEF DebounceInv
<1>2. CASE CancelInFlight(h)
  <2> DEFINE d == hdel[h]
             v == cancels[RepoOf[PROf[d]]]
  <2>1. /\ hpc[h] = "cancel" /\ hpc' = [hpc EXCEPT ![h] = "enqueue"] /\ hdel' = hdel
        /\ UNCHANGED <<jobs, sends, wpc, wjob, result>>
        /\ canceled' = IF v = None THEN canceled ELSE [canceled EXCEPT ![v] = TRUE]
    BY <1>2 DEF CancelInFlight, senderVars, tableVars
  <2>2. /\ d \in Pushes /\ sends[d] > 0 /\ d \in Deliveries /\ PROf[d] \in PRs
        /\ \A i \in Ids : jobs[i].delivery # d
    BY <2>1, QueueAssumption DEF DeliveryOnce, Serving
  <2>3. ASSUME NEW w \in Workers, NEW i \in Ids, wjob[w] = i, wpc[w] = "process", canceled'[w], ~canceled[w]
        PROVE  Excused(i)'
    <3>1. v = w /\ RepoOf[PROf[d]] \in Repos
      BY <2>1, <2>2, <2>3, QueueAssumption
    <3>2. Key(w) = RepoOf[PROf[d]]
      BY <3>1, QueueAssumption DEF LockInv, RegisteredHolds, HolderInside
    <3>3. jobs[i].pr \in PRs /\ RepoOf[jobs[i].pr] = RepoOf[PROf[d]]
      BY <2>3, <3>2 DEF Key, JobOf, ClaimInv, BusyRows, Busy, TableInv
    <3>4. jobs[i].pr = PROf[d]
      BY <2>2, <3>3 DEF Debounced
    <3>5. Caused(i)'
      BY <2>1, <2>2, <3>4 DEF Caused
    <3>6. Followed(i)'
      BY <2>1, <2>2, <3>4 DEF Followed, PushUnderWay
    <3> QED BY <3>5, <3>6 DEF Excused
  <2>4. \A w \in Workers : wpc[w] \in {"process", "finish"} => jobs[wjob[w]].status # "absent"
    BY DEF ClaimInv, BusyRows, Busy
  <2> HIDE DEF v, d
  <2> QED BY <2>1, <2>3, <2>4 DEF DebounceInv
<1>3. CASE EnqueueJob(h) \/ EnqueueUnread(h)
  <2>1. \A i \in Ids : jobs'[i].status = "superseded" => jobs[i].status = "superseded"
    <3>1. jobs' = [jobs EXCEPT ![lastId + 1] = NewRow(PROf[hdel[h]], hdel[h])]
      BY <1>3 DEF EnqueueJob, EnqueueUnread
    <3> QED BY <3>1 DEF NewRow
  <2> QED BY <1>3, <2>1, DebounceBystander DEF EnqueueJob, EnqueueUnread
<1>4. CASE EnqueueDuplicate(h) \/ EnqueueFails(h) \/ Notify(h)
  BY <1>4, DebounceBystander DEF EnqueueDuplicate, EnqueueFails, Notify, tableVars
<1> QED BY <1>1, <1>2, <1>3, <1>4 DEF HandlerStep

LEMMA DebounceWorkerStep ==
  ASSUME TypeInv, TableInv, ClaimInv, DeliveryOnce, DebounceInv, NEW w \in Workers, WorkerStep(w),
         \A i \in Ids : jobs[i].status # "absent" /\ Excused(i) => Excused(i)'
  PROVE  DebounceInv'
<1> USE DEF TypeInv, TypeOK, GoTo, tableVars
<1>1. CASE ClaimJob(w) \/ ClaimLost(w)
  <2>1. \A i \in Ids : jobs'[i].status = "superseded" => jobs[i].status = "superseded"
    BY <1>1 DEF ClaimJob, ClaimLost, Claimed, SetRow
  <2> QED BY <1>1, <2>1, DebounceBystander DEF ClaimJob, ClaimLost
<1>2. CASE ClaimNothing(w) \/ Wake(w) \/ Tick(w) \/ Leave(w) \/ FinishFails(w) \/ Release(w)
  BY <1>2, DebounceBystander DEF ClaimNothing, Wake, Tick, Leave, FinishFails, Release
<1>3. CASE StartRun(w)
  <2>1. /\ wpc' = [wpc EXCEPT ![w] = "process"] /\ UNCHANGED <<jobs, wjob, result>>
        /\ canceled' = [canceled EXCEPT ![w] = FALSE]
    BY <1>3 DEF StartRun, ContextDone, DeliveryOnce
  <2> QED BY <2>1, DebounceBystander
<1>4. CASE ProcessReturns(w)
  <2>1. /\ wpc[w] = "process" /\ wpc' = [wpc EXCEPT ![w] = "finish"]
        /\ UNCHANGED <<jobs, wjob, canceled>>
        /\ \A v \in Workers \ {w} : result'[v] = result[v]
    BY <1>4 DEF ProcessReturns
  <2>2. result'[w] = "superseded" => canceled[w]
    BY <1>4 DEF ProcessReturns, Outcome
  <2>3. \A v \in Workers : wpc[v] \in {"process", "finish"} => jobs[wjob[v]].status # "absent"
    BY DEF ClaimInv, BusyRows, Busy
  <2> QED BY <2>1, <2>2, <2>3 DEF DebounceInv
<1>5. CASE FinishRunningJob(w)
  <2>1. /\ wpc[w] = "finish" /\ wpc' = [wpc EXCEPT ![w] = "release"]
        /\ UNCHANGED <<wjob, result, canceled>> /\ wjob[w] \in Ids
    BY <1>5 DEF FinishRunningJob, WorkerHasRow, Busy
  <2>2. \A v \in Workers : wpc[v] \in {"process", "finish"} => jobs[wjob[v]].status # "absent"
    BY DEF ClaimInv, BusyRows, Busy
  <2>3. \A i \in Ids : jobs'[i].status = "superseded" =>
          jobs[i].status = "superseded" \/ (i = wjob[w] /\ result[w] = "superseded")
    BY <1>5, <2>1 DEF FinishRunningJob, SetRow
  <2> QED BY <2>1, <2>2, <2>3 DEF DebounceInv
<1> QED BY <1>1, <1>2, <1>3, <1>4, <1>5 DEF WorkerStep

LEMMA DebounceNext ==
  ASSUME Debounced, TypeInv, TableInv, ClaimInv, LockInv, DeliveryOnce, DebounceInv, [Next]_vars
  PROVE  DebounceInv'
<1>0. \A i \in Ids : RowStep(i)
  BY NextTable, TableStepRows
<1>10. \A i \in Ids : jobs[i].status # "absent" /\ Excused(i) => Excused(i)'
  BY <1>0, ExcusedKept
<1> USE DEF workerVars, tableVars
<1>1. ASSUME NEW h \in Handlers, NEW d \in Deliveries, Receive(h, d) PROVE DebounceInv'
  BY <1>10, <1>1, DebounceBystander DEF Receive
<1>2. ASSUME NEW h \in Handlers, HandlerStep(h) PROVE DebounceInv'
  BY <1>0, <1>10, <1>2, DebounceHandlerStep
<1>3. ASSUME NEW w \in Workers, WorkerStep(w) PROVE DebounceInv'
  BY <1>10, <1>3, DebounceWorkerStep
<1>4. ASSUME NEW i \in Ids, RerunJob(i) \/ CancelPendingJob(i) \/ RetryDue(i) PROVE DebounceInv'
  <2>1. \A k \in Ids : jobs'[k].status = "superseded" => jobs[k].status = "superseded"
    BY <1>4 DEF RerunJob, CancelPendingJob, RetryDue, NewRow, SetRow, TypeInv, TypeOK
  <2> QED BY <1>10, <1>4, <2>1, DebounceBystander DEF RerunJob, CancelPendingJob, RetryDue
<1>5. CASE Crash \/ Exit
  BY <1>10, <1>5, DebounceBystander DEF Crash, Exit, ProcessEnds
<1>6. ~Terminate
  BY DEF Terminate, Debounced, TypeInv, TypeOK
<1>7. CASE Boot
  BY <1>10, <1>7, DebounceBystander DEF Boot
<1>8. CASE RecoverRunning
  <2>1. \A i \in Ids : jobs'[i].status = "superseded" => jobs[i].status = "superseded"
    BY <1>8 DEF RecoverRunning, Recovered, TypeInv, TypeOK, Row
  <2>2. \A w \in Workers : wpc'[w] = "claim"
    BY <1>8 DEF RecoverRunning
  <2> QED BY <1>10, <2>1, <2>2, DebounceBystander
<1>9. CASE UNCHANGED vars
  BY <1>10, <1>9, DebounceBystander DEF vars
<1> QED
  BY <1>1, <1>2, <1>3, <1>4, <1>5, <1>6, <1>7, <1>8, <1>9 DEF Next

LEMMA DebounceAlways ==
  ASSUME Debounced
  PROVE  Spec => [](TypeInv /\ TableInv /\ ClaimInv /\ DebounceInv)
<1>1. TypeInv /\ TableInv /\ DeliveryOnce /\ [Next]_vars => DeliveryOnce'
  BY OnceNext
<1>2. TypeInv /\ TableInv /\ ClaimInv /\ LockInv /\ DeliveryOnce /\ DebounceInv /\ [Next]_vars => DebounceInv'
  BY DebounceNext
<1> QED
  BY <1>1, <1>2, OnceInit, DebounceInit, ClaimAlways, LockAlways, PTL DEF Spec

\* A superseded job is never the last word on its pull request: the job of a
\* later push follows it, the push is being handled, or its sender knows that
\* it failed.
THEOREM SupersededFollowed ==
  ASSUME Debounced
  PROVE  Spec => []SupersededHasSuccessor
<1>1. DebounceInv => SupersededHasSuccessor
  BY DEF DebounceInv, Excused, Followed, SupersededHasSuccessor
<1> QED BY <1>1, DebounceAlways, PTL

\* With one pull request per repository, and neither redelivery nor SIGTERM,
\* CancelInFlight only reaches a run of its own pull request: that the key is the repository is all that is behind
\* the counterexample of queue_crosspr.
THEOREM OnlyOwnPushCancels ==
  ASSUME Debounced
  PROVE  Spec => []CanceledByOwnPR
<1>1. TypeInv /\ DebounceInv => CanceledByOwnPR
  BY DEF DebounceInv, Excused, Caused, CanceledByOwnPR, JobOf, TypeInv, WorkerHasRow, Busy
<1> QED BY <1>1, DebounceAlways, PTL
=============================================================================
