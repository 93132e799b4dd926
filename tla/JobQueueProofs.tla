-------------------------- MODULE JobQueueProofs ----------------------------
(***************************************************************************)
(* Theorems about JobQueue, for any number of pull requests, deliveries,   *)
(* handlers and workers and any bounds.                                    *)
(***************************************************************************)
EXTENDS JobQueue, TLAPS

-----------------------------------------------------------------------------
(* Types.                                                                  *)

\* A busy handler serves a delivery; a worker that left the claim loop has a
\* row, and one about to record has an outcome.
HandlerServes == \A h \in Handlers : hpc[h] # "idle" => hdel[h] \in Deliveries
OutcomeSet == \A w \in Workers : wpc[w] = "finish" => result[w] # "none"
Busy == {"lock", "process", "finish", "release"}
WorkerHasRow == \A w \in Workers : wpc[w] \in Busy => wjob[w] \in Ids

TypeInv == TypeOK /\ HandlerServes /\ OutcomeSet /\ WorkerHasRow

\* The rows a step writes are rows.
LEMMA RowTypes ==
  ASSUME TypeOK
  PROVE  /\ \A p \in PRs \cup {None}, d \in Deliveries \cup {None} : NewRow(p, d) \in Row
         /\ \A i \in Ids, s \in Status, n \in Nat, due \in BOOLEAN :
              SetRow(i, s, n, due) \in [Ids -> Row]
         /\ \A i \in Ids : Claimed(i) \in [Ids -> Row]
         /\ \A p : Superseded(p) \in [Ids -> Row]
         /\ Recovered \in [Ids -> Row]
<1>1. jobs \in [Ids -> Row]
  BY DEF TypeOK
<1>2. \A p \in PRs \cup {None}, d \in Deliveries \cup {None} : NewRow(p, d) \in Row
  BY DEF NewRow, Row, Status, Active, Final
<1>3. \A i \in Ids, s \in Status, n \in Nat, due \in BOOLEAN :
        SetRow(i, s, n, due) \in [Ids -> Row]
  BY <1>1 DEF SetRow, Row
<1>4. \A i \in Ids : Claimed(i) \in [Ids -> Row]
  <2> SUFFICES ASSUME NEW i \in Ids PROVE Claimed(i) \in [Ids -> Row]
    OBVIOUS
  <2>1. jobs[i].attempts + 1 \in Nat /\ "running" \in Status /\ TRUE \in BOOLEAN
    BY <1>1 DEF Row, Status, Active
  <2> QED BY <1>3, <2>1 DEF Claimed
<1>5. \A p : Superseded(p) \in [Ids -> Row]
  BY <1>1 DEF Superseded, Row, Status, Active, Final
<1>6. Recovered \in [Ids -> Row]
  BY <1>1 DEF Recovered, Row, Status, Active, Final
<1> QED BY <1>2, <1>3, <1>4, <1>5, <1>6

LEMMA TypeInit == Init => TypeInv
<1> SUFFICES ASSUME Init PROVE TypeInv
  OBVIOUS
<1>1. NoRow \in Row
  BY DEF NoRow, Row, Status
<1>2. 0 \in 0..MaxJobs
  BY QueueAssumption
<1> QED
  BY <1>1, <1>2 DEF Init, TypeInv, TypeOK, HandlerServes, OutcomeSet, WorkerHasRow, Busy

LEMMA TypeHandlerStep ==
  ASSUME TypeInv, NEW h \in Handlers, HandlerStep(h)
  PROVE  TypeInv'
<1> USE DEF TypeInv, TypeOK, HandlerServes, OutcomeSet, WorkerHasRow, Busy, senderVars, handlerVars,
            workerVars, poolVars, budgetVars, tableVars
<1>1. CASE SupersedePending(h)
  BY <1>1, RowTypes DEF SupersedePending, StoreFault
<1>2. CASE CancelInFlight(h)
  BY <1>2 DEF CancelInFlight
<1>3. CASE EnqueueJob(h)
  BY <1>3, RowTypes, QueueAssumption DEF EnqueueJob, Ids
<1>4. CASE EnqueueDuplicate(h)
  BY <1>4 DEF EnqueueDuplicate
<1>5. CASE EnqueueFails(h)
  BY <1>5 DEF EnqueueFails, AnswerError, StoreFault
<1>6. CASE EnqueueUnread(h)
  BY <1>6, RowTypes, QueueAssumption DEF EnqueueUnread, AnswerError, StoreFault, Ids
<1>7. CASE Notify(h)
  BY <1>7 DEF Notify
<1> QED
  BY <1>1, <1>2, <1>3, <1>4, <1>5, <1>6, <1>7 DEF HandlerStep

LEMMA TypeWorkerStep ==
  ASSUME TypeInv, NEW w \in Workers, WorkerStep(w)
  PROVE  TypeInv'
<1> USE DEF TypeInv, TypeOK, HandlerServes, OutcomeSet, WorkerHasRow, Busy, senderVars, handlerVars,
            workerVars, poolVars, budgetVars, tableVars, GoTo
<1>1. CASE ClaimJob(w)
  BY <1>1, RowTypes DEF ClaimJob
<1>2. CASE ClaimNothing(w)
  BY <1>2 DEF ClaimNothing
<1>3. CASE ClaimLost(w)
  BY <1>3, RowTypes DEF ClaimLost, StoreFault
<1>4. CASE Wake(w)
  BY <1>4 DEF Wake
<1>5. CASE Tick(w)
  BY <1>5 DEF Tick
<1>6. CASE Leave(w)
  BY <1>6 DEF Leave
<1>7. CASE StartRun(w)
  BY <1>7 DEF StartRun, ContextDone
<1>8. CASE ProcessReturns(w)
  <2>1. \E s \in {"pending", "done", "failed", "superseded"} :
          result' = [result EXCEPT ![w] = s]
    BY <1>8 DEF ProcessReturns, Outcome
  <2> QED
    BY <1>8, <2>1, QueueAssumption DEF ProcessReturns
<1>9. CASE FinishRunningJob(w)
  <2>1. jobs' \in [Ids -> Row]
    <3>1. wjob[w] \in Ids /\ jobs[wjob[w]] \in Row
      BY <1>9 DEF FinishRunningJob
    <3>2. result[w] \in Status /\ JobOf(w).attempts \in Nat
      BY <1>9, <3>1 DEF FinishRunningJob, JobOf, Row, Status, Active, Final
    <3>3. SetRow(wjob[w], result[w], JobOf(w).attempts, result[w] # "pending") \in [Ids -> Row]
      <4> DEFINE due == result[w] # "pending"
      <4>1. due \in BOOLEAN
        OBVIOUS
      <4> HIDE DEF due
      <4>2. SetRow(wjob[w], result[w], JobOf(w).attempts, due) \in [Ids -> Row]
        BY <3>1, <3>2, <4>1, RowTypes
      <4> QED BY <4>2 DEF due
    <3> QED BY <1>9, <3>3 DEF FinishRunningJob
  <2> QED
    BY <1>9, <2>1 DEF FinishRunningJob
<1>10. CASE FinishFails(w)
  BY <1>10 DEF FinishFails, StoreFault
<1>11. CASE Release(w)
  BY <1>11 DEF Release, Unregister
<1> QED
  BY <1>1, <1>2, <1>3, <1>4, <1>5, <1>6, <1>7, <1>8, <1>9, <1>10, <1>11 DEF WorkerStep

LEMMA TypeProcessEnds ==
  ASSUME TypeInv, ProcessEnds, reruns' \in Nat, crashes' \in Nat, stops' \in Nat,
         faults' \in Nat
  PROVE  TypeInv'
<1>1. nacked' \subseteq Deliveries
  BY DEF ProcessEnds, TypeInv, TypeOK, HandlerServes
<1>2. jobs' = jobs /\ lastId' = lastId /\ acked' = acked /\ sends' = sends
  BY DEF ProcessEnds, tableVars
<1> QED
  BY <1>1, <1>2 DEF ProcessEnds, TypeInv, TypeOK, HandlerServes, OutcomeSet, WorkerHasRow, Busy

LEMMA TypeNext == TypeInv /\ [Next]_vars => TypeInv'
<1> SUFFICES ASSUME TypeInv, [Next]_vars PROVE TypeInv'
  OBVIOUS
<1> USE DEF TypeInv, TypeOK, HandlerServes, OutcomeSet, WorkerHasRow, Busy, senderVars, handlerVars,
            workerVars, poolVars, budgetVars, tableVars
<1>1. ASSUME NEW h \in Handlers, NEW d \in Deliveries, Receive(h, d) PROVE TypeInv'
  BY <1>1 DEF Receive, FirstCall
<1>2. ASSUME NEW h \in Handlers, HandlerStep(h) PROVE TypeInv'
  BY <1>2, TypeHandlerStep
<1>3. ASSUME NEW w \in Workers, WorkerStep(w) PROVE TypeInv'
  BY <1>3, TypeWorkerStep
<1>4. ASSUME NEW i \in Ids, RerunJob(i) PROVE TypeInv'
  <2>1. jobs[i].pr \in PRs \cup {None}
    BY DEF Row
  <2>2. NewRow(jobs[i].pr, None) \in Row
    BY <2>1, RowTypes
  <2> QED
    BY <1>4, <2>2, QueueAssumption DEF RerunJob, Ids
<1>5. ASSUME NEW i \in Ids, CancelPendingJob(i) PROVE TypeInv'
  <2>1. jobs[i].attempts \in Nat /\ "canceled" \in Status
    BY DEF Row, Status, Final
  <2> QED
    BY <1>5, <2>1, RowTypes DEF CancelPendingJob
<1>6. ASSUME NEW i \in Ids, RetryDue(i) PROVE TypeInv'
  <2>1. jobs[i].attempts \in Nat /\ "pending" \in Status
    BY DEF Row, Status, Active
  <2> QED
    BY <1>6, <2>1, RowTypes DEF RetryDue
<1>7. CASE Crash
  BY <1>7, TypeProcessEnds DEF Crash
<1>8. CASE Terminate
  BY <1>8 DEF Terminate
<1>9. CASE Exit
  BY <1>9, TypeProcessEnds DEF Exit
<1>10. CASE Boot
  BY <1>10 DEF Boot
<1>11. CASE RecoverRunning
  BY <1>11, RowTypes DEF RecoverRunning, StoreFault
<1>12. CASE UNCHANGED vars
  BY <1>12 DEF vars
<1> QED
  BY <1>1, <1>2, <1>3, <1>4, <1>5, <1>6, <1>7, <1>8, <1>9, <1>10, <1>11, <1>12 DEF Next

\* Every variable keeps its type, whatever the constants.
THEOREM TypeCorrect == Spec => []TypeOK
<1>1. TypeInv => TypeOK
  BY DEF TypeInv
<1> QED
  BY TypeInit, TypeNext, <1>1, PTL DEF Spec

-----------------------------------------------------------------------------
(* The jobs table. Whatever the step, the table changes in one of the ways  *)
(* of TableStep; the invariants of the table and its refinement follow from *)
(* these.                                                                   *)

Insert(p, d) ==
  /\ lastId < MaxJobs
  /\ jobs' = [jobs EXCEPT ![lastId + 1] = NewRow(p, d)]
  /\ lastId' = lastId + 1

Start(i) == NextJob(i) /\ jobs' = Claimed(i) /\ lastId' = lastId

\* An outcome for a running row; a new state for a pending one.
Record(i, s, due) ==
  /\ jobs[i].status = "running"
  /\ jobs' = SetRow(i, s, jobs[i].attempts, due)
  /\ lastId' = lastId
Touch(i, s) ==
  /\ jobs[i].status = "pending"
  /\ jobs' = SetRow(i, s, jobs[i].attempts, TRUE)
  /\ lastId' = lastId

Outcomes == {"pending", "done", "failed", "superseded"}

TableStep ==
  \/ UNCHANGED tableVars
  \/ \E p \in PRs, d \in Deliveries \cup {None} : Insert(p, d)
  \/ \E p \in PRs : jobs' = Superseded(p) /\ lastId' = lastId
  \/ \E i \in Ids : Start(i)
  \/ \E i \in Ids, s \in Outcomes, due \in BOOLEAN : Record(i, s, due)
  \/ \E i \in Ids, s \in {"pending", "canceled"} : Touch(i, s)
  \/ jobs' = Recovered /\ lastId' = lastId

\* The rows in use are 1..lastId, and each is about a pull request.
TableInv ==
  \A i \in Ids : /\ jobs[i].status # "absent" <=> i <= lastId
                 /\ jobs[i].status # "absent" => jobs[i].pr \in PRs

LEMMA TableInit == Init => TableInv
  BY QueueAssumption DEF Init, TableInv, NoRow, Ids

LEMMA TableHandlerStep ==
  ASSUME TypeInv, NEW h \in Handlers, HandlerStep(h)
  PROVE  TableStep
<1>1. hpc[h] # "idle" => hdel[h] \in Deliveries /\ PROf[hdel[h]] \in PRs
  BY QueueAssumption DEF TypeInv, HandlerServes
<1>2. CASE SupersedePending(h)
  BY <1>1, <1>2 DEF SupersedePending, TableStep, tableVars
<1>3. CASE EnqueueJob(h) \/ EnqueueUnread(h)
  <2>1. Insert(PROf[hdel[h]], hdel[h])
    BY <1>3 DEF EnqueueJob, EnqueueUnread, Insert
  <2>2. hdel[h] \in Deliveries /\ PROf[hdel[h]] \in PRs
    BY <1>1, <1>3 DEF EnqueueJob, EnqueueUnread
  <2> QED BY <2>1, <2>2 DEF TableStep
<1>4. CASE CancelInFlight(h) \/ EnqueueDuplicate(h) \/ EnqueueFails(h) \/ Notify(h)
  BY <1>4 DEF CancelInFlight, EnqueueDuplicate, EnqueueFails, Notify, TableStep, tableVars
<1> QED
  BY <1>2, <1>3, <1>4 DEF HandlerStep

LEMMA TableWorkerStep ==
  ASSUME TypeInv, NEW w \in Workers, WorkerStep(w)
  PROVE  TableStep
<1>1. CASE ClaimJob(w) \/ ClaimLost(w)
  <2>1. \E i \in Ids : NextJob(i) /\ jobs' = Claimed(i)
    BY <1>1 DEF ClaimJob, ClaimLost
  <2>2. lastId' = lastId
    BY <1>1 DEF ClaimJob, ClaimLost
  <2> QED BY <2>1, <2>2 DEF TableStep, Start
<1>2. CASE FinishRunningJob(w)
  <2>1. wjob[w] \in Ids /\ result[w] \in Outcomes
    BY <1>2 DEF FinishRunningJob, TypeInv, TypeOK, OutcomeSet, WorkerHasRow, Busy, Outcomes
  <2>2. CASE StillRunning(w)
    <3> DEFINE due == result[w] # "pending"
    <3>1. due \in BOOLEAN
      OBVIOUS
    <3>2. Record(wjob[w], result[w], due)
      BY <1>2, <2>2 DEF FinishRunningJob, StillRunning, Record, JobOf
    <3> HIDE DEF due
    <3> QED BY <2>1, <3>1, <3>2 DEF TableStep
  <2>3. CASE ~ StillRunning(w)
    BY <1>2, <2>3 DEF FinishRunningJob, TableStep, tableVars
  <2> QED BY <2>2, <2>3
<1>3. CASE \/ ClaimNothing(w) \/ Wake(w) \/ Tick(w) \/ Leave(w) \/ StartRun(w)
           \/ ProcessReturns(w) \/ FinishFails(w) \/ Release(w)
  BY <1>3 DEF ClaimNothing, Wake, Tick, Leave, StartRun, ProcessReturns, FinishFails,
              Release, TableStep, tableVars
<1> QED
  BY <1>1, <1>2, <1>3 DEF WorkerStep

LEMMA NextTable == TypeInv /\ TableInv /\ [Next]_vars => TableStep
<1> SUFFICES ASSUME TypeInv, TableInv, [Next]_vars PROVE TableStep
  OBVIOUS
<1>1. ASSUME NEW h \in Handlers, NEW d \in Deliveries, Receive(h, d) PROVE TableStep
  BY <1>1 DEF Receive, TableStep, tableVars
<1>2. ASSUME NEW i \in Ids, RerunJob(i) PROVE TableStep
  <2>1. Insert(jobs[i].pr, None) /\ jobs[i].pr \in PRs
    BY <1>2 DEF RerunJob, Insert, TableInv
  <2> QED BY <2>1 DEF TableStep
<1>3. ASSUME NEW i \in Ids, CancelPendingJob(i) PROVE TableStep
  <2>1. Touch(i, "canceled")
    BY <1>3 DEF CancelPendingJob, Cancelable, Touch
  <2> QED BY <2>1 DEF TableStep
<1>4. ASSUME NEW i \in Ids, RetryDue(i) PROVE TableStep
  <2>1. Touch(i, "pending")
    BY <1>4 DEF RetryDue, Touch
  <2> QED BY <2>1 DEF TableStep
<1>5. CASE Crash \/ Terminate \/ Exit \/ Boot
  BY <1>5 DEF Crash, Terminate, Exit, Boot, ProcessEnds, TableStep, tableVars
<1>6. CASE RecoverRunning
  BY <1>6 DEF RecoverRunning, TableStep, tableVars
<1>7. CASE UNCHANGED vars
  BY <1>7 DEF vars, TableStep, tableVars
<1> QED
  BY <1>1, <1>2, <1>3, <1>4, <1>5, <1>6, <1>7, TableHandlerStep, TableWorkerStep DEF Next

\* What one step may do to one row: a row in use keeps its identity, and a
\* final one its state.
RowStep(i) ==
  /\ jobs[i].status # "absent" => /\ jobs'[i].pr = jobs[i].pr
                                  /\ jobs'[i].delivery = jobs[i].delivery
                                  /\ jobs'[i].status # "absent"
  /\ jobs[i].status \in Final => jobs'[i].status = jobs[i].status

LEMMA TableStepRows ==
  ASSUME TypeInv, TableInv, TableStep
  PROVE  TableInv' /\ \A i \in Ids : RowStep(i)
<1> USE DEF TypeInv, TypeOK, TableInv, RowStep
<1>1. CASE UNCHANGED tableVars
  BY <1>1 DEF tableVars
<1>2. ASSUME NEW p \in PRs, NEW d \in Deliveries \cup {None}, Insert(p, d)
      PROVE  TableInv' /\ \A i \in Ids : RowStep(i)
  BY <1>2, QueueAssumption DEF Insert, NewRow, Ids, Final
<1>3. ASSUME NEW p \in PRs, jobs' = Superseded(p), lastId' = lastId
      PROVE  TableInv' /\ \A i \in Ids : RowStep(i)
  BY <1>3 DEF Superseded, Row, Active, Final
<1>4. ASSUME NEW i \in Ids, Start(i)
      PROVE  TableInv' /\ \A k \in Ids : RowStep(k)
  BY <1>4 DEF Start, NextJob, Claimable, Claimed, SetRow, Row, Final
<1>5. ASSUME NEW i \in Ids, NEW s \in Outcomes, NEW due \in BOOLEAN, Record(i, s, due)
      PROVE  TableInv' /\ \A k \in Ids : RowStep(k)
  BY <1>5 DEF Record, Outcomes, SetRow, Row, Final
<1>6. ASSUME NEW i \in Ids, NEW s \in {"pending", "canceled"}, Touch(i, s)
      PROVE  TableInv' /\ \A k \in Ids : RowStep(k)
  BY <1>6 DEF Touch, SetRow, Row, Final
<1>7. CASE jobs' = Recovered /\ lastId' = lastId
  BY <1>7 DEF Recovered, Row, Final
<1> QED
  BY <1>1, <1>2, <1>3, <1>4, <1>5, <1>6, <1>7 DEF TableStep

LEMMA TableNext == TypeInv /\ TableInv /\ [Next]_vars => TableInv'
  BY NextTable, TableStepRows

LEMMA TableAlways == Spec => [](TypeInv /\ TableInv)
  BY TypeInit, TypeNext, TableInit, TableNext, PTL DEF Spec

\* No step takes a job out of a final state: neither the finish of an old
\* worker, nor a push, a console request or a restart.
THEOREM FinalKept == Spec => FinalStateKept
<1>1. TypeInv /\ TableInv /\ [Next]_vars
        => [\A i \in Ids : jobs[i].status \in Final => jobs'[i].status = jobs[i].status]_vars
  BY NextTable, TableStepRows DEF RowStep
<1> QED
  BY <1>1, TableAlways, PTL DEF Spec, FinalStateKept

LEMMA OneRunningStep ==
  ASSUME TypeInv, TableInv, OneRunningPerPR, TableStep
  PROVE  OneRunningPerPR'
<1> USE DEF TypeInv, TypeOK, TableInv, OneRunningPerPR
<1>1. CASE UNCHANGED tableVars
  BY <1>1 DEF tableVars
<1>2. ASSUME NEW p \in PRs, NEW d \in Deliveries \cup {None}, Insert(p, d)
      PROVE  OneRunningPerPR'
  BY <1>2, QueueAssumption DEF Insert, NewRow, Ids
<1>3. ASSUME NEW p \in PRs, jobs' = Superseded(p) PROVE OneRunningPerPR'
  BY <1>3 DEF Superseded, Row
<1>4. ASSUME NEW i \in Ids, Start(i) PROVE OneRunningPerPR'
  BY <1>4 DEF Start, NextJob, Claimable, Claimed, SetRow, Row
<1>5. ASSUME NEW i \in Ids, NEW s \in Outcomes, NEW due \in BOOLEAN, Record(i, s, due)
      PROVE  OneRunningPerPR'
  BY <1>5 DEF Record, Outcomes, SetRow, Row
<1>6. ASSUME NEW i \in Ids, NEW s \in {"pending", "canceled"}, Touch(i, s)
      PROVE  OneRunningPerPR'
  BY <1>6 DEF Touch, SetRow, Row
<1>7. CASE jobs' = Recovered
  BY <1>7 DEF Recovered, Row
<1> QED
  BY <1>1, <1>2, <1>3, <1>4, <1>5, <1>6, <1>7 DEF TableStep

\* Concurrent claims, retries, reruns and restarts never leave two rows of a
\* pull request running.
THEOREM OneRunning == Spec => []OneRunningPerPR
<1>1. Init => OneRunningPerPR
  BY DEF Init, OneRunningPerPR, NoRow
<1>2. TypeInv /\ TableInv /\ OneRunningPerPR /\ [Next]_vars => OneRunningPerPR'
  BY NextTable, OneRunningStep
<1> QED
  BY <1>1, <1>2, TableAlways, PTL DEF Spec

-----------------------------------------------------------------------------
(* Claims: which worker has which row.                                      *)

\* Between down and the end of RecoverRunning there is no worker.
PoolOff == phase \in {"down", "boot"} => \A w \in Workers : wpc[w] = "off"

\* A claimed row exists, and does not wait until its worker has recorded an
\* outcome: this is what keeps a second worker away from it.
BusyRows ==
  \A w \in Workers :
    /\ wpc[w] \in Busy => jobs[wjob[w]].status # "absent"
    /\ wpc[w] \in Owning => jobs[wjob[w]].status # "pending"

ClaimInv == PoolOff /\ BusyRows /\ NoDoubleRun

\* A step that sends no claimed row back to pending.
RowsKept ==
  \A i \in Ids : jobs[i].status \notin {"absent", "pending"}
                 => jobs'[i].status \notin {"absent", "pending"}

LEMMA ClaimInit == Init => ClaimInv
  BY DEF Init, ClaimInv, PoolOff, BusyRows, NoDoubleRun, Busy, Owning

\* What happens beside the workers leaves their claims alone.
LEMMA ClaimBystander ==
  ASSUME TypeInv, TableInv, ClaimInv, RowsKept, TableInv',
         \A i \in Ids : RowStep(i),
         UNCHANGED <<wpc, wjob>>,
         phase' \in {"down", "boot"} => phase \in {"down", "boot"}
  PROVE  ClaimInv'
<1>1. PoolOff'
  BY DEF ClaimInv, PoolOff
<1>2. BusyRows'
  BY DEF ClaimInv, BusyRows, RowsKept, RowStep, TypeInv, WorkerHasRow, Busy, Owning
<1>3. NoDoubleRun'
  BY DEF ClaimInv, NoDoubleRun
<1> QED BY <1>1, <1>2, <1>3 DEF ClaimInv

\* A worker moves, the table and the claims stay.
LEMMA ClaimSameTable ==
  ASSUME TypeInv, ClaimInv, NEW w \in Workers, NEW l,
         wpc' = [wpc EXCEPT ![w] = l], UNCHANGED <<jobs, wjob>>,
         phase' = phase, wpc[w] # "off",
         l \in Busy => wpc[w] \in Busy,
         l \in Owning => wpc[w] \in Owning
  PROVE  ClaimInv'
<1>1. PoolOff'
  BY DEF ClaimInv, PoolOff, TypeInv, TypeOK
<1>2. BusyRows'
  BY DEF ClaimInv, BusyRows, TypeInv, TypeOK
<1>3. NoDoubleRun'
  BY DEF ClaimInv, NoDoubleRun, TypeInv, TypeOK
<1> QED BY <1>1, <1>2, <1>3 DEF ClaimInv

LEMMA ClaimWorkerStep ==
  ASSUME TypeInv, TableInv, ClaimInv, NEW w \in Workers, WorkerStep(w),
         \A i \in Ids : RowStep(i)
  PROVE  ClaimInv'
<1> USE DEF GoTo
<1>1. CASE ClaimJob(w)
  <2>1. PICK i \in Ids : NextJob(i) /\ jobs' = Claimed(i) /\ wjob' = [wjob EXCEPT ![w] = i]
    BY <1>1 DEF ClaimJob
  <2>2. jobs[i].status = "pending"
    BY <2>1 DEF NextJob, Claimable
  <2>3. /\ jobs'[i].status = "running"
        /\ \A k \in Ids : k # i => jobs'[k] = jobs[k]
    BY <2>1 DEF Claimed, SetRow, TypeInv, TypeOK
  <2>4. \A v \in Workers : wpc[v] \in Owning => wjob[v] # i
    BY <2>2 DEF ClaimInv, BusyRows
  <2>5. /\ wpc' = [wpc EXCEPT ![w] = "lock"]
        /\ wpc[w] = "claim" /\ phase' = "up"
    BY <1>1 DEF ClaimJob
  <2>6. PoolOff'
    BY <2>5 DEF PoolOff
  <2>7. BusyRows'
    BY <2>1, <2>3, <2>4, <2>5
    DEF ClaimInv, BusyRows, TypeInv, TypeOK, WorkerHasRow, Busy, Owning
  <2>8. NoDoubleRun'
    BY <2>1, <2>4, <2>5 DEF ClaimInv, NoDoubleRun, TypeInv, TypeOK, Owning
  <2> QED BY <2>6, <2>7, <2>8 DEF ClaimInv
<1>2. CASE ClaimLost(w)
  <2>1. PICK i \in Ids : NextJob(i) /\ jobs' = Claimed(i)
    BY <1>2 DEF ClaimLost
  <2>2. /\ jobs'[i].status = "running"
        /\ \A k \in Ids : k # i => jobs'[k] = jobs[k]
    BY <2>1 DEF Claimed, SetRow, TypeInv, TypeOK
  <2>3. /\ wpc' = [wpc EXCEPT ![w] = "idle"] /\ wjob' = wjob
        /\ wpc[w] = "claim" /\ phase' = phase
    BY <1>2 DEF ClaimLost
  <2>4. PoolOff'
    BY <2>3 DEF ClaimInv, PoolOff, TypeInv, TypeOK
  <2>5. BusyRows'
    BY <2>2, <2>3 DEF ClaimInv, BusyRows, TypeInv, TypeOK, WorkerHasRow, Busy, Owning
  <2>6. NoDoubleRun'
    BY <2>3 DEF ClaimInv, NoDoubleRun, TypeInv, TypeOK, Owning
  <2> QED BY <2>4, <2>5, <2>6 DEF ClaimInv
<1>3. CASE FinishRunningJob(w)
  <2>1. /\ wpc[w] = "finish" /\ wpc' = [wpc EXCEPT ![w] = "release"]
        /\ wjob' = wjob /\ phase' = phase
    BY <1>3 DEF FinishRunningJob
  <2>2. wjob[w] \in Ids
    BY <2>1 DEF TypeInv, WorkerHasRow, Busy
  <2>3. \A k \in Ids : k # wjob[w] => jobs'[k] = jobs[k]
    BY <1>3, <2>2 DEF FinishRunningJob, SetRow, TypeInv, TypeOK
  <2>4. \A v \in Workers : v # w /\ wpc[v] \in Owning => wjob[v] # wjob[w]
    BY <2>1 DEF ClaimInv, NoDoubleRun, Owning
  <2>5. PoolOff'
    BY <2>1 DEF ClaimInv, PoolOff, TypeInv, TypeOK
  <2>6. \A v \in Workers : wpc[v] \in Busy => jobs'[wjob[v]].status # "absent"
    BY DEF ClaimInv, BusyRows, RowStep, TypeInv, WorkerHasRow
  <2>7. BusyRows'
    BY <2>1, <2>3, <2>4, <2>6
    DEF ClaimInv, BusyRows, TypeInv, TypeOK, WorkerHasRow, Busy, Owning
  <2>8. NoDoubleRun'
    BY <2>1 DEF ClaimInv, NoDoubleRun, TypeInv, TypeOK, Owning
  <2> QED BY <2>5, <2>7, <2>8 DEF ClaimInv
<1>4. CASE Release(w)
  <2>1. /\ wpc' = [wpc EXCEPT ![w] = "claim"] /\ wjob' = [wjob EXCEPT ![w] = None]
        /\ jobs' = jobs /\ phase' = phase /\ wpc[w] = "release"
    BY <1>4 DEF Release, tableVars
  <2>2. PoolOff'
    BY <2>1 DEF ClaimInv, PoolOff, TypeInv, TypeOK
  <2>3. BusyRows'
    BY <2>1 DEF ClaimInv, BusyRows, TypeInv, TypeOK, Busy, Owning
  <2>4. NoDoubleRun'
    BY <2>1 DEF ClaimInv, NoDoubleRun, TypeInv, TypeOK, Owning
  <2> QED BY <2>2, <2>3, <2>4 DEF ClaimInv
<1>5. CASE ClaimNothing(w)
  BY <1>5, ClaimSameTable DEF ClaimNothing, tableVars, Busy, Owning
<1>6. CASE Wake(w)
  BY <1>6, ClaimSameTable DEF Wake, tableVars, Busy, Owning
<1>7. CASE Tick(w)
  BY <1>7, ClaimSameTable DEF Tick, tableVars, Busy, Owning
<1>8. CASE Leave(w)
  BY <1>8, ClaimSameTable DEF Leave, tableVars, Busy, Owning
<1>9. CASE StartRun(w)
  BY <1>9, ClaimSameTable DEF StartRun, tableVars, Busy, Owning
<1>10. CASE ProcessReturns(w)
  BY <1>10, ClaimSameTable DEF ProcessReturns, tableVars, Busy, Owning
<1>11. CASE FinishFails(w)
  BY <1>11, ClaimSameTable DEF FinishFails, tableVars, Busy, Owning
<1> QED
  BY <1>1, <1>2, <1>3, <1>4, <1>5, <1>6, <1>7, <1>8, <1>9, <1>10, <1>11 DEF WorkerStep

LEMMA ClaimNext ==
  TypeInv /\ TableInv /\ ClaimInv /\ [Next]_vars => ClaimInv'
<1> SUFFICES ASSUME TypeInv, TableInv, ClaimInv, [Next]_vars PROVE ClaimInv'
  OBVIOUS
<1>0. TableInv' /\ \A i \in Ids : RowStep(i)
  BY NextTable, TableStepRows
<1> USE DEF workerVars
<1>1. ASSUME NEW h \in Handlers, NEW d \in Deliveries, Receive(h, d) PROVE ClaimInv'
  BY <1>0, <1>1, ClaimBystander DEF Receive, tableVars, RowsKept
<1>2. ASSUME NEW h \in Handlers, HandlerStep(h) PROVE ClaimInv'
  <2>1. RowsKept
    <3>1. CASE SupersedePending(h)
      BY <3>1 DEF SupersedePending, Superseded, RowsKept, TypeInv, TypeOK, Row
    <3>2. CASE EnqueueJob(h) \/ EnqueueUnread(h)
      BY <3>2, QueueAssumption DEF EnqueueJob, EnqueueUnread, NewRow, RowsKept, TableInv, TypeInv, TypeOK, Ids
    <3>3. CASE CancelInFlight(h) \/ EnqueueDuplicate(h) \/ EnqueueFails(h) \/ Notify(h)
      BY <3>3 DEF CancelInFlight, EnqueueDuplicate, EnqueueFails, Notify, RowsKept, tableVars
    <3> QED BY <1>2, <3>1, <3>2, <3>3 DEF HandlerStep
  <2>2. UNCHANGED <<wpc, wjob, phase>>
    BY <1>2 DEF HandlerStep, SupersedePending, CancelInFlight, EnqueueJob, EnqueueDuplicate,
                EnqueueFails, EnqueueUnread, Notify
  <2> QED BY <1>0, <2>1, <2>2, ClaimBystander
<1>3. ASSUME NEW w \in Workers, WorkerStep(w) PROVE ClaimInv'
  BY <1>0, <1>3, ClaimWorkerStep
<1>4. ASSUME NEW i \in Ids, RerunJob(i) PROVE ClaimInv'
  <2>1. RowsKept
    BY SMTT(30), <1>4, QueueAssumption DEF RerunJob, NewRow, RowsKept, TableInv, TypeInv, TypeOK, Ids
  <2> QED BY <1>0, <1>4, <2>1, ClaimBystander DEF RerunJob
<1>5. ASSUME NEW i \in Ids, CancelPendingJob(i) PROVE ClaimInv'
  <2>1. RowsKept
    BY <1>5 DEF CancelPendingJob, Cancelable, SetRow, RowsKept, TypeInv, TypeOK
  <2> QED BY <1>0, <1>5, <2>1, ClaimBystander DEF CancelPendingJob
<1>6. ASSUME NEW i \in Ids, RetryDue(i) PROVE ClaimInv'
  <2>1. RowsKept
    BY <1>6 DEF RetryDue, SetRow, RowsKept, TypeInv, TypeOK
  <2> QED BY <1>0, <1>6, <2>1, ClaimBystander DEF RetryDue
<1>7. CASE Crash \/ Exit
  BY <1>7 DEF Crash, Exit, ProcessEnds, ClaimInv, PoolOff, BusyRows, NoDoubleRun, Busy, Owning
<1>8. CASE Terminate
  BY <1>0, <1>8, ClaimBystander DEF Terminate, tableVars, RowsKept
<1>9. CASE Boot
  BY <1>0, <1>9, ClaimBystander DEF Boot, tableVars, RowsKept
<1>10. CASE RecoverRunning
  BY <1>10 DEF RecoverRunning, ClaimInv, PoolOff, BusyRows, NoDoubleRun, Busy, Owning
<1>11. CASE UNCHANGED vars
  BY <1>0, <1>11, ClaimBystander DEF vars, tableVars, RowsKept
<1> QED
  BY <1>1, <1>2, <1>3, <1>4, <1>5, <1>6, <1>7, <1>8, <1>9, <1>10, <1>11 DEF Next

LEMMA ClaimAlways == Spec => [](TypeInv /\ TableInv /\ ClaimInv)
  BY ClaimInit, ClaimNext, TableAlways, PTL DEF Spec

\* No job is in the hands of two workers.
THEOREM SingleRun == Spec => []NoDoubleRun
<1>1. ClaimInv => NoDoubleRun
  BY DEF ClaimInv
<1> QED
  BY <1>1, ClaimAlways, PTL

-----------------------------------------------------------------------------
(* The lock of a repository and its registered cancel function.             *)

\* keyLock and the program counters of the workers tell the same story, and
\* only the holder is registered.
InsideHolds == \A w \in Workers : wpc[w] \in HoldsLock => keyLock[Key(w)] = w
HolderInside ==
  \A r \in Repos, v \in Workers : keyLock[r] = v => wpc[v] \in HoldsLock /\ Key(v) = r
RegisteredHolds == \A r \in Repos : cancels[r] # None => keyLock[r] = cancels[r]

LockInv == InsideHolds /\ HolderInside /\ RegisteredHolds

LEMMA LockInit == Init => LockInv
  BY QueueAssumption DEF Init, LockInv, InsideHolds, HolderInside, RegisteredHolds, HoldsLock

\* The key of a claimed job is a repository and does not change.
LEMMA KeyKept ==
  ASSUME TypeInv, TableInv, ClaimInv, \A i \in Ids : RowStep(i),
         NEW w \in Workers, wpc[w] \in Busy
  PROVE  Key(w) \in Repos /\ (wjob'[w] = wjob[w] => Key(w)' = Key(w))
<1>1. wjob[w] \in Ids /\ jobs[wjob[w]].status # "absent"
  BY DEF TypeInv, WorkerHasRow, ClaimInv, BusyRows
<1>2. jobs[wjob[w]].pr \in PRs /\ jobs'[wjob[w]].pr = jobs[wjob[w]].pr
  BY <1>1 DEF TableInv, RowStep
<1>3. Key(w) \in Repos
  BY <1>2, QueueAssumption DEF Key, JobOf
<1>4. wjob'[w] = wjob[w] => Key(w)' = Key(w)
  BY <1>2 DEF Key, JobOf
<1> QED BY <1>3, <1>4

\* Nobody enters or leaves Queue.run, and those inside keep their row.
LEMMA LockSame ==
  ASSUME TypeInv, TableInv, ClaimInv, LockInv, \A i \in Ids : RowStep(i),
         UNCHANGED <<keyLock, cancels>>,
         \A w \in Workers : wpc'[w] \in HoldsLock <=> wpc[w] \in HoldsLock,
         \A w \in Workers : wpc[w] \in HoldsLock => wjob'[w] = wjob[w]
  PROVE  LockInv'
<1>1. \A w \in Workers : wpc[w] \in HoldsLock => Key(w)' = Key(w)
  BY KeyKept DEF HoldsLock, Busy
<1>2. InsideHolds'
  BY <1>1 DEF LockInv, InsideHolds
<1>3. HolderInside'
  BY <1>1 DEF LockInv, HolderInside
<1>4. RegisteredHolds'
  BY DEF LockInv, RegisteredHolds
<1> QED
  BY <1>2, <1>3, <1>4 DEF LockInv

LEMMA LockWorkerStep ==
  ASSUME TypeInv, TableInv, ClaimInv, LockInv, NEW w \in Workers, WorkerStep(w),
         \A i \in Ids : RowStep(i)
  PROVE  LockInv'
<1> USE DEF GoTo, TypeInv, TypeOK
<1>1. CASE StartRun(w)
  <2>1. wpc' = [wpc EXCEPT ![w] = "process"] /\ wpc[w] = "lock" /\ wjob' = wjob
    BY <1>1 DEF StartRun
  <2>2. /\ keyLock[Key(w)] = None
        /\ keyLock' = [keyLock EXCEPT ![Key(w)] = w]
        /\ cancels' = [cancels EXCEPT ![Key(w)] = w]
    BY <1>1 DEF StartRun, LockFree
  <2>3. \A v \in Workers : wpc[v] \in Busy => Key(v) \in Repos /\ Key(v)' = Key(v)
    BY <2>1, KeyKept
  <2>4. Key(w) \in Repos /\ Key(w)' = Key(w)
    BY <2>1, <2>3 DEF Busy
  <2>5. ASSUME NEW v \in Workers, wpc'[v] \in HoldsLock PROVE (keyLock[Key(v)] = v)'
    <3>1. CASE v = w
      BY <2>2, <2>4, <3>1
    <3>2. CASE v # w
      <4>1. wpc[v] \in HoldsLock
        BY <2>1, <2>5, <3>2
      <4>2. keyLock[Key(v)] = v /\ Key(v)' = Key(v)
        BY <4>1, <2>3 DEF LockInv, InsideHolds, HoldsLock, Busy
      <4> QED BY <2>2, <4>2, QueueAssumption
    <3> QED BY <3>1, <3>2
  <2>6. ASSUME NEW r \in Repos, NEW v \in Workers, (keyLock[r] = v)'
        PROVE  (wpc[v] \in HoldsLock /\ Key(v) = r)'
    <3>1. CASE r = Key(w)
      <4>1. v = w
        BY <2>2, <2>4, <2>6, <3>1
      <4> QED BY <2>1, <2>4, <3>1, <4>1 DEF HoldsLock
    <3>2. CASE r # Key(w)
      <4>1. keyLock[r] = v
        BY <2>2, <2>6, <3>2
      <4>2. wpc[v] \in HoldsLock /\ Key(v) = r
        BY <4>1 DEF LockInv, HolderInside
      <4> QED BY <2>1, <2>3, <3>2, <4>2 DEF HoldsLock, Busy
    <3> QED BY <3>1, <3>2
  <2>7. RegisteredHolds'
    BY <2>2 DEF LockInv, RegisteredHolds
  <2> QED BY <2>5, <2>6, <2>7 DEF LockInv, InsideHolds, HolderInside
<1>2. CASE Release(w)
  <2>1. wpc' = [wpc EXCEPT ![w] = "claim"] /\ wpc[w] = "release"
    BY <1>2 DEF Release
  <2>2. /\ keyLock' = [keyLock EXCEPT ![Key(w)] = None]
        /\ cancels' = [cancels EXCEPT ![Key(w)] = IF cancels[Key(w)] = w THEN None
                                                 ELSE cancels[Key(w)]]
        /\ wjob' = [wjob EXCEPT ![w] = None]
    BY <1>2 DEF Release, Unregister
  <2>3. \A v \in Workers : wpc[v] \in Busy /\ v # w => Key(v) \in Repos /\ Key(v)' = Key(v)
    BY <2>2, KeyKept
  <2>4. Key(w) \in Repos /\ keyLock[Key(w)] = w
    BY <2>1, KeyKept DEF LockInv, InsideHolds, HoldsLock, Busy
  <2>5. \A v \in Workers : wpc'[v] \in HoldsLock => v # w /\ wpc[v] \in HoldsLock
    BY <2>1 DEF HoldsLock
  <2>6. ASSUME NEW v \in Workers, wpc'[v] \in HoldsLock PROVE (keyLock[Key(v)] = v)'
    <3>1. v # w /\ keyLock[Key(v)] = v /\ Key(v)' = Key(v)
      BY <2>3, <2>5, <2>6 DEF LockInv, InsideHolds, HoldsLock, Busy
    <3>2. Key(v) # Key(w)
      BY <2>4, <3>1
    <3> QED BY <2>2, <3>1, <3>2
  <2>7. ASSUME NEW r \in Repos, NEW v \in Workers, (keyLock[r] = v)'
        PROVE  (wpc[v] \in HoldsLock /\ Key(v) = r)'
    <3>1. r # Key(w) /\ keyLock[r] = v
      BY <2>2, <2>4, <2>7, QueueAssumption
    <3>2. wpc[v] \in HoldsLock /\ Key(v) = r
      BY <3>1 DEF LockInv, HolderInside
    <3>3. v # w
      BY <3>1, <3>2
    <3> QED BY <2>1, <2>3, <3>2, <3>3 DEF HoldsLock, Busy
  <2>8. RegisteredHolds'
    BY <2>2, <2>4 DEF LockInv, RegisteredHolds
  <2> QED BY <2>6, <2>7, <2>8 DEF LockInv, InsideHolds, HolderInside
<1>3. CASE ClaimJob(w)
  BY <1>3, LockSame DEF ClaimJob, poolVars, HoldsLock
<1>4. CASE ClaimNothing(w)
  BY <1>4, LockSame DEF ClaimNothing, poolVars, HoldsLock
<1>5. CASE ClaimLost(w)
  BY <1>5, LockSame DEF ClaimLost, poolVars, HoldsLock
<1>6. CASE Wake(w)
  BY <1>6, LockSame DEF Wake, HoldsLock
<1>7. CASE Tick(w)
  BY <1>7, LockSame DEF Tick, poolVars, HoldsLock
<1>8. CASE Leave(w)
  BY <1>8, LockSame DEF Leave, poolVars, HoldsLock
<1>9. CASE ProcessReturns(w)
  BY <1>9, LockSame DEF ProcessReturns, poolVars, HoldsLock
<1>10. CASE FinishRunningJob(w)
  BY <1>10, LockSame DEF FinishRunningJob, HoldsLock
<1>11. CASE FinishFails(w)
  BY <1>11, LockSame DEF FinishFails, poolVars, HoldsLock
<1> QED
  BY <1>1, <1>2, <1>3, <1>4, <1>5, <1>6, <1>7, <1>8, <1>9, <1>10, <1>11 DEF WorkerStep

LEMMA LockNext ==
  TypeInv /\ TableInv /\ ClaimInv /\ LockInv /\ [Next]_vars => LockInv'
<1> SUFFICES ASSUME TypeInv, TableInv, ClaimInv, LockInv, [Next]_vars PROVE LockInv'
  OBVIOUS
<1>0. \A i \in Ids : RowStep(i)
  BY NextTable, TableStepRows
<1> USE DEF workerVars, poolVars
<1>1. ASSUME NEW h \in Handlers, NEW d \in Deliveries, Receive(h, d) PROVE LockInv'
  BY <1>0, <1>1, LockSame DEF Receive
<1>2. ASSUME NEW h \in Handlers, HandlerStep(h) PROVE LockInv'
  <2>1. UNCHANGED <<wpc, wjob, keyLock, cancels>>
    BY <1>2 DEF HandlerStep, SupersedePending, CancelInFlight, EnqueueJob, EnqueueDuplicate,
                EnqueueFails, EnqueueUnread, Notify
  <2> QED BY <1>0, <2>1, LockSame
<1>3. ASSUME NEW w \in Workers, WorkerStep(w) PROVE LockInv'
  BY <1>0, <1>3, LockWorkerStep
<1>4. ASSUME NEW i \in Ids, RerunJob(i) \/ CancelPendingJob(i) \/ RetryDue(i) PROVE LockInv'
  BY <1>0, <1>4, LockSame DEF RerunJob, CancelPendingJob, RetryDue
<1>5. CASE Crash \/ Exit
  BY <1>5, QueueAssumption
  DEF Crash, Exit, ProcessEnds, LockInv, InsideHolds, HolderInside, RegisteredHolds, HoldsLock
<1>6. CASE Terminate \/ Boot
  BY <1>0, <1>6, LockSame DEF Terminate, Boot
<1>7. CASE RecoverRunning
  <2>1. \A w \in Workers : wpc[w] \notin HoldsLock /\ wpc'[w] \notin HoldsLock
    BY <1>7 DEF RecoverRunning, ClaimInv, PoolOff, HoldsLock
  <2> QED BY <1>0, <1>7, <2>1, LockSame DEF RecoverRunning
<1>8. CASE UNCHANGED vars
  BY <1>0, <1>8, LockSame DEF vars
<1> QED
  BY <1>1, <1>2, <1>3, <1>4, <1>5, <1>6, <1>7, <1>8 DEF Next

LEMMA LockAlways == Spec => []LockInv
  BY LockInit, LockNext, ClaimAlways, PTL DEF Spec

\* Two workers inside Queue.run never share a repository, whatever is claimed,
\* cancelled, retried or restarted around them.
THEOREM Exclusive == Spec => []KeyExclusive
<1>1. LockInv => KeyExclusive
  BY DEF LockInv, InsideHolds, KeyExclusive
<1> QED
  BY <1>1, LockAlways, PTL

\* A registered cancel function belongs to the run that holds the lock.
THEOREM CancelsHolder == Spec => []CancelsOfHolder
<1>1. TypeInv /\ LockInv => CancelsOfHolder
  BY DEF LockInv, HolderInside, RegisteredHolds, CancelsOfHolder, TypeInv, TypeOK
<1> QED
  BY <1>1, LockAlways, TableAlways, PTL
=============================================================================
