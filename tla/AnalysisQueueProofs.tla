------------------------ MODULE AnalysisQueueProofs -------------------------
(***************************************************************************)
(* Theorems about AnalysisQueue, for any number of configurations, alerts, *)
(* runners and requests and any bounds.                                    *)
(***************************************************************************)
EXTENDS AnalysisQueue, FiniteSetTheorems, TLAPS

-----------------------------------------------------------------------------
(* Types.                                                                  *)

CardsType == cards \in [Ids -> Seq(Ended)]

\* A runner and a request hold rows that exist; an outcome is set before it is
\* recorded; a request updates only what it read as queued or running.
Holding ==
  /\ \A r \in Runners : rtask[r] # None => rtask[r] \in 1..lastId
  /\ \A k \in Requests : ktask[k] # None => ktask[k] \in 1..lastId
  /\ \A r \in Runners : rpc[r] \in {"finish", "notify"} => rout[r] \in Ended
  /\ \A k \in Requests : kpc[k] = "update" => kseen[k] \in {"queued", "running"}

TypeInv == TableType /\ ConfigType /\ MemoryType /\ CardsType /\ Holding

LEMMA TypeInit == Init => TypeInv
<1> SUFFICES ASSUME Init PROVE TypeInv
  OBVIOUS
<1>1. TableType
  BY AnalysisAssumption DEF Init, TableType, Ids, Status
<1>2. ConfigType
  BY AnalysisAssumption DEF Init, ConfigType, NoStreak
<1>3. MemoryType
  BY DEF Init, MemoryType
<1>4. CardsType
  BY DEF Init, CardsType
<1>5. Holding
  BY DEF Init, Holding
<1> QED
  BY <1>1, <1>2, <1>3, <1>4, <1>5 DEF TypeInv

\* What stays when the variables of a part stay.
LEMMA TypeKept ==
  ASSUME TypeInv
  PROVE  /\ UNCHANGED taskVars => TableType'
         /\ UNCHANGED configVars => ConfigType'
         /\ UNCHANGED <<phase, runnerVars, requestVars>> => MemoryType'
         /\ UNCHANGED cards => CardsType'
         /\ UNCHANGED <<runnerVars, requestVars>> /\ lastId' \in Nat /\ lastId' >= lastId => Holding'
<1> USE DEF TypeInv
<1>1. UNCHANGED taskVars => TableType'
  BY DEF TableType, taskVars, rowVars
<1>2. UNCHANGED configVars => ConfigType'
  BY DEF ConfigType, configVars
<1>3. UNCHANGED <<phase, runnerVars, requestVars>> => MemoryType'
  BY DEF MemoryType, runnerVars, requestVars
<1>4. UNCHANGED cards => CardsType'
  BY DEF CardsType
<1>5. UNCHANGED <<runnerVars, requestVars>> /\ lastId' \in Nat /\ lastId' >= lastId => Holding'
  BY DEF Holding, TableType, runnerVars, requestVars
<1> QED
  BY <1>1, <1>2, <1>3, <1>4, <1>5

LEMMA InsertTypes ==
  ASSUME TypeInv, NEW c \in Configs \cup {None}, NEW d \in Deliveries \cup {None}, NEW f,
         f = None \/ \E e \in Deliveries : f = FingerprintOf[e],
         NEW s \in {"queued", "suppressed"}, Insert(c, d, f, s)
  PROVE  TableType' /\ lastId' \in Nat /\ lastId' >= lastId
<1> USE DEF TypeInv, TableType, Insert
<1>1. lastId' = lastId + 1 /\ lastId' \in 0..MaxTasks /\ lastId + 1 \in Ids
  BY AnalysisAssumption DEF Ids
<1>2. s \in Status /\ s # "absent"
  BY DEF Status, Final
<1>3. status' \in [Ids -> Status] /\ config' \in [Ids -> Configs \cup {None}]
      /\ delivery' \in [Ids -> Deliveries \cup {None}] /\ asked' \in [Ids -> BOOLEAN]
  BY <1>2
<1>4. \A i \in Ids : fingerprint'[i] = None \/ \E e \in Deliveries : fingerprint'[i] = FingerprintOf[e]
  BY <1>1
<1>5. \A i \in Ids : status'[i] = "absent" <=> i > lastId'
  BY <1>1, <1>2 DEF Ids
<1> QED
  BY <1>1, <1>3, <1>4, <1>5

LEMMA StreakTypes ==
  ASSUME TypeInv, NEW c \in Configs, NEW f
  PROVE  /\ NextStreak(streak[c], f, Threshold[c], Cools[c]).count \in Nat
         /\ NextStreak(streak[c], f, Threshold[c], Cools[c]).until \in {"none", "ahead", "over"}
<1>1. streak[c].count \in Nat /\ streak[c].until \in {"none", "ahead", "over"}
  BY DEF TypeInv, ConfigType
<1> QED BY <1>1 DEF NextStreak, First

LEMMA TypeConsole ==
  ASSUME TypeInv,
         \/ \E d \in Deliveries : Receive(d)
         \/ \E i \in Ids : Retry(i)
         \/ \E c \in Configs : \/ CooldownEnds(c) \/ DeleteAnalysisConfig(c)
                               \/ \E n \in Limits : UpdateAnalysisConfig(c, n)
  PROVE  TypeInv'
<1>1. ASSUME NEW d \in Deliveries, Receive(d) PROVE TypeInv'
  <2>1. MemoryType' /\ CardsType'
    BY <1>1, TypeKept DEF Receive
  <2>2. CASE UNCHANGED <<taskVars, streak>>
    BY <1>1, <2>1, <2>2, TypeKept DEF Receive, TypeInv, TableType, taskVars, rowVars, configVars, Holding, runnerVars, requestVars
  <2>3. CASE EnqueueAnalysisTask(d) /\ ~UNCHANGED <<taskVars, streak>>
    <3> DEFINE c == ConfigOf[d]
               f == FingerprintOf[d]
               s == IF Suppresses(streak[c], f, Threshold[c]) THEN "suppressed" ELSE "queued"
    <3>1. /\ Insert(c, d, f, s)
          /\ streak' = [streak EXCEPT ![c] = NextStreak(streak[c], f, Threshold[c], Cools[c])]
      BY <2>3 DEF EnqueueAnalysisTask
    <3>2. c \in Configs
      BY AnalysisAssumption
    <3>3. ConfigType'
      <4> DEFINE row == NextStreak(streak[c], f, Threshold[c], Cools[c])
      <4>1. row.count \in Nat /\ row.until \in {"none", "ahead", "over"}
        BY <3>2, StreakTypes
      <4>2. limit' = limit
        BY <1>1 DEF Receive
      <4>3. streak' = [streak EXCEPT ![c] = row]
        BY <3>1
      <4> HIDE DEF row, c
      <4> QED BY <3>2, <4>1, <4>2, <4>3 DEF TypeInv, ConfigType
    <3>4. TableType' /\ lastId' \in Nat /\ lastId' >= lastId
      <4> HIDE DEF c, f, s
      <4>1. s \in {"queued", "suppressed"} /\ (f = None \/ \E e \in Deliveries : f = FingerprintOf[e])
        BY DEF f, s
      <4> QED BY <3>1, <3>2, <4>1, InsertTypes
    <3>5. Holding'
      BY <1>1, <3>4, TypeKept DEF Receive
    <3> QED BY <2>1, <3>3, <3>4, <3>5 DEF TypeInv
  <2> QED BY <1>1, <2>2, <2>3 DEF Receive
<1>2. ASSUME NEW i \in Ids, Retry(i) PROVE TypeInv'
  <2>1. ConfigType' /\ MemoryType' /\ CardsType'
    BY <1>2, TypeKept DEF Retry
  <2>2. TableType' /\ lastId' \in Nat /\ lastId' >= lastId
    <3>1. /\ config[i] \in Configs \cup {None}
          /\ fingerprint[i] = None \/ \E e \in Deliveries : fingerprint[i] = FingerprintOf[e]
      BY DEF TypeInv, TableType
    <3>2. Insert(config[i], None, fingerprint[i], "queued")
      BY <1>2 DEF Retry
    <3> QED BY <3>1, <3>2, InsertTypes
  <2> QED BY <1>2, <2>1, <2>2, TypeKept DEF Retry, TypeInv
<1>3. ASSUME NEW c \in Configs, CooldownEnds(c) PROVE TypeInv'
  <2>1. ConfigType'
    BY <1>3 DEF CooldownEnds, TypeInv, ConfigType
  <2> QED BY <1>3, <2>1, TypeKept DEF CooldownEnds, TypeInv, taskVars, rowVars, TableType
<1>4. ASSUME NEW c \in Configs, DeleteAnalysisConfig(c) PROVE TypeInv'
  <2>1. ConfigType'
    BY <1>4 DEF DeleteAnalysisConfig, TypeInv, ConfigType, NoStreak
  <2>2. TableType' /\ lastId' = lastId /\ lastId \in Nat
    BY <1>4 DEF DeleteAnalysisConfig, TypeInv, TableType
  <2> QED BY <1>4, <2>1, <2>2, TypeKept DEF DeleteAnalysisConfig, TypeInv
<1>5. ASSUME NEW c \in Configs, NEW n \in Limits, UpdateAnalysisConfig(c, n) PROVE TypeInv'
  <2>1. ConfigType'
    BY <1>5, AnalysisAssumption DEF UpdateAnalysisConfig, TypeInv, ConfigType
  <2> QED BY <1>5, <2>1, TypeKept DEF UpdateAnalysisConfig, TypeInv, taskVars, rowVars, TableType
<1> QED BY <1>1, <1>2, <1>3, <1>4, <1>5

LEMMA CardTypes ==
  ASSUME CardsType, NEW i \in Ids, NEW s \in Ended,
         UNCHANGED cards \/ cards' = [cards EXCEPT ![i] = Append(@, s)]
  PROVE  CardsType'
<1>1. Append(cards[i], s) \in Seq(Ended)
  BY DEF CardsType
<1> QED BY <1>1 DEF CardsType

LEMMA TypeRequest ==
  ASSUME TypeInv, NEW k \in Requests, RequestStep(k) \/ \E i \in Ids : CancelRead(k, i)
  PROVE  TypeInv'
<1> USE DEF TypeInv
<1>1. ASSUME NEW i \in Ids, CancelRead(k, i) PROVE TypeInv'
  <2>1. i \in 1..lastId /\ status[i] \in Status
    BY <1>1, AnalysisAssumption DEF CancelRead, TableType, Ids, Active
  <2>2. MemoryType'
    BY <1>1, <2>1, AnalysisAssumption DEF CancelRead, MemoryType, Active, runnerVars, Ids
  <2>3. Holding'
    BY <1>1, <2>1 DEF CancelRead, Holding, Active, runnerVars, taskVars, rowVars, MemoryType
  <2> QED BY <1>1, <2>2, <2>3, TypeKept DEF CancelRead
<1>2. CASE CancelUpdate(k)
  <2>1. ktask[k] \in 1..lastId /\ ktask[k] \in Ids /\ kseen[k] \in {"queued", "running"}
    BY <1>2 DEF CancelUpdate, MemoryType, Holding, TableType, Ids
  <2>2. TableType'
    <3> DEFINE i == ktask[k]
               s == Requested(kseen[k])
    <3>1. s \in Status \ {"absent"}
      BY <2>1 DEF Requested, Status, Active, Final, Ended
    <3>2. \/ status' = [status EXCEPT ![i] = s] /\ asked' = [asked EXCEPT ![i] = TRUE] /\ status[i] = kseen[k]
          \/ UNCHANGED <<status, asked>>
      BY <1>2 DEF CancelUpdate, SetStatus
    <3>3. i \in Ids /\ i \in 1..lastId /\ UNCHANGED rowVars
      BY <1>2, <2>1 DEF CancelUpdate
    <3> HIDE DEF i, s
    <3>4. asked' \in [Ids -> BOOLEAN] /\ status' \in [Ids -> Status]
      BY <3>1, <3>2, <3>3 DEF TableType
    <3>5. \A j \in Ids : status'[j] = "absent" <=> j > lastId
      BY <3>1, <3>2, <3>3 DEF TableType
    <3> QED BY <3>3, <3>4, <3>5 DEF TableType, rowVars
  <2>3. MemoryType'
    BY <1>2 DEF CancelUpdate, MemoryType, runnerVars
  <2>4. Holding'
    BY <1>2 DEF CancelUpdate, Holding, runnerVars, rowVars, MemoryType
  <2> QED BY <1>2, <2>2, <2>3, <2>4, TypeKept DEF CancelUpdate
<1>3. CASE CancelReread(k)
  <2>1. ktask[k] \in Ids /\ status[ktask[k]] \in Status
    BY <1>3 DEF CancelReread, MemoryType, TableType
  <2>2. MemoryType'
    BY <1>3, <2>1 DEF CancelReread, MemoryType, runnerVars, Latest
  <2>3. Holding'
    BY <1>3 DEF CancelReread, Holding, runnerVars, taskVars, rowVars, MemoryType
  <2> QED BY <1>3, <2>2, <2>3, TypeKept DEF CancelReread
<1>4. CASE CancelFails(k)
  <2>2. MemoryType'
    BY <1>4, AnalysisAssumption DEF CancelFails, MemoryType, runnerVars, Answer
  <2>3. Holding'
    BY <1>4 DEF CancelFails, Holding, runnerVars, taskVars, rowVars, MemoryType, Answer
  <2> QED BY <1>4, <2>2, <2>3, TypeKept DEF CancelFails
<1>5. CASE CancelSignal(k)
  <2>1. rdone' \in [Runners -> BOOLEAN]
    BY <1>5, Zenon DEF CancelSignal, MemoryType
  <2>2. MemoryType'
    BY <1>5, <2>1 DEF CancelSignal, MemoryType, Answer
  <2>3. Holding'
    BY <1>5 DEF CancelSignal, Holding, taskVars, rowVars, MemoryType, Answer
  <2> QED BY <1>5, <2>2, <2>3, TypeKept DEF CancelSignal
<1>6. CASE CancelCard(k)
  <2>1. CardsType'
    <3>1. "canceled" \in Ended /\ ktask[k] \in Ids
      BY <1>6 DEF Ended, CancelCard, MemoryType
    <3>2. UNCHANGED cards \/ cards' = [cards EXCEPT ![ktask[k]] = Append(@, "canceled")]
      BY <1>6 DEF CancelCard, SendTerminal
    <3> QED BY <3>1, <3>2, CardTypes
  <2>2. MemoryType'
    BY <1>6 DEF CancelCard, MemoryType, Answer, runnerVars
  <2>3. Holding'
    BY <1>6 DEF CancelCard, Holding, taskVars, rowVars, MemoryType, Answer, runnerVars
  <2> QED BY <1>6, <2>1, <2>2, <2>3, TypeKept DEF CancelCard
<1> QED BY <1>1, <1>2, <1>3, <1>4, <1>5, <1>6 DEF RequestStep

LEMMA TypePool ==
  ASSUME TypeInv, ClaimLost \/ \E r \in Runners : ClaimAnalysisTask(r)
  PROVE  TypeInv'
<1> USE DEF TypeInv
<1>1. ASSUME NEW i \in Ids, Oldest(i), SetStatus(i, "running"), UNCHANGED <<asked, rowVars>>
      PROVE  TableType' /\ i \in 1..lastId
  BY <1>1 DEF Oldest, Claimable, TableType, SetStatus, Status, Active, rowVars, Ids
<1>2. CASE ClaimLost
  <2>1. TableType'
    BY <1>1, <1>2 DEF ClaimLost
  <2> QED BY <1>2, <2>1, TypeKept DEF ClaimLost, TableType, rowVars
<1>3. ASSUME NEW r \in Runners, ClaimAnalysisTask(r) PROVE TypeInv'
  <2>1. PICK i \in Ids : Oldest(i) /\ SetStatus(i, "running") /\ rtask' = [rtask EXCEPT ![r] = i]
    BY <1>3 DEF ClaimAnalysisTask
  <2>2. TableType' /\ i \in 1..lastId
    BY <1>1, <1>3, <2>1 DEF ClaimAnalysisTask
  <2>3. MemoryType'
    BY <1>3, <2>1, AnalysisAssumption DEF ClaimAnalysisTask, MemoryType, requestVars, Ids
  <2>4. Holding'
    BY <1>3, <2>1, <2>2 DEF ClaimAnalysisTask, MemoryType, requestVars, rowVars, Holding
  <2> QED BY <1>3, <2>2, <2>3, <2>4, TypeKept DEF ClaimAnalysisTask
<1> QED BY <1>2, <1>3

LEMMA TypeRunner ==
  ASSUME TypeInv, NEW r \in Runners, RunnerStep(r)
  PROVE  TypeInv'
<1> USE DEF TypeInv
<1>0. rpc[r] # "free" => rtask[r] \in Ids
  BY DEF MemoryType
<1>1. CASE Register(r)
  <2>1. MemoryType' /\ Holding'
    BY <1>1 DEF Register, MemoryType, Holding, requestVars, taskVars, rowVars
  <2> QED BY <1>1, <2>1, TypeKept DEF Register
<1>2. CASE StartProcess(r)
  <2>1. rdone' \in [Runners -> BOOLEAN]
    BY <1>2, Zenon DEF StartProcess, MemoryType, AskedMeanwhile
  <2>2. \/ rpc' = [rpc EXCEPT ![r] = "work"] /\ UNCHANGED rout
        \/ /\ rpc' = [rpc EXCEPT ![r] = "finish"]
           /\ \E s \in {"canceled", "failed"} : rout' = [rout EXCEPT ![r] = s]
    BY <1>2 DEF StartProcess
  <2>3. rpc[r] = "check" /\ UNCHANGED <<taskVars, configVars, cards, phase, rtask, requestVars>>
    BY <1>2 DEF StartProcess
  <2>4. MemoryType' /\ Holding'
    BY <2>1, <2>2, <2>3 DEF MemoryType, Holding, requestVars, taskVars, rowVars, Ended
  <2> QED BY <2>3, <2>4, TypeKept
<1>3. CASE WorkFails(r)
  <2>1. \E s \in {"canceled", "failed"} : rout' = [rout EXCEPT ![r] = s]
    BY <1>3 DEF WorkFails
  <2>2. MemoryType' /\ Holding'
    BY <1>3, <2>1 DEF WorkFails, MemoryType, Holding, requestVars, taskVars, rowVars, Ended
  <2> QED BY <1>3, <2>2, TypeKept DEF WorkFails
<1>4. CASE WorkSucceeds(r)
  <2>1. MemoryType' /\ Holding'
    BY <1>4 DEF WorkSucceeds, MemoryType, Holding, requestVars, taskVars, rowVars
  <2> QED BY <1>4, <2>1, TypeKept DEF WorkSucceeds
<1>5. CASE Publish(r)
  <2>1. MemoryType' /\ Holding'
    BY <1>5 DEF Publish, MemoryType, Holding, requestVars, taskVars, rowVars, Ended
  <2>2. CardsType'
    <3>1. "succeeded" \in Ended /\ rtask[r] \in Ids
      BY <1>0, <1>5 DEF Ended, Publish
    <3>2. UNCHANGED cards \/ cards' = [cards EXCEPT ![rtask[r]] = Append(@, "succeeded")]
      BY <1>5 DEF Publish
    <3> QED BY <3>1, <3>2, CardTypes
  <2> QED BY <1>5, <2>1, <2>2, TypeKept DEF Publish
<1>6. CASE FinishAnalysisTask(r)
  <2>1. rtask[r] \in 1..lastId /\ rtask[r] \in Ids /\ rout[r] \in Ended
    BY <1>0, <1>6, AnalysisAssumption DEF FinishAnalysisTask, Holding, Ids
  <2>2. TableType'
    BY <1>6, <2>1 DEF FinishAnalysisTask, TableType, SetStatus, Status, Active, Final, Ended, rowVars, Ids
  <2>3. MemoryType'
    <3>1. CASE rpc' = [rpc EXCEPT ![r] = "notify"] /\ UNCHANGED <<rtask, rdone, rout>>
      BY <1>6, <3>1 DEF FinishAnalysisTask, MemoryType, requestVars
    <3>2. CASE Free(r)
      BY <1>6, <3>2 DEF FinishAnalysisTask, Free, MemoryType, requestVars
    <3> QED BY <1>6, <3>1, <3>2 DEF FinishAnalysisTask
  <2>4. Holding'
    BY <1>6, <2>1 DEF FinishAnalysisTask, Free, MemoryType, requestVars, Holding, rowVars
  <2> QED BY <1>6, <2>2, <2>3, <2>4, TypeKept DEF FinishAnalysisTask
<1>7. CASE FinishFails(r)
  <2>1. MemoryType' /\ Holding'
    BY <1>7 DEF FinishFails, Free, MemoryType, Holding, requestVars, taskVars, rowVars
  <2> QED BY <1>7, <2>1, TypeKept DEF FinishFails
<1>8. CASE NotifyTerminal(r)
  <2>1. MemoryType' /\ Holding'
    BY <1>8 DEF NotifyTerminal, Free, MemoryType, Holding, requestVars, taskVars, rowVars
  <2>2. CardsType'
    <3>1. rout[r] \in Ended /\ rtask[r] \in Ids
      BY <1>0, <1>8 DEF NotifyTerminal, Holding
    <3>2. UNCHANGED cards \/ cards' = [cards EXCEPT ![rtask[r]] = Append(@, rout[r])]
      BY <1>8 DEF NotifyTerminal, SendTerminal
    <3> QED BY <3>1, <3>2, CardTypes
  <2> QED BY <1>8, <2>1, <2>2, TypeKept DEF NotifyTerminal
<1> QED BY <1>1, <1>2, <1>3, <1>4, <1>5, <1>6, <1>7, <1>8 DEF RunnerStep

LEMMA TypeProcess ==
  ASSUME TypeInv,
         Crash \/ Terminate \/ Exit \/ RecoverRequested \/ RecoverRunning \/ RecoverFails
  PROVE  TypeInv'
<1> USE DEF TypeInv
<1>1. CASE MemoryLost
  <2>1. MemoryType' /\ Holding'
    BY <1>1 DEF MemoryLost, MemoryType, Holding
  <2> QED BY <1>1, <2>1, TypeKept DEF MemoryLost
<1>2. CASE Terminate
  <2>1. MemoryType' /\ Holding'
    BY <1>2 DEF Terminate, MemoryType, Holding, requestVars, taskVars, rowVars
  <2> QED BY <1>2, <2>1, TypeKept DEF Terminate
<1>3. CASE RecoverRequested \/ RecoverRunning
  <2>1. TableType' /\ lastId' = lastId /\ lastId \in Nat
    BY <1>3 DEF RecoverRequested, RecoverRunning, Requeues, TableType, rowVars, Status, Active, Final, Ended
  <2>2. MemoryType'
    BY <1>3 DEF RecoverRequested, RecoverRunning, MemoryType, runnerVars, requestVars
  <2> QED BY <1>3, <2>1, <2>2, TypeKept DEF RecoverRequested, RecoverRunning
<1>4. CASE RecoverFails
  <2>1. MemoryType' /\ Holding'
    BY <1>4 DEF RecoverFails, MemoryType, Holding, runnerVars, requestVars, taskVars, rowVars
  <2> QED BY <1>4, <2>1, TypeKept DEF RecoverFails
<1> QED BY <1>1, <1>2, <1>3, <1>4 DEF Crash, Exit

LEMMA TypeNext == TypeInv /\ [Next]_vars => TypeInv'
<1> SUFFICES ASSUME TypeInv, [Next]_vars PROVE TypeInv'
  OBVIOUS
<1>1. CASE UNCHANGED vars
  BY <1>1, TypeKept DEF vars, TypeInv, TableType, taskVars, rowVars
<1> QED BY <1>1, TypeConsole, TypeRequest, TypePool, TypeRunner, TypeProcess DEF Next

\* Every variable keeps its type: TypeOK of AnalysisQueue.
THEOREM TypeCorrect == Spec => []TypeOK
<1>1. TypeInv => TypeOK
  BY DEF TypeInv, TypeOK, CardsType
<1> QED BY <1>1, TypeInit, TypeNext, PTL DEF Spec

-----------------------------------------------------------------------------
(* Refinement of AnalysisLifecycle: every step moves every row as it may.  *)

RowMoves(i) ==
  \/ status'[i] = status[i] /\ asked'[i] = asked[i]
  \/ Lifecycle!Moves(status[i], status'[i]) /\ asked'[i] = asked[i]
  \/ Lifecycle!Canceled(status[i], status'[i]) /\ asked'[i] = TRUE

\* A step that leaves the cancellations alone and moves only row j.
LEMMA OneRowMoves ==
  ASSUME TypeInv, NEW j \in Ids, NEW s, UNCHANGED asked, status' = [status EXCEPT ![j] = s],
         s = status[j] \/ Lifecycle!Moves(status[j], s)
  PROVE  \A i \in Ids : RowMoves(i)
<1>1. status \in [Ids -> Status]
  BY DEF TypeInv, TableType
<1>2. \A i \in Ids : status'[i] = status[i] \/ Lifecycle!Moves(status[i], status'[i])
  BY <1>1
<1> QED BY <1>2 DEF RowMoves

LEMMA InsertMoves ==
  ASSUME TypeInv, NEW c, NEW d, NEW f, NEW s \in {"queued", "suppressed"}, Insert(c, d, f, s)
  PROVE  \A i \in Ids : RowMoves(i)
<1>1. lastId + 1 \in Ids /\ status[lastId + 1] = "absent"
  BY AnalysisAssumption DEF Insert, TypeInv, TableType, Ids
<1>2. Lifecycle!Moves(status[lastId + 1], s)
  BY <1>1 DEF Lifecycle!Moves
<1>3. status' = [status EXCEPT ![lastId + 1] = s] /\ UNCHANGED asked
  BY DEF Insert
<1> QED BY <1>1, <1>2, <1>3, OneRowMoves

LEMMA RowsMove ==
  ASSUME TypeInv, Next
  PROVE  \A i \in Ids : RowMoves(i)
<1>0. ASSUME UNCHANGED <<status, asked>> PROVE \A i \in Ids : RowMoves(i)
  BY <1>0 DEF RowMoves
<1>1. ASSUME NEW d \in Deliveries, Receive(d) PROVE \A i \in Ids : RowMoves(i)
  <2>1. CASE UNCHANGED taskVars
    BY <1>0, <2>1 DEF taskVars
  <2>2. CASE EnqueueAnalysisTask(d) /\ ~UNCHANGED taskVars
    <3>1. \E s \in {"queued", "suppressed"} : Insert(ConfigOf[d], d, FingerprintOf[d], s)
      BY <2>2 DEF EnqueueAnalysisTask
    <3> QED BY <3>1, InsertMoves
  <2> QED BY <1>1, <2>1, <2>2 DEF Receive
<1>2. ASSUME NEW i \in Ids, Retry(i) PROVE \A j \in Ids : RowMoves(j)
  BY <1>2, InsertMoves DEF Retry
<1>3. ASSUME NEW k \in Requests, CancelUpdate(k) PROVE \A i \in Ids : RowMoves(i)
  <2> DEFINE j == ktask[k]
  <2>1. j \in Ids /\ kseen[k] \in {"queued", "running"}
    BY <1>3 DEF CancelUpdate, TypeInv, MemoryType, Holding
  <2>2. CASE status[j] = kseen[k]
    <3>1. /\ status' = [status EXCEPT ![j] = Requested(kseen[k])]
          /\ asked' = [asked EXCEPT ![j] = TRUE]
      BY <1>3, <2>2 DEF CancelUpdate, SetStatus
    <3>2. status \in [Ids -> Status] /\ asked \in [Ids -> BOOLEAN]
      BY DEF TypeInv, TableType
    <3>3. Lifecycle!Canceled(status[j], status'[j]) /\ asked'[j] = TRUE
      BY <2>1, <2>2, <3>1, <3>2 DEF Requested, Lifecycle!Canceled
    <3>4. \A i \in Ids \ {j} : status'[i] = status[i] /\ asked'[i] = asked[i]
      BY <3>1, <3>2, Zenon
    <3> QED BY <3>3, <3>4 DEF RowMoves
  <2>3. CASE status[j] # kseen[k]
    BY <1>0, <1>3, <2>3 DEF CancelUpdate
  <2> QED BY <2>2, <2>3
<1>4. ASSUME NEW i \in Ids, Oldest(i), SetStatus(i, "running"), UNCHANGED asked
      PROVE  \A j \in Ids : RowMoves(j)
  <2>1. Lifecycle!Moves(status[i], "running")
    BY <1>4 DEF Oldest, Claimable, Lifecycle!Moves
  <2> QED BY <1>4, <2>1, OneRowMoves DEF SetStatus
<1>5. ASSUME NEW r \in Runners, FinishAnalysisTask(r) PROVE \A i \in Ids : RowMoves(i)
  <2>1. rtask[r] \in Ids /\ rout[r] \in Ended
    BY <1>5 DEF FinishAnalysisTask, TypeInv, MemoryType, Holding
  <2>2. CASE status[rtask[r]] \in Active
    <3>1. Lifecycle!Moves(status[rtask[r]], rout[r])
      BY <2>1, <2>2 DEF Active, Ended, Lifecycle!Moves
    <3>2. status' = [status EXCEPT ![rtask[r]] = rout[r]] /\ UNCHANGED asked
      BY <1>5, <2>2 DEF FinishAnalysisTask, SetStatus
    <3> QED BY <2>1, <3>1, <3>2, OneRowMoves
  <2>3. CASE status[rtask[r]] \notin Active
    BY <1>0, <1>5, <2>3 DEF FinishAnalysisTask
  <2> QED BY <2>2, <2>3
<1>6. CASE RecoverRequested \/ RecoverRunning
  <2>1. \A i \in Ids : status'[i] = status[i] \/ Lifecycle!Moves(status[i], status'[i])
    BY <1>6 DEF RecoverRequested, RecoverRunning, Requeues, Lifecycle!Moves
  <2> QED BY <1>6, <2>1 DEF RecoverRequested, RecoverRunning, RowMoves
<1>7. ASSUME NEW k \in Requests,
             \/ \E i \in Ids : CancelRead(k, i)
             \/ CancelReread(k) \/ CancelFails(k) \/ CancelSignal(k) \/ CancelCard(k)
      PROVE  \A i \in Ids : RowMoves(i)
  BY <1>0, <1>7 DEF CancelRead, CancelReread, CancelFails, CancelSignal, CancelCard, taskVars
<1>8. ASSUME NEW r \in Runners,
             \/ Register(r) \/ StartProcess(r) \/ WorkFails(r) \/ WorkSucceeds(r)
             \/ Publish(r) \/ FinishFails(r) \/ NotifyTerminal(r)
      PROVE  \A i \in Ids : RowMoves(i)
  BY <1>0, <1>8 DEF Register, StartProcess, WorkFails, WorkSucceeds, Publish, FinishFails, NotifyTerminal, taskVars
<1>9. CASE Crash \/ Terminate \/ Exit \/ RecoverFails
  BY <1>0, <1>9 DEF Crash, Terminate, Exit, MemoryLost, RecoverFails, taskVars
<1>10. ASSUME NEW c \in Configs,
              CooldownEnds(c) \/ DeleteAnalysisConfig(c) \/ \E n \in Limits : UpdateAnalysisConfig(c, n)
       PROVE  \A i \in Ids : RowMoves(i)
  BY <1>0, <1>10 DEF CooldownEnds, DeleteAnalysisConfig, UpdateAnalysisConfig, taskVars
<1> QED
  BY <1>1, <1>2, <1>3, <1>4, <1>5, <1>6, <1>7, <1>8, <1>9, <1>10
     DEF Next, RequestStep, RunnerStep, ClaimAnalysisTask, ClaimLost

\* A task asked to stop never waits or starts again and an ended task stays so,
\* through restarts and races: the table implements AnalysisLifecycle.
THEOREM ImplementsLifecycle == Spec => LifecycleSpec
<1>1. Init => Lifecycle!Init
  BY DEF Init, Lifecycle!Init
<1>2. TypeInv /\ TypeInv' /\ [Next]_vars => [Lifecycle!Next]_(Lifecycle!lifecycle)
  <2> SUFFICES ASSUME TypeInv, TypeInv', [Next]_vars PROVE [Lifecycle!Next]_(Lifecycle!lifecycle)
    OBVIOUS
  <2>1. CASE UNCHANGED vars
    BY <2>1 DEF vars, taskVars, Lifecycle!lifecycle
  <2>2. CASE Next
    <3>1. status' = [i \in Ids |-> status'[i]] /\ asked' = [i \in Ids |-> asked'[i]]
      BY DEF TypeInv, TableType
    <3> QED BY <2>2, <3>1, RowsMove, Zenon DEF Lifecycle!Next, RowMoves
  <2> QED BY <2>1, <2>2
<1> QED BY <1>1, <1>2, TypeInit, TypeNext, PTL DEF Spec, LifecycleSpec, Lifecycle!Spec

\* In the lifecycle, and so in the table, a task whose cancellation is recorded
\* is being stopped or has ended; it does not wait, run or start again.
THEOREM AskedNeverRestarts == Spec => []Lifecycle!AskedStops
<1>1. Lifecycle!Init => Lifecycle!AskedStops
  BY DEF Lifecycle!Init, Lifecycle!AskedStops
<1>2. Lifecycle!AskedStops /\ [Lifecycle!Next]_(Lifecycle!lifecycle) => Lifecycle!AskedStops'
  <2> SUFFICES ASSUME Lifecycle!AskedStops, [Lifecycle!Next]_(Lifecycle!lifecycle), NEW i \in Ids, asked'[i]
               PROVE  status'[i] \notin {"absent", "queued", "running", "suppressed"}
    BY DEF Lifecycle!AskedStops
  <2>1. CASE UNCHANGED Lifecycle!lifecycle
    BY <2>1 DEF Lifecycle!lifecycle, Lifecycle!AskedStops
  <2>2. CASE Lifecycle!Next
    <3>1. CASE status'[i] = status[i] /\ asked'[i] = asked[i]
      BY <3>1, Zenon DEF Lifecycle!AskedStops
    <3>2. CASE Lifecycle!Moves(status[i], status'[i]) /\ asked'[i] = asked[i]
      <4>1. status[i] \notin {"absent", "queued", "running", "suppressed"}
        BY <3>2, Zenon DEF Lifecycle!AskedStops
      <4> QED BY <3>2, <4>1 DEF Lifecycle!Moves
    <3>3. CASE Lifecycle!Canceled(status[i], status'[i])
      BY <3>3 DEF Lifecycle!Canceled
    <3> QED BY <2>2, <3>1, <3>2, <3>3, Zenon DEF Lifecycle!Next
  <2> QED BY <2>1, <2>2
<1> QED BY <1>1, <1>2, ImplementsLifecycle, PTL DEF LifecycleSpec, Lifecycle!Spec

-----------------------------------------------------------------------------
(* The throttle counts.                                                    *)

Fingerprints == {FingerprintOf[d] : d \in Deliveries} \cup {None}
StreakRow == [fingerprint : Fingerprints, count : Nat, until : {"none", "ahead", "over"}]

\* The alerts of a configuration; the last n of a set of tasks.
Alerts(c) == {j \in Ids : delivery[j] # None /\ config[j] = c}
LastOf(S, n) == {j \in S : Cardinality({m \in S : m >= j}) <= n}

\* Below, print and stat are the columns `fingerprint` and `status` of the table.
Same(S, print, f) == \A j \in S : print[j] = f
Spared(S, stat) == \A j \in S : stat[j] # "suppressed"

\* What the row of a configuration with the alerts A says of them: at least
\* its last `count` alerts have its fingerprint, a cooldown was started by an
\* alert that was suppressed, and until then the row counts every repetition.
CountsAlerts(row, c, A, print, stat) ==
  /\ row.count <= Cardinality(A)
  /\ Same(LastOf(A, row.count), print, row.fingerprint)
  /\ row.until # "none" => Cools[c] /\ row.count >= Threshold[c] /\ ~Spared(A, stat)
  /\ (Cools[c] => Spared(A, stat)) =>
       \A n \in 1..Cardinality(A), f \in Fingerprints :
         Same(LastOf(A, n), print, f) => row.fingerprint = f /\ n <= row.count

\* The last n of A are n.
Counted(A) == \A n \in 0..Cardinality(A) : Cardinality(LastOf(A, n)) = n

\* An alert with the status s and the fingerprint f, after those of B, was
\* treated as the throttle of c should.
Treated(s, f, c, B, print, stat) ==
  LET repeats == /\ Cardinality(LastOf(B, Threshold[c])) = Threshold[c]
                 /\ Same(LastOf(B, Threshold[c]), print, f)
  IN /\ s = "suppressed" => repeats
     /\ repeats /\ (Cools[c] => Spared(B, stat)) => s = "suppressed"

ThrottleType ==
  /\ streak \in [Configs -> StreakRow]
  /\ fingerprint \in [Ids -> Fingerprints]
  /\ \A i \in Ids : i > lastId => delivery[i] = None

ThrottleInv ==
  /\ ThrottleType
  /\ \A c \in Configs : Counted(Alerts(c)) /\ CountsAlerts(streak[c], c, Alerts(c), fingerprint, status)
  /\ \A i \in Ids : config[i] # None /\ delivery[i] # None =>
       Treated(status[i], fingerprint[i], config[i], Before(i), fingerprint, status)

LEMMA LastOfFacts ==
  ASSUME NEW S \in SUBSET Ids
  PROVE  /\ IsFiniteSet(S) /\ Cardinality(S) \in Nat
         /\ LastOf(S, 0) = {}
         /\ \A n \in Nat : Cardinality(LastOf(S, n)) \in Nat /\ Cardinality(LastOf(S, n)) <= Cardinality(S)
         /\ \A n, k \in Nat : n <= k => LastOf(S, n) \subseteq LastOf(S, k)
<1>1. \A T \in SUBSET S : IsFiniteSet(T) /\ Cardinality(T) \in Nat /\ Cardinality(T) <= Cardinality(S)
  <2>1. IsFiniteSet(Ids)
    BY FS_Interval, AnalysisAssumption DEF Ids
  <2>2. IsFiniteSet(S)
    BY <2>1, FS_Subset
  <2> QED BY <2>2, FS_Subset, FS_CardinalityType
<1>2. \A j \in S : {m \in S : m >= j} # {} /\ {m \in S : m >= j} \in SUBSET S
  BY DEF Ids
<1>3. \A j \in S : Cardinality({m \in S : m >= j}) \in Nat \ {0}
  BY <1>1, <1>2, FS_EmptySet
<1>4. LastOf(S, 0) = {}
  BY <1>3 DEF LastOf
<1>5. \A n \in Nat : LastOf(S, n) \in SUBSET S
  BY DEF LastOf
<1>6. \A n, k \in Nat : n <= k => LastOf(S, n) \subseteq LastOf(S, k)
  BY <1>3 DEF LastOf
<1> QED BY <1>1, <1>4, <1>5, <1>6

\* A new alert is the last one.
LEMMA LastOfGrows ==
  ASSUME NEW S \in SUBSET Ids, NEW i \in Ids, \A j \in S : j < i
  PROVE  /\ i \notin S
         /\ Cardinality(S \cup {i}) = Cardinality(S) + 1
         /\ \A n, k \in Nat : k = n + 1 => LastOf(S \cup {i}, k) = LastOf(S, n) \cup {i}
<1>1. i \notin S /\ IsFiniteSet(S) /\ i >= i /\ \A j \in S : ~(j >= i) /\ i >= j
  BY LastOfFacts DEF Ids
<1>2. Cardinality(S \cup {i}) = Cardinality(S) + 1
  BY <1>1, FS_AddElement
<1>3. {m \in S \cup {i} : m >= i} = {i} /\ Cardinality({i}) = 1
  BY <1>1, FS_Singleton
<1>4. ASSUME NEW j \in S
      PROVE  /\ Cardinality({m \in S \cup {i} : m >= j}) = Cardinality({m \in S : m >= j}) + 1
             /\ Cardinality({m \in S : m >= j}) \in Nat
  <2> DEFINE T == {m \in S : m >= j}
  <2>1. {m \in S \cup {i} : m >= j} = T \cup {i}
    BY <1>1
  <2>2. IsFiniteSet(T) /\ i \notin T
    BY <1>1, FS_Subset
  <2> HIDE DEF T
  <2>3. Cardinality(T \cup {i}) = Cardinality(T) + 1 /\ Cardinality(T) \in Nat
    BY <2>2, FS_AddElement, FS_CardinalityType
  <2> QED BY <2>1, <2>3 DEF T
<1>5. ASSUME NEW n \in Nat, NEW k \in Nat, k = n + 1 PROVE LastOf(S \cup {i}, k) = LastOf(S, n) \cup {i}
  <2>1. 1 <= k
    BY <1>5
  <2>2. \A j \in S : j \in LastOf(S \cup {i}, k) <=> j \in LastOf(S, n)
    BY <1>4, <1>5 DEF LastOf
  <2>3. i \in LastOf(S \cup {i}, k)
    BY <1>3, <2>1 DEF LastOf
  <2>4. LastOf(S \cup {i}, k) \subseteq S \cup {i} /\ LastOf(S, n) \subseteq S
    BY DEF LastOf
  <2> QED BY <2>2, <2>3, <2>4
<1> QED BY <1>1, <1>2, <1>5

LEMMA CountedGrows ==
  ASSUME NEW S \in SUBSET Ids, NEW i \in Ids, \A j \in S : j < i, Counted(S)
  PROVE  Counted(S \cup {i})
<1>0. \A n, k \in Nat : k = n + 1 => LastOf(S \cup {i}, k) = LastOf(S, n) \cup {i}
  BY LastOfGrows
<1>1. S \cup {i} \in SUBSET Ids /\ Cardinality(S) \in Nat
  BY LastOfFacts
<1>2. Cardinality(LastOf(S \cup {i}, 0)) = 0
  BY <1>1, LastOfFacts, FS_EmptySet
<1>3. ASSUME NEW n \in 0..Cardinality(S), NEW k \in Nat, k = n + 1
      PROVE  Cardinality(LastOf(S \cup {i}, k)) = k
  <2>1. LastOf(S, n) \in SUBSET S
    BY DEF LastOf
  <2>2. IsFiniteSet(LastOf(S, n)) /\ i \notin LastOf(S, n)
    BY <2>1, LastOfFacts, LastOfGrows, FS_Subset
  <2>3. Cardinality(LastOf(S, n) \cup {i}) = k
    BY <1>3, <2>2, FS_AddElement DEF Counted
  <2>4. n \in Nat
    BY <1>1
  <2>5. LastOf(S \cup {i}, k) = LastOf(S, n) \cup {i}
    BY <1>0, <1>3, <2>4, Zenon
  <2> QED BY <2>3, <2>5
<1>4. ASSUME NEW n \in 1..Cardinality(S) + 1 PROVE Cardinality(LastOf(S \cup {i}, n)) = n
  <2>1. n - 1 \in 0..Cardinality(S) /\ n = (n - 1) + 1 /\ n \in Nat
    BY <1>1
  <2> QED BY <1>3, <2>1
<1>5. Cardinality(S \cup {i}) = Cardinality(S) + 1
  BY LastOfGrows
<1> QED BY <1>1, <1>2, <1>4, <1>5 DEF Counted

\* What was said stays true while the fingerprints and the suppressions stay;
\* a cooldown may end.
LEMMA CountsStable ==
  ASSUME NEW c \in Configs, NEW A \in SUBSET Ids, NEW row, NEW print, NEW stat, NEW print2, NEW stat2,
         NEW row2, row2.fingerprint = row.fingerprint, row2.count = row.count,
         row2.until = "none" <=> row.until = "none",
         \A j \in A : print2[j] = print[j],
         \A j \in A : stat2[j] = "suppressed" <=> stat[j] = "suppressed",
         CountsAlerts(row, c, A, print, stat)
  PROVE  CountsAlerts(row2, c, A, print2, stat2)
<1>1. \A n, f : LastOf(A, n) \subseteq A /\ (Same(LastOf(A, n), print2, f) <=> Same(LastOf(A, n), print, f))
  BY DEF LastOf, Same
<1>2. Spared(A, stat2) <=> Spared(A, stat)
  BY DEF Spared
<1> QED BY <1>1, <1>2 DEF CountsAlerts

LEMMA TreatedStable ==
  ASSUME NEW c \in Configs, NEW B \in SUBSET Ids, NEW f, NEW s, NEW s2, s2 = "suppressed" <=> s = "suppressed",
         NEW print, NEW stat, NEW print2, NEW stat2,
         \A j \in B : print2[j] = print[j],
         \A j \in B : stat2[j] = "suppressed" <=> stat[j] = "suppressed",
         Treated(s, f, c, B, print, stat)
  PROVE  Treated(s2, f, c, B, print2, stat2)
<1>1. \A n : Same(LastOf(B, n), print2, f) <=> Same(LastOf(B, n), print, f)
  BY DEF LastOf, Same
<1>2. Spared(B, stat2) <=> Spared(B, stat)
  BY DEF Spared
<1> QED BY <1>1, <1>2 DEF Treated

\* A row that counts its alerts treats the next one as it should.
LEMMA NextTreated ==
  ASSUME NEW c \in Configs, NEW A \in SUBSET Ids, NEW row \in StreakRow, NEW f \in Fingerprints, NEW print, NEW stat,
         Counted(A), CountsAlerts(row, c, A, print, stat)
  PROVE  Treated(IF Suppresses(row, f, Threshold[c]) THEN "suppressed" ELSE "queued", f, c, A, print, stat)
<1> DEFINE t == Threshold[c]
<1>1. t \in Nat \ {0} /\ row.count \in Nat /\ Cardinality(A) \in Nat
  BY AnalysisAssumption, LastOfFacts DEF StreakRow
<1> DEFINE repeats == Cardinality(LastOf(A, t)) = t /\ Same(LastOf(A, t), print, f)
<1>2. ASSUME Suppresses(row, f, t) PROVE repeats
  <2>1. row.fingerprint = f /\ t <= row.count
    BY <1>1, <1>2 DEF Suppresses, CountsAlerts
  <2>2. LastOf(A, t) \subseteq LastOf(A, row.count)
    BY <1>1, <2>1, LastOfFacts
  <2>3. t \in 0..Cardinality(A)
    BY <1>1, <2>1 DEF CountsAlerts
  <2> QED BY <2>1, <2>2, <2>3 DEF CountsAlerts, Counted, Same
<1>3. ASSUME repeats, Cools[c] => Spared(A, stat) PROVE Suppresses(row, f, t)
  <2>1. t \in 1..Cardinality(A)
    BY <1>1, <1>3, LastOfFacts
  <2>2. row.fingerprint = f /\ t <= row.count
    BY <1>3, <2>1 DEF CountsAlerts
  <2>3. row.until = "none"
    BY <1>3 DEF CountsAlerts
  <2> QED BY <1>1, <2>2, <2>3 DEF Suppresses
<1> QED BY <1>2, <1>3 DEF Treated

\* And the next row counts it.
LEMMA NextCounts ==
  ASSUME NEW c \in Configs, NEW A \in SUBSET Ids, NEW i \in Ids, \A j \in A : j < i,
         NEW row \in StreakRow, NEW f \in Fingerprints,
         NEW print, NEW stat, NEW print2, NEW stat2,
         CountsAlerts(row, c, A, print, stat),
         \A j \in A : print2[j] = print[j],
         \A j \in A : stat2[j] = "suppressed" <=> stat[j] = "suppressed",
         print2[i] = f,
         stat2[i] = IF Suppresses(row, f, Threshold[c]) THEN "suppressed" ELSE "queued"
  PROVE  CountsAlerts(NextStreak(row, f, Threshold[c], Cools[c]), c, A \cup {i}, print2, stat2)
<1> DEFINE next == NextStreak(row, f, Threshold[c], Cools[c])
           B == A \cup {i}
<1> SUFFICES CountsAlerts(next, c, B, print2, stat2)
  OBVIOUS
<1>1. /\ Threshold[c] \in Nat \ {0} /\ Cools[c] \in BOOLEAN
      /\ row.count \in Nat /\ row.until \in {"none", "ahead", "over"}
      /\ Cardinality(A) \in Nat /\ Cardinality(B) = Cardinality(A) + 1
  BY AnalysisAssumption, LastOfFacts, LastOfGrows DEF StreakRow
<1>2. \A n, k \in Nat : k = n + 1 => LastOf(B, k) = LastOf(A, n) \cup {i} /\ LastOf(A, n) \subseteq A
  <2>1. \A n : LastOf(A, n) \subseteq A
    BY DEF LastOf
  <2> QED BY <2>1, LastOfGrows
<1>3. Spared(B, stat2) => Spared(A, stat) /\ ~Suppresses(row, f, Threshold[c])
  BY DEF Spared
<1>4. ~Spared(A, stat) \/ Suppresses(row, f, Threshold[c]) => ~Spared(B, stat2)
  BY <1>3
\* A run of equal fingerprints among B that is not the new alert alone.
<1>5. ASSUME NEW n \in 1..Cardinality(B), NEW g \in Fingerprints, Same(LastOf(B, n), print2, g),
             Cools[c] => Spared(B, stat2)
      PROVE  g = f /\ (n = 1 \/ (row.fingerprint = f /\ n - 1 <= row.count /\ row.until = "none"))
  <2>1. n - 1 \in Nat /\ n - 1 \in 0..Cardinality(A) /\ n = (n - 1) + 1 /\ n \in Nat
    BY <1>1
  <2>2. LastOf(B, n) = LastOf(A, n - 1) \cup {i} /\ LastOf(A, n - 1) \subseteq A
    BY <1>2, <2>1
  <2>3. g = f /\ Same(LastOf(A, n - 1), print, f)
    BY <1>5, <2>2 DEF Same
  <2>4. Cools[c] => Spared(A, stat)
    BY <1>3, <1>5
  <2>5. n # 1 => n - 1 \in 1..Cardinality(A)
    BY <1>1, <2>1
  <2>6. row.until = "none"
    BY <1>1, <2>4 DEF CountsAlerts
  <2> QED BY <2>3, <2>4, <2>5, <2>6 DEF CountsAlerts
<1>6. row.fingerprint # f \/ row.until = "over" => next.fingerprint = f /\ next.count = 1 /\ next.until = "none"
  BY DEF NextStreak, First
<1>7. row.fingerprint = f /\ row.until # "over" =>
        /\ next.fingerprint = f /\ next.count = row.count + 1
        /\ next.until = IF Cools[c] /\ Suppresses(row, f, Threshold[c]) THEN "ahead" ELSE row.until
  BY DEF NextStreak, StreakRow
<1> HIDE DEF next, B
<1>8. CASE row.fingerprint # f \/ row.until = "over"
  <2>1. next.fingerprint = f /\ next.count = 1 /\ next.until = "none"
    BY <1>6, <1>8
  <2>2. LastOf(B, 1) = {i}
    <3>1. LastOf(B, 1) = LastOf(A, 0) \cup {i} /\ LastOf(A, 0) = {}
      BY <1>2, LastOfFacts
    <3> QED BY <3>1
  <2>3. Same(LastOf(B, 1), print2, f)
    BY <2>2 DEF Same
  <2>4. ASSUME NEW n \in 1..Cardinality(B), NEW g \in Fingerprints, Same(LastOf(B, n), print2, g),
               Cools[c] => Spared(B, stat2)
        PROVE  next.fingerprint = g /\ n <= next.count
    BY <1>5, <1>8, <2>1, <2>4
  <2> QED BY <1>1, <2>1, <2>3, <2>4 DEF CountsAlerts
<1>9. CASE row.fingerprint = f /\ row.until # "over"
  <2>1. /\ next.fingerprint = f /\ next.count = row.count + 1
        /\ next.until = IF Cools[c] /\ Suppresses(row, f, Threshold[c]) THEN "ahead" ELSE row.until
    BY <1>7, <1>9
  <2>2. LastOf(B, row.count + 1) = LastOf(A, row.count) \cup {i} /\ LastOf(A, row.count) \subseteq A
    BY <1>1, <1>2
  <2>3. Same(LastOf(B, row.count + 1), print2, f)
    BY <1>9, <2>2 DEF Same, CountsAlerts
  <2>4. next.until # "none" => Cools[c] /\ row.count >= Threshold[c] /\ ~Spared(B, stat2)
    <3>1. CASE row.until # "none"
      BY <1>4, <3>1 DEF CountsAlerts
    <3>2. CASE row.until = "none"
      BY <1>4, <2>1, <3>2 DEF Suppresses
    <3> QED BY <3>1, <3>2
  <2>5. ASSUME NEW n \in 1..Cardinality(B), NEW g \in Fingerprints, Same(LastOf(B, n), print2, g),
               Cools[c] => Spared(B, stat2)
        PROVE  next.fingerprint = g /\ n <= next.count
    BY <1>1, <1>5, <2>1, <2>5
  <2> QED BY <1>1, <2>1, <2>3, <2>4, <2>5 DEF CountsAlerts
<1> QED BY <1>8, <1>9

LEMMA SuppressionKept ==
  ASSUME TypeInv, Next
  PROVE  \A i \in 1..lastId : status'[i] = "suppressed" <=> status[i] = "suppressed"
<1>1. \A i \in 1..lastId : i \in Ids /\ status[i] # "absent"
  BY AnalysisAssumption DEF TypeInv, TableType, Ids
<1> QED BY <1>1, RowsMove DEF RowMoves, Lifecycle!Moves, Lifecycle!Canceled

LEMMA AlertsInUse ==
  ASSUME TypeInv, ThrottleType
  PROVE  /\ \A c \in Configs : Alerts(c) \in SUBSET Ids /\ \A j \in Alerts(c) : j \in 1..lastId
         /\ \A i \in Ids : Before(i) \in SUBSET Ids /\ \A j \in Before(i) : j \in 1..lastId
<1>1. lastId \in Nat /\ \A j \in Ids : delivery[j] # None => j \in 1..lastId
  BY AnalysisAssumption DEF TypeInv, TableType, ThrottleType, Ids
<1> QED BY <1>1 DEF Alerts, Before

\* Steps without a new alert. A configuration may be gone: its rows and its
\* throttle with it. A cooldown may end.
LEMMA ThrottleKept ==
  ASSUME TypeInv, ThrottleInv, [Next]_vars, ThrottleType',
         \A i \in Ids : i \in 1..lastId => delivery'[i] = delivery[i] /\ fingerprint'[i] = fingerprint[i],
         \A i \in Ids : i \notin 1..lastId => delivery'[i] = None,
         NEW gone \in Configs \cup {None},
         \A i \in Ids : i \in 1..lastId => config'[i] = IF config[i] = gone THEN None ELSE config[i],
         \A c \in Configs : IF c = gone THEN streak'[c] = NoStreak(None)
                            ELSE /\ streak'[c].fingerprint = streak[c].fingerprint
                                 /\ streak'[c].count = streak[c].count
                                 /\ streak'[c].until = "none" <=> streak[c].until = "none"
  PROVE  ThrottleInv'
<1>1. ThrottleType
  BY DEF ThrottleInv
<1>2. \A i \in 1..lastId : status'[i] = "suppressed" <=> status[i] = "suppressed"
  BY SuppressionKept DEF vars, taskVars
<1>3. \A i \in Ids : config[i] \in Configs \cup {None}
  BY DEF TypeInv, TableType
<1>4. None \notin Configs
  BY AnalysisAssumption
<1>5. \A i \in Ids : i \notin 1..lastId => delivery[i] = None
  BY <1>1, AnalysisAssumption DEF ThrottleType, TypeInv, TableType, Ids
<1>6. \A c \in Configs : Alerts(c)' = IF c = gone THEN {} ELSE Alerts(c)
  BY <1>3, <1>4, <1>5 DEF Alerts
<1>7. ASSUME NEW c \in Configs
      PROVE  Counted(Alerts(c)') /\ CountsAlerts(streak'[c], c, Alerts(c)', fingerprint', status')
  <2>1. CASE c = gone
    <3>1. Alerts(c)' = {} /\ Cardinality({}) = 0 /\ \A n : LastOf({}, n) = {}
      BY <1>6, <2>1, FS_EmptySet DEF LastOf
    <3>2. Counted({})
      BY <3>1 DEF Counted
    <3>3. CountsAlerts(NoStreak(None), c, {}, fingerprint', status')
      BY <3>1 DEF CountsAlerts, NoStreak, Same
    <3> QED BY <2>1, <3>1, <3>2, <3>3
  <2>2. CASE c # gone
    <3>1. Alerts(c)' = Alerts(c) /\ Alerts(c) \in SUBSET Ids /\ \A j \in Alerts(c) : j \in 1..lastId
      BY <1>1, <1>6, <2>2, AlertsInUse
    <3>2. Counted(Alerts(c)) /\ CountsAlerts(streak[c], c, Alerts(c), fingerprint, status)
      BY DEF ThrottleInv
    <3>3. CountsAlerts(streak'[c], c, Alerts(c), fingerprint', status')
      BY <1>2, <2>2, <3>1, <3>2, CountsStable
    <3> QED BY <3>1, <3>2, <3>3
  <2> QED BY <2>1, <2>2
<1>8. ASSUME NEW i \in Ids, config'[i] # None, delivery'[i] # None
      PROVE  Treated(status'[i], fingerprint'[i], config'[i], Before(i)', fingerprint', status')
  <2>1. i \in 1..lastId /\ config[i] # None /\ delivery[i] # None /\ config'[i] = config[i] /\ config[i] # gone
        /\ config[i] \in Configs /\ fingerprint'[i] = fingerprint[i]
    BY <1>3, <1>8
  <2>2. Before(i)' = Before(i)
    BY <1>3, <1>4, <1>5, <2>1 DEF Before
  <2>3. Before(i) \in SUBSET Ids /\ \A j \in Before(i) : j \in 1..lastId
    BY <1>1, AlertsInUse
  <2>4. Treated(status[i], fingerprint[i], config[i], Before(i), fingerprint, status)
    BY <2>1 DEF ThrottleInv
  <2>5. Treated(status'[i], fingerprint[i], config[i], Before(i), fingerprint', status')
    BY <1>2, <2>1, <2>3, <2>4, TreatedStable
  <2> QED BY <2>1, <2>2, <2>5
<1> QED BY <1>7, <1>8 DEF ThrottleInv

LEMMA NextRow ==
  ASSUME NEW row \in StreakRow, NEW f \in Fingerprints, NEW threshold, NEW cools
  PROVE  NextStreak(row, f, threshold, cools) \in StreakRow
<1>1. First(f) \in StreakRow
  BY DEF First, StreakRow
<1>2. ASSUME NEW n \in Nat, NEW u \in {"none", "ahead", "over"}
      PROVE  [row EXCEPT !.count = n, !.until = u] \in StreakRow
  BY DEF StreakRow
<1>3. row.count + 1 \in Nat /\ (IF cools /\ Suppresses(row, f, threshold) THEN "ahead" ELSE row.until) \in {"none", "ahead", "over"}
  BY DEF StreakRow
<1> QED BY <1>1, <1>2, <1>3 DEF NextStreak

\* A new alert.
LEMMA ThrottleReceive ==
  ASSUME TypeInv, ThrottleInv, NEW d \in Deliveries, Receive(d), ~UNCHANGED <<taskVars, streak>>
  PROVE  ThrottleInv'
<1>0. lastId + 1 \in Ids
  BY AnalysisAssumption DEF Receive, EnqueueAnalysisTask, Insert, TypeInv, TableType, Ids
<1> PICK i \in Ids : i = lastId + 1
  BY <1>0
<1> DEFINE c == ConfigOf[d]
           f == FingerprintOf[d]
           s == IF Suppresses(streak[c], f, Threshold[c]) THEN "suppressed" ELSE "queued"
           row == NextStreak(streak[c], f, Threshold[c], Cools[c])
<1>1. Insert(c, d, f, s) /\ streak' = [streak EXCEPT ![c] = row]
  BY DEF Receive, EnqueueAnalysisTask
<1>2. c \in Configs /\ f \in Fingerprints /\ d # None /\ None \notin Configs
  BY AnalysisAssumption DEF Fingerprints
<1>3. ThrottleType /\ streak[c] \in StreakRow /\ lastId \in Nat
  BY <1>2 DEF ThrottleInv, ThrottleType, TypeInv, TableType
<1>4. row \in StreakRow
  BY <1>2, <1>3, NextRow
<1> HIDE DEF c, f, s, row
<1>5. /\ lastId' = i /\ i \notin 1..lastId
      /\ status'[i] = s /\ config'[i] = c /\ delivery'[i] = d /\ fingerprint'[i] = f
      /\ \A j \in Ids : j # i => /\ status'[j] = status[j] /\ config'[j] = config[j]
                                 /\ delivery'[j] = delivery[j] /\ fingerprint'[j] = fingerprint[j]
      /\ fingerprint' \in [Ids -> Fingerprints]
  BY <1>1, <1>2, <1>3, AnalysisAssumption DEF Insert, TypeInv, TableType, ThrottleType, Ids
<1>6. ThrottleType'
  <2>1. streak' \in [Configs -> StreakRow]
    BY <1>1, <1>2, <1>3, <1>4 DEF ThrottleType
  <2>2. \A j \in Ids : j > lastId' => delivery'[j] = None
    BY <1>3, <1>5 DEF ThrottleType, Ids
  <2> QED BY <1>5, <2>1, <2>2 DEF ThrottleType
<1>7. /\ \A j \in 1..lastId : j \in Ids /\ j # i /\ j < i
      /\ \A e \in Configs : Alerts(e) \in SUBSET Ids /\ \A j \in Alerts(e) : j \in 1..lastId
      /\ \A j \in Ids : Before(j) \in SUBSET Ids /\ \A m \in Before(j) : m \in 1..lastId
  BY <1>3, AlertsInUse, AnalysisAssumption DEF Ids, TypeInv, TableType
<1>8. i \notin Alerts(c) /\ \A e \in Configs : Alerts(e)' = IF e = c THEN Alerts(c) \cup {i} ELSE Alerts(e)
  BY <1>2, <1>5, <1>7 DEF Alerts
<1>9. Counted(Alerts(c)) /\ CountsAlerts(streak[c], c, Alerts(c), fingerprint, status)
  BY <1>2 DEF ThrottleInv
<1>10. ASSUME NEW e \in Configs
       PROVE  Counted(Alerts(e)') /\ CountsAlerts(streak'[e], e, Alerts(e)', fingerprint', status')
  <2>1. CASE e = c
    <3>1. streak'[c] = row /\ Alerts(c)' = Alerts(c) \cup {i} /\ Alerts(c) \in SUBSET Ids
      BY <1>1, <1>2, <1>3, <1>7, <1>8 DEF ThrottleType
    <3>2. \A j \in Alerts(c) : /\ j < i /\ fingerprint'[j] = fingerprint[j]
                               /\ status'[j] = "suppressed" <=> status[j] = "suppressed"
      BY <1>2, <1>5, <1>7
    <3>3. Counted(Alerts(c) \cup {i})
      BY <1>5, <1>9, <3>1, <3>2, CountedGrows
    <3>4. CountsAlerts(row, c, Alerts(c) \cup {i}, fingerprint', status')
      <4>1. status'[i] = IF Suppresses(streak[c], f, Threshold[c]) THEN "suppressed" ELSE "queued"
        BY <1>5 DEF s
      <4>2. /\ \A j \in Alerts(c) : j < i
            /\ \A j \in Alerts(c) : fingerprint'[j] = fingerprint[j]
            /\ \A j \in Alerts(c) : status'[j] = "suppressed" <=> status[j] = "suppressed"
        BY <3>2
      <4>3. Alerts(c) \in SUBSET Ids /\ streak[c] \in StreakRow /\ f \in Fingerprints /\ c \in Configs
            /\ CountsAlerts(streak[c], c, Alerts(c), fingerprint, status) /\ fingerprint'[i] = f
        BY <1>2, <1>3, <1>5, <1>9, <3>1
      <4>4. CountsAlerts(NextStreak(streak[c], f, Threshold[c], Cools[c]), c, Alerts(c) \cup {i}, fingerprint', status')
        BY <4>1, <4>2, <4>3, NextCounts
      <4> QED BY <4>4 DEF row
    <3> QED BY <2>1, <3>1, <3>3, <3>4
  <2>2. CASE e # c
    <3>1. Alerts(e)' = Alerts(e) /\ Alerts(e) \in SUBSET Ids /\ streak'[e] = streak[e]
      BY <1>1, <1>3, <1>7, <1>8, <2>2 DEF ThrottleType
    <3>2. \A j \in Alerts(e) : fingerprint'[j] = fingerprint[j] /\ status'[j] = status[j]
      BY <1>5, <1>7
    <3>3. Counted(Alerts(e)) /\ CountsAlerts(streak[e], e, Alerts(e), fingerprint, status)
      BY DEF ThrottleInv
    <3>4. CountsAlerts(streak[e], e, Alerts(e), fingerprint', status')
      BY <3>1, <3>2, <3>3, CountsStable
    <3> QED BY <3>1, <3>3, <3>4
  <2> QED BY <2>1, <2>2
<1>11. ASSUME NEW j \in Ids, config'[j] # None, delivery'[j] # None
       PROVE  Treated(status'[j], fingerprint'[j], config'[j], Before(j)', fingerprint', status')
  <2>1. CASE j = i
    <3>1. Before(i)' = Alerts(c) /\ Alerts(c) \in SUBSET Ids
      <4>1. Before(i)' = {m \in Ids : m < i /\ delivery'[m] # None /\ config'[m] = c}
        BY <1>5 DEF Before
      <4>2. Alerts(c) \in SUBSET Ids /\ ~(i < i) /\ \A m \in Alerts(c) : m < i
        BY <1>2, <1>5, <1>7 DEF Ids
      <4>3. \A m \in Ids : m < i /\ delivery'[m] # None /\ config'[m] = c <=> m \in Alerts(c)
        BY <1>5, <4>2 DEF Alerts
      <4> QED BY <4>1, <4>2, <4>3
    <3>2. Treated(s, f, c, Alerts(c), fingerprint, status)
      BY <1>2, <1>3, <1>7, <1>9, NextTreated DEF s
    <3>3. \A m \in Alerts(c) : fingerprint'[m] = fingerprint[m] /\ status'[m] = status[m]
      BY <1>2, <1>5, <1>7
    <3>4. Treated(s, f, c, Alerts(c), fingerprint', status')
      BY <1>2, <3>1, <3>2, <3>3, TreatedStable
    <3> QED BY <1>5, <2>1, <3>1, <3>4
  <2>2. CASE j # i
    <3>1. /\ j \in 1..lastId /\ config[j] \in Configs /\ config[j] # None /\ delivery[j] # None
          /\ config'[j] = config[j] /\ fingerprint'[j] = fingerprint[j] /\ status'[j] = status[j]
      BY <1>3, <1>5, <1>11, <2>2, AnalysisAssumption DEF ThrottleType, Ids, TypeInv, TableType
    <3>2. Before(j)' = Before(j) /\ Before(j) \in SUBSET Ids
      <4>1. ~(i < j)
        BY <1>3, <3>1 DEF Ids
      <4> QED BY <1>5, <1>7, <3>1, <4>1 DEF Before
    <3>3. \A m \in Before(j) : fingerprint'[m] = fingerprint[m] /\ status'[m] = status[m]
      BY <1>5, <1>7
    <3>4. Treated(status[j], fingerprint[j], config[j], Before(j), fingerprint, status)
      BY <3>1 DEF ThrottleInv
    <3>5. Treated(status[j], fingerprint[j], config[j], Before(j), fingerprint', status')
      BY <3>1, <3>2, <3>3, <3>4, TreatedStable
    <3> QED BY <3>1, <3>2, <3>5
  <2> QED BY <2>1, <2>2
<1> QED BY <1>6, <1>10, <1>11 DEF ThrottleInv

LEMMA ThrottleInit == Init => ThrottleInv
<1> SUFFICES ASSUME Init PROVE ThrottleInv
  OBVIOUS
<1>1. ThrottleType
  BY AnalysisAssumption DEF Init, ThrottleType, StreakRow, NoStreak, Fingerprints
<1>2. ASSUME NEW c \in Configs
      PROVE  Counted(Alerts(c)) /\ CountsAlerts(streak[c], c, Alerts(c), fingerprint, status)
  <2>1. Alerts(c) = {} /\ Cardinality({}) = 0 /\ \A n : LastOf({}, n) = {}
    BY FS_EmptySet DEF Init, Alerts, LastOf
  <2>2. streak[c] = NoStreak(None)
    BY DEF Init
  <2>3. Counted({})
    BY <2>1 DEF Counted
  <2>4. CountsAlerts(NoStreak(None), c, {}, fingerprint, status)
    BY <2>1 DEF CountsAlerts, NoStreak, Same
  <2> QED BY <2>1, <2>2, <2>3, <2>4
<1> QED BY <1>1, <1>2 DEF ThrottleInv, Init

LEMMA ThrottleNext == TypeInv /\ ThrottleInv /\ [Next]_vars => ThrottleInv'
<1> SUFFICES ASSUME TypeInv, ThrottleInv, [Next]_vars PROVE ThrottleInv'
  OBVIOUS
<1>0. /\ ThrottleType
      /\ \A i \in Ids : i \notin 1..lastId => delivery[i] = None
      /\ \A i \in 1..lastId : i \in Ids
      /\ lastId \in Nat
      /\ None \in Configs \cup {None} /\ None \notin Configs
  BY AnalysisAssumption DEF ThrottleInv, ThrottleType, TypeInv, TableType, Ids
<1>1. ASSUME UNCHANGED <<rowVars, streak>> PROVE ThrottleInv'
  <2>1. ThrottleType'
    BY <1>0, <1>1 DEF ThrottleType, rowVars
  <2> QED BY <1>0, <1>1, <2>1, ThrottleKept DEF rowVars
<1>2. ASSUME NEW d \in Deliveries, Receive(d) PROVE ThrottleInv'
  <2>1. CASE UNCHANGED <<taskVars, streak>>
    BY <1>1, <2>1 DEF taskVars
  <2> QED BY <1>2, <2>1, ThrottleReceive
<1>3. ASSUME NEW i \in Ids, Retry(i) PROVE ThrottleInv'
  <2>1. PICK n \in Ids : n = lastId + 1
    BY <1>0, <1>3, AnalysisAssumption DEF Retry, Insert, Ids
  <2>2. /\ lastId' = n /\ delivery' = [delivery EXCEPT ![n] = None] /\ config' = [config EXCEPT ![n] = config[i]]
        /\ fingerprint' = [fingerprint EXCEPT ![n] = fingerprint[i]] /\ UNCHANGED streak /\ n \notin 1..lastId
    BY <1>0, <1>3, <2>1 DEF Retry, Insert, configVars
  <2>3. \A j \in Ids : /\ delivery'[j] = IF j = n THEN None ELSE delivery[j]
                       /\ j # n => config'[j] = config[j] /\ fingerprint'[j] = fingerprint[j]
    BY <1>0, <2>2 DEF ThrottleType, TypeInv, TableType
  <2>4. ThrottleType'
    BY <1>0, <2>1, <2>2, <2>3 DEF ThrottleType, Ids
  <2> QED BY <1>0, <2>1, <2>2, <2>3, <2>4, ThrottleKept
<1>4. ASSUME NEW c \in Configs, CooldownEnds(c) PROVE ThrottleInv'
  <2>1. /\ UNCHANGED rowVars /\ streak[c].until = "ahead" /\ streak[c] \in StreakRow
        /\ streak' = [streak EXCEPT ![c] = [streak[c] EXCEPT !.until = "over"]]
    BY <1>0, <1>4 DEF CooldownEnds, taskVars, ThrottleType
  <2>2. [streak[c] EXCEPT !.until = "over"] \in StreakRow
    BY <2>1 DEF StreakRow
  <2>3. ThrottleType'
    BY <1>0, <2>1, <2>2 DEF ThrottleType, rowVars
  <2>4. \A e \in Configs : /\ streak'[e].fingerprint = streak[e].fingerprint
                           /\ streak'[e].count = streak[e].count
                           /\ streak'[e].until = "none" <=> streak[e].until = "none"
    BY <1>0, <2>1 DEF ThrottleType, StreakRow
  <2> QED BY <1>0, <2>1, <2>3, <2>4, ThrottleKept DEF rowVars
<1>5. ASSUME NEW c \in Configs, DeleteAnalysisConfig(c) PROVE ThrottleInv'
  <2>1. /\ UNCHANGED <<delivery, fingerprint, lastId>>
        /\ streak' = [streak EXCEPT ![c] = NoStreak(None)]
        /\ config' = [i \in Ids |-> IF config[i] = c THEN None ELSE config[i]]
    BY <1>5 DEF DeleteAnalysisConfig
  <2>2. NoStreak(None) \in StreakRow
    BY DEF NoStreak, StreakRow, Fingerprints
  <2>3. ThrottleType'
    BY <1>0, <2>1, <2>2 DEF ThrottleType
  <2>4. \A e \in Configs : streak'[e] = IF e = c THEN NoStreak(None) ELSE streak[e]
    BY <1>0, <2>1 DEF ThrottleType
  <2> QED BY <1>0, <2>1, <2>3, <2>4, ThrottleKept
<1>6. ASSUME NEW c \in Configs, NEW n \in Limits, UpdateAnalysisConfig(c, n) PROVE ThrottleInv'
  BY <1>1, <1>6 DEF UpdateAnalysisConfig, taskVars
<1>7. ASSUME NEW k \in Requests, RequestStep(k) \/ \E i \in Ids : CancelRead(k, i) PROVE ThrottleInv'
  <2>1. UNCHANGED <<rowVars, streak>>
    BY <1>7 DEF RequestStep, CancelRead, CancelUpdate, CancelReread, CancelFails, CancelSignal, CancelCard,
                taskVars, configVars
  <2> QED BY <1>1, <2>1
<1>8. ASSUME NEW r \in Runners, ClaimAnalysisTask(r) \/ RunnerStep(r) PROVE ThrottleInv'
  <2>1. UNCHANGED <<rowVars, streak>>
    BY <1>8 DEF ClaimAnalysisTask, RunnerStep, Register, StartProcess, WorkFails, WorkSucceeds, Publish,
                FinishAnalysisTask, FinishFails, NotifyTerminal, taskVars, configVars
  <2> QED BY <1>1, <2>1
<1>9. ASSUME \/ ClaimLost \/ Crash \/ Terminate \/ Exit \/ RecoverRequested \/ RecoverRunning \/ RecoverFails
             \/ UNCHANGED vars
      PROVE  ThrottleInv'
  <2>1. UNCHANGED <<rowVars, streak>>
    BY <1>9 DEF ClaimLost, Crash, Terminate, Exit, MemoryLost, RecoverRequested, RecoverRunning, RecoverFails,
                taskVars, configVars, vars
  <2> QED BY <1>1, <2>1
<1> QED BY <1>2, <1>3, <1>4, <1>5, <1>6, <1>7, <1>8, <1>9 DEF Next

\* An alert is suppressed only when the last `Threshold` alerts of its
\* configuration were the same, and always then before a cooldown started:
\* whatever is retried, deleted, cancelled or lost, one counter of a run of
\* equal alerts says as much as the table of all of them.
THEOREM ThrottleRight == Spec => []ThrottleCounts
<1>1. ThrottleInv => ThrottleCounts
  <2> SUFFICES ASSUME ThrottleInv, NEW i \in Ids, config[i] # None, delivery[i] # None
               PROVE  /\ status[i] = "suppressed" => Repeats(i)
                      /\ Repeats(i) /\ (Cools[config[i]] => \A j \in Before(i) : status[j] # "suppressed")
                           => status[i] = "suppressed"
    BY DEF ThrottleCounts
  <2>1. Treated(status[i], fingerprint[i], config[i], Before(i), fingerprint, status)
    BY DEF ThrottleInv
  <2>2. Preceding(i, Threshold[config[i]]) = LastOf(Before(i), Threshold[config[i]])
    BY DEF Preceding, LastOf
  <2> QED BY <2>1, <2>2 DEF Treated, Repeats, Same, Spared
<1> QED BY <1>1, TypeInit, TypeNext, ThrottleInit, ThrottleNext, PTL DEF Spec
=============================================================================
