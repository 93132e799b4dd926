---------------------- MODULE AnalysisQueueGuarantees -----------------------
(***************************************************************************)
(* Theorems about the pool of AnalysisQueue: who owns a running task, what *)
(* a request to cancel reaches, and how many runs a configuration has.     *)
(***************************************************************************)
EXTENDS AnalysisQueueProofs

-----------------------------------------------------------------------------
(* Owners.                                                                 *)

\* Nothing runs before the recovery is through.
PoolStarts == phase \in {"boot", "recovering", "poolless"} => \A r \in Runners : rpc[r] = "free"

\* The row of a runner has a slot until the runner recorded its end.
HoldsSlot(r) ==
  IF rpc[r] = "notify" THEN status[rtask[r]] \in Ended ELSE status[rtask[r]] \in Active
HeldRows == \A r \in Runners : rpc[r] # "free" => HoldsSlot(r)

\* No task is in the hands of two runners.
Alone == \A r, q \in Runners : rpc[r] # "free" /\ rpc[q] # "free" /\ rtask[r] = rtask[q] => r = q

Budgets == faults \in Nat /\ crashes \in Nat /\ stops \in Nat

OwnInv == TypeInv /\ PoolStarts /\ HeldRows /\ Alone /\ RunningOwned

LEMMA BudgetInit == Init => Budgets
BY DEF Init, Budgets

LEMMA BudgetNext == Budgets /\ [Next]_vars => Budgets' /\ (faults' = 0 => faults = 0)
<1> SUFFICES ASSUME Budgets, [Next]_vars PROVE Budgets' /\ (faults' = 0 => faults = 0)
  OBVIOUS
<1>1. \/ UNCHANGED <<faults, crashes, stops>>
      \/ faults' = faults + 1 /\ UNCHANGED <<crashes, stops>>
      \/ crashes' = crashes + 1 /\ UNCHANGED <<faults, stops>>
      \/ stops' = stops + 1 /\ UNCHANGED <<faults, crashes>>
  BY DEF Next, vars, budgetVars, Fault, Receive, Retry, CooldownEnds, DeleteAnalysisConfig, UpdateAnalysisConfig,
         RequestStep, CancelRead, CancelUpdate, CancelReread, CancelFails, CancelSignal, CancelCard, SendTerminal,
         ClaimAnalysisTask, ClaimLost, RunnerStep, Register, StartProcess, WorkFails, WorkSucceeds, Publish,
         FinishAnalysisTask, FinishFails, NotifyTerminal, Crash, Terminate, Exit, RecoverRequested, RecoverRunning,
         RecoverFails
<1> QED BY <1>1 DEF Budgets

LEMMA OwnInit == Init => OwnInv
BY TypeInit DEF Init, OwnInv, PoolStarts, HeldRows, Alone, RunningOwned

\* Steps that leave the table, the process and the runners' tasks alone.
LEMMA OwnKept ==
  ASSUME OwnInv, TypeInv', UNCHANGED <<status, phase, rpc, rtask>>, faults' = 0 => faults = 0
  PROVE  OwnInv'
BY DEF OwnInv, PoolStarts, HeldRows, HoldsSlot, Alone, RunningOwned

\* Steps of the receiver and the console on the table.
LEMMA OwnTable ==
  ASSUME OwnInv, TypeInv', UNCHANGED <<phase, rpc, rtask>>, faults' = 0 => faults = 0,
         \A i \in Ids : \/ status'[i] = status[i]
                        \/ status[i] \in {"absent", "queued"} /\ status'[i] # "running"
                        \/ status[i] = "running" /\ status'[i] = "cancel_requested"
  PROVE  OwnInv'
<1>1. \A r \in Runners : rpc[r] # "free" => rtask[r] \in Ids
  BY DEF OwnInv, TypeInv, MemoryType
<1>2. HeldRows'
  BY <1>1 DEF OwnInv, HeldRows, HoldsSlot, Active, Ended
<1>3. RunningOwned'
  BY DEF OwnInv, RunningOwned
<1> QED BY <1>2, <1>3 DEF OwnInv, PoolStarts, Alone

LEMMA OwnConsole ==
  ASSUME OwnInv, TypeInv', faults' = 0 => faults = 0,
         \/ \E d \in Deliveries : Receive(d)
         \/ \E i \in Ids : Retry(i)
         \/ \E c \in Configs : \/ CooldownEnds(c) \/ DeleteAnalysisConfig(c)
                               \/ \E n \in Limits : UpdateAnalysisConfig(c, n)
         \/ \E k \in Requests : RequestStep(k) \/ \E i \in Ids : CancelRead(k, i)
  PROVE  OwnInv'
<1>0. status \in [Ids -> Status] /\ lastId \in 0..MaxTasks /\ \A i \in Ids : status[i] = "absent" <=> i > lastId
  BY DEF OwnInv, TypeInv, TableType
<1>1. ASSUME NEW c, NEW d, NEW f, NEW s \in {"queued", "suppressed"}, Insert(c, d, f, s),
             UNCHANGED <<phase, runnerVars>>
      PROVE  OwnInv'
  <2>1. lastId + 1 \in Ids /\ status[lastId + 1] = "absent"
    BY <1>0, <1>1, AnalysisAssumption DEF Insert, Ids
  <2>2. \A i \in Ids : status'[i] = status[i] \/ (status[i] = "absent" /\ status'[i] # "running")
    BY <1>0, <1>1, <2>1 DEF Insert
  <2> QED BY <1>1, <2>2, OwnTable DEF runnerVars
<1>2. ASSUME NEW d \in Deliveries, Receive(d) PROVE OwnInv'
  <2>1. CASE UNCHANGED taskVars
    BY <1>2, <2>1, OwnKept DEF Receive, taskVars, runnerVars
  <2>2. CASE EnqueueAnalysisTask(d) /\ ~UNCHANGED taskVars
    <3>1. \E s \in {"queued", "suppressed"} : Insert(ConfigOf[d], d, FingerprintOf[d], s)
      BY <2>2 DEF EnqueueAnalysisTask
    <3> QED BY <1>1, <1>2, <3>1 DEF Receive
  <2> QED BY <1>2, <2>1, <2>2 DEF Receive
<1>3. ASSUME NEW i \in Ids, Retry(i) PROVE OwnInv'
  BY <1>1, <1>3 DEF Retry
<1>4. ASSUME NEW k \in Requests, CancelUpdate(k) PROVE OwnInv'
  <2>1. ktask[k] \in Ids /\ kseen[k] \in {"queued", "running"}
    BY <1>4 DEF CancelUpdate, OwnInv, TypeInv, MemoryType, Holding
  <2>2. \A i \in Ids : \/ status'[i] = status[i]
                       \/ status[i] = "queued" /\ status'[i] # "running"
                       \/ status[i] = "running" /\ status'[i] = "cancel_requested"
    BY <1>0, <1>4, <2>1 DEF CancelUpdate, SetStatus, Requested
  <2> QED BY <1>4, <2>2, OwnTable DEF CancelUpdate, runnerVars
<1>5. ASSUME NEW k \in Requests,
             \/ \E i \in Ids : CancelRead(k, i)
             \/ CancelReread(k) \/ CancelFails(k) \/ CancelSignal(k) \/ CancelCard(k)
      PROVE  OwnInv'
  BY <1>5, OwnKept DEF CancelRead, CancelReread, CancelFails, CancelSignal, CancelCard, taskVars, runnerVars
<1>6. ASSUME NEW c \in Configs,
              CooldownEnds(c) \/ DeleteAnalysisConfig(c) \/ \E n \in Limits : UpdateAnalysisConfig(c, n)
       PROVE  OwnInv'
  BY <1>6, OwnKept DEF CooldownEnds, DeleteAnalysisConfig, UpdateAnalysisConfig, taskVars, runnerVars
<1> QED BY <1>2, <1>3, <1>4, <1>5, <1>6 DEF RequestStep

LEMMA OwnPool ==
  ASSUME OwnInv, TypeInv', Budgets, ClaimLost \/ \E r \in Runners : ClaimAnalysisTask(r)
  PROVE  OwnInv'
<1>0. /\ status \in [Ids -> Status]
      /\ rpc \in [Runners -> {"free", "register", "check", "work", "publish", "finish", "notify"}]
      /\ rtask \in [Runners -> Ids \cup {None}]
      /\ \A r \in Runners : rpc[r] # "free" => rtask[r] \in Ids
  BY DEF OwnInv, TypeInv, TableType, MemoryType
<1>1. ASSUME NEW i \in Ids, Oldest(i)
      PROVE  status[i] = "queued" /\ \A r \in Runners : rpc[r] # "free" => rtask[r] # i
  BY <1>1 DEF Oldest, Claimable, OwnInv, HeldRows, HoldsSlot, Active, Ended
<1>2. CASE ClaimLost
  <2>1. PICK i \in Ids : Oldest(i) /\ SetStatus(i, "running")
    BY <1>2 DEF ClaimLost
  <2>2. UNCHANGED <<phase, rpc, rtask>> /\ faults' # 0
    BY <1>2 DEF ClaimLost, Fault, runnerVars, Budgets
  <2>3. HeldRows'
    BY <1>0, <1>1, <2>1, <2>2 DEF OwnInv, HeldRows, HoldsSlot, SetStatus
  <2> QED BY <2>2, <2>3 DEF OwnInv, PoolStarts, Alone, RunningOwned
<1>3. ASSUME NEW r \in Runners, ClaimAnalysisTask(r) PROVE OwnInv'
  <2>1. PICK i \in Ids : Oldest(i) /\ SetStatus(i, "running") /\ rtask' = [rtask EXCEPT ![r] = i]
    BY <1>3 DEF ClaimAnalysisTask
  <2>2. rpc[r] = "free" /\ rpc' = [rpc EXCEPT ![r] = "register"] /\ phase = "up" /\ UNCHANGED <<phase, faults>>
    BY <1>3 DEF ClaimAnalysisTask, budgetVars
  <2>3. PoolStarts'
    BY <2>2 DEF PoolStarts
  <2>4. HeldRows'
    BY <1>0, <1>1, <2>1, <2>2 DEF OwnInv, HeldRows, HoldsSlot, SetStatus, Active
  <2>5. Alone'
    BY <1>0, <1>1, <2>1, <2>2 DEF OwnInv, Alone
  <2>6. RunningOwned'
    <3> SUFFICES ASSUME faults = 0, NEW j \in Ids, status'[j] = "running"
                 PROVE  \E q \in Runners : rtask'[q] = j
      BY <2>2 DEF RunningOwned
    <3>1. CASE j = i
      BY <1>0, <2>1, <3>1
    <3>2. CASE j # i
      <4>1. PICK q \in Runners : rtask[q] = j
        BY <1>0, <2>1, <2>2, <3>2 DEF SetStatus, OwnInv, RunningOwned
      <4>2. q # r
        BY <2>2, <4>1, AnalysisAssumption DEF OwnInv, TypeInv, MemoryType, Ids
      <4> QED BY <1>0, <2>1, <4>1, <4>2
    <3> QED BY <3>1, <3>2
  <2> QED BY <2>3, <2>4, <2>5, <2>6 DEF OwnInv
<1> QED BY <1>2, <1>3

\* A runner goes on with its task, or lets go of one that has ended.
LEMMA OwnRunner ==
  ASSUME OwnInv, TypeInv', Budgets, NEW r \in Runners, RunnerStep(r)
  PROVE  OwnInv'
<1>0. /\ status \in [Ids -> Status]
      /\ rpc \in [Runners -> {"free", "register", "check", "work", "publish", "finish", "notify"}]
      /\ rtask \in [Runners -> Ids \cup {None}]
      /\ \A q \in Runners : rpc[q] # "free" => rtask[q] \in Ids
      /\ \A q \in Runners : rtask[q] = None => rpc[q] = "free"
      /\ None \notin Ids
  BY AnalysisAssumption DEF OwnInv, TypeInv, TableType, MemoryType, Ids
<1>1. CASE \/ Register(r) \/ StartProcess(r) \/ WorkFails(r) \/ WorkSucceeds(r) \/ Publish(r)
  <2>1. /\ UNCHANGED <<status, phase, rtask>>
        /\ faults' = 0 => faults = 0
        /\ rpc[r] \notin {"free", "notify"}
        /\ \E p \in {"check", "work", "publish", "finish"} : rpc' = [rpc EXCEPT ![r] = p]
    BY <1>1 DEF Register, StartProcess, WorkFails, WorkSucceeds, Publish, taskVars, budgetVars, Fault, Budgets
  <2>2. HeldRows'
    BY <1>0, <2>1 DEF OwnInv, HeldRows, HoldsSlot
  <2>3. PoolStarts' /\ Alone' /\ RunningOwned'
    BY <1>0, <2>1 DEF OwnInv, PoolStarts, Alone, RunningOwned
  <2> QED BY <2>2, <2>3 DEF OwnInv
<1>2. CASE FinishAnalysisTask(r)
  <2> DEFINE i == rtask[r]
  <2>1. i \in Ids /\ rout[r] \in Ended /\ status[i] \in Active
    BY <1>0, <1>2 DEF FinishAnalysisTask, OwnInv, TypeInv, Holding, HeldRows, HoldsSlot
  <2>2. status' = [status EXCEPT ![i] = rout[r]]
    BY <1>2, <2>1 DEF FinishAnalysisTask, SetStatus
  <2>3. UNCHANGED <<phase, faults>> /\ rpc[r] = "finish"
    BY <1>2 DEF FinishAnalysisTask, budgetVars
  <2>4. \A q \in Runners : q # r /\ rpc[q] # "free" => rtask[q] # i
    BY <1>0, <2>3 DEF OwnInv, Alone
  <2>5. \/ rpc' = [rpc EXCEPT ![r] = "notify"] /\ rtask' = rtask
        \/ rpc' = [rpc EXCEPT ![r] = "free"] /\ rtask' = [rtask EXCEPT ![r] = None]
    BY <1>2 DEF FinishAnalysisTask, Free
  <2>6. HeldRows'
    BY <1>0, <2>1, <2>2, <2>3, <2>4, <2>5 DEF OwnInv, HeldRows, HoldsSlot
  <2>7. PoolStarts' /\ Alone'
    BY <1>0, <2>3, <2>5 DEF OwnInv, PoolStarts, Alone
  <2>8. RunningOwned'
    <3> SUFFICES ASSUME phase = "up", faults = 0, NEW j \in Ids, status'[j] = "running"
                 PROVE  \E q \in Runners : rtask'[q] = j
      BY <2>3 DEF RunningOwned
    <3>1. j # i /\ status[j] = "running"
      BY <1>0, <2>1, <2>2 DEF Ended
    <3>2. PICK q \in Runners : rtask[q] = j
      BY <3>1 DEF OwnInv, RunningOwned
    <3> QED BY <1>0, <2>5, <3>1, <3>2
  <2> QED BY <2>6, <2>7, <2>8 DEF OwnInv
<1>3. CASE FinishFails(r) \/ NotifyTerminal(r)
  <2>1. /\ rpc' = [rpc EXCEPT ![r] = "free"] /\ rtask' = [rtask EXCEPT ![r] = None]
        /\ UNCHANGED <<status, phase>>
        /\ faults' = 0 => faults = 0 /\ rpc[r] = "notify"
    BY <1>3 DEF FinishFails, NotifyTerminal, Free, SendTerminal, Fault, Budgets, taskVars, budgetVars
  <2>2. HeldRows' /\ PoolStarts' /\ Alone'
    BY <1>0, <2>1 DEF OwnInv, HeldRows, HoldsSlot, PoolStarts, Alone
  <2>3. RunningOwned'
    <3> SUFFICES ASSUME phase = "up", faults = 0, rpc[r] = "notify", NEW j \in Ids, status[j] = "running"
                 PROVE  \E q \in Runners : rtask'[q] = j
      BY <2>1 DEF RunningOwned
    <3>1. PICK q \in Runners : rtask[q] = j
      BY DEF OwnInv, RunningOwned
    <3>2. q # r
      BY <3>1 DEF OwnInv, HeldRows, HoldsSlot, Ended
    <3> QED BY <1>0, <2>1, <3>1, <3>2
  <2> QED BY <2>2, <2>3 DEF OwnInv
<1> QED BY <1>1, <1>2, <1>3 DEF RunnerStep

LEMMA OwnProcess ==
  ASSUME OwnInv, TypeInv', Budgets,
         Crash \/ Terminate \/ Exit \/ RecoverRequested \/ RecoverRunning \/ RecoverFails
  PROVE  OwnInv'
<1>1. CASE MemoryLost
  BY <1>1 DEF MemoryLost, OwnInv, PoolStarts, HeldRows, Alone, RunningOwned
<1>2. CASE Terminate
  BY <1>2 DEF Terminate, OwnInv, PoolStarts, HeldRows, HoldsSlot, Alone, RunningOwned, taskVars
<1>3. CASE RecoverRequested \/ RecoverRunning \/ RecoverFails
  <2>1. phase \in {"boot", "recovering"} /\ UNCHANGED rpc /\ \A r \in Runners : rpc[r] = "free"
    BY <1>3 DEF RecoverRequested, RecoverRunning, RecoverFails, OwnInv, PoolStarts, runnerVars
  <2>2. PoolStarts' /\ HeldRows' /\ Alone'
    BY <2>1 DEF PoolStarts, HeldRows, Alone
  <2>3. RunningOwned'
    BY <1>3 DEF RecoverRequested, RecoverRunning, RecoverFails, Requeues, RunningOwned
  <2> QED BY <2>2, <2>3 DEF OwnInv
<1> QED BY <1>1, <1>2, <1>3 DEF Crash, Exit

LEMMA OwnNext == OwnInv /\ Budgets /\ [Next]_vars => OwnInv'
<1> SUFFICES ASSUME OwnInv, Budgets, [Next]_vars PROVE OwnInv'
  OBVIOUS
<1>1. TypeInv' /\ (faults' = 0 => faults = 0)
  BY TypeNext, BudgetNext DEF OwnInv
<1>2. CASE UNCHANGED vars
  BY <1>1, <1>2, OwnKept DEF vars, taskVars, runnerVars
<1> QED BY <1>1, <1>2, OwnConsole, OwnPool, OwnRunner, OwnProcess DEF Next

\* A running row of a pool that is up has a runner, unless a statement failed.
THEOREM RunningHasRunner == Spec => []RunningOwned
<1>1. OwnInv => RunningOwned
  BY DEF OwnInv
<1> QED BY <1>1, BudgetInit, BudgetNext, OwnInit, OwnNext, PTL DEF Spec

-----------------------------------------------------------------------------
(* Cancellation.                                                           *)

ReachInv == TypeInv /\ Budgets /\ CancelReaches

\* Steps that record no cancellation, start no run and settle no request.
LEMMA ReachKept ==
  ASSUME CancelReaches, faults' = 0 => faults = 0,
         \A i \in Ids : status'[i] = "cancel_requested" => status[i] = "cancel_requested",
         \A r \in Runners : rpc'[r] \in {"work", "publish"} =>
           rpc[r] \in {"work", "publish"} /\ rtask'[r] = rtask[r] /\ (rdone[r] => rdone'[r]),
         \A k \in Requests : kpc[k] \in {"reread", "signal"} =>
           kpc'[k] \in {"reread", "signal"} /\ ktask'[k] = ktask[k]
  PROVE  CancelReaches'
BY DEF CancelReaches

LEMMA ReachRequest ==
  ASSUME ReachInv, faults' = 0 => faults = 0, NEW k \in Requests,
         RequestStep(k) \/ \E i \in Ids : CancelRead(k, i)
  PROVE  CancelReaches'
<1>0. /\ kpc \in [Requests -> {"idle", "update", "reread", "signal", "card"}]
      /\ ktask \in [Requests -> Ids \cup {None}]
      /\ status \in [Ids -> Status] /\ CancelReaches
      /\ \A q \in Requests : kpc[q] # "idle" => ktask[q] \in Ids
  BY DEF ReachInv, TypeInv, MemoryType, TableType
<1>1. ASSUME NEW i \in Ids, CancelRead(k, i) PROVE CancelReaches'
  BY <1>0, <1>1, ReachKept DEF CancelRead, taskVars, runnerVars
<1>2. CASE CancelUpdate(k)
  <2>1. /\ kpc' = [kpc EXCEPT ![k] = "reread"] /\ UNCHANGED <<ktask, rpc, rtask, rdone>>
        /\ \A i \in Ids : i # ktask[k] => status'[i] = status[i]
    BY <1>0, <1>2 DEF CancelUpdate, SetStatus, runnerVars
  <2> QED BY <1>0, <2>1 DEF CancelReaches
<1>3. CASE CancelReread(k)
  BY <1>0, <1>3, ReachKept DEF CancelReread, taskVars, runnerVars
<1>4. CASE CancelFails(k)
  <2>1. faults' # 0
    BY <1>4 DEF CancelFails, Fault, ReachInv, Budgets
  <2> QED BY <2>1 DEF CancelReaches
<1>5. CASE CancelSignal(k)
  <2>1. UNCHANGED <<status, rpc, rtask>> /\ kpc[k] = "signal"
    BY <1>5 DEF CancelSignal, taskVars
  <2>2. \A r \in Runners : rdone'[r] = (rdone[r] \/ (Registered(r) /\ rtask[r] = ktask[k]))
    BY <1>5, Zenon DEF CancelSignal
  <2>3. \A q \in Requests \ {k} : kpc'[q] = kpc[q] /\ ktask'[q] = ktask[q]
    BY <1>0, <1>5 DEF CancelSignal, Answer
  <2> SUFFICES ASSUME faults = 0, NEW i \in Ids, NEW r \in Runners,
                      status[i] = "cancel_requested", rtask[r] = i, rpc[r] \in {"work", "publish"}
               PROVE  rdone'[r] \/ \E q \in Requests : ktask'[q] = i /\ kpc'[q] \in {"reread", "signal"}
    BY <2>1 DEF CancelReaches
  <2>4. CASE ktask[k] = i
    <3>1. Registered(r)
      BY DEF Registered
    <3> QED BY <2>2, <2>4, <3>1, Zenon
  <2>5. CASE rdone[r]
    BY <2>2, <2>5, Zenon
  <2>6. CASE ktask[k] # i /\ \E q \in Requests : ktask[q] = i /\ kpc[q] \in {"reread", "signal"}
    BY <2>3, <2>6
  <2> QED BY <1>0, <2>4, <2>5, <2>6, Zenon DEF CancelReaches
<1>6. CASE CancelCard(k)
  <2>1. kpc[k] = "card" /\ UNCHANGED <<status, rpc, rtask, rdone>>
    BY <1>6 DEF CancelCard, taskVars, runnerVars
  <2>2. \A q \in Requests \ {k} : kpc'[q] = kpc[q] /\ ktask'[q] = ktask[q]
    BY <1>0, <1>6 DEF CancelCard, Answer
  <2> QED BY <1>0, <2>1, <2>2, ReachKept
<1> QED BY <1>1, <1>2, <1>3, <1>4, <1>5, <1>6 DEF RequestStep

LEMMA ReachRunner ==
  ASSUME ReachInv, faults' = 0 => faults = 0, NEW r \in Runners,
         ClaimAnalysisTask(r) \/ RunnerStep(r)
  PROVE  CancelReaches'
<1>0. /\ rpc \in [Runners -> {"free", "register", "check", "work", "publish", "finish", "notify"}]
      /\ rtask \in [Runners -> Ids \cup {None}]
      /\ rout \in [Runners -> Ended \cup {"none"}]
      /\ rdone \in [Runners -> BOOLEAN]
      /\ status \in [Ids -> Status] /\ CancelReaches
  BY DEF ReachInv, TypeInv, MemoryType, TableType
<1>1. CASE ClaimAnalysisTask(r)
  <2>1. PICK i \in Ids : SetStatus(i, "running") /\ rtask' = [rtask EXCEPT ![r] = i]
    BY <1>1 DEF ClaimAnalysisTask
  <2>2. rpc' = [rpc EXCEPT ![r] = "register"] /\ UNCHANGED <<rdone, kpc, ktask>>
    BY <1>1 DEF ClaimAnalysisTask, requestVars
  <2>3. \A j \in Ids : status'[j] = "cancel_requested" => status[j] = "cancel_requested"
    BY <1>0, <2>1 DEF SetStatus
  <2> QED BY <1>0, <2>1, <2>2, <2>3, ReachKept
<1>2. CASE StartProcess(r)
  <2>1. UNCHANGED <<status, rtask, kpc, ktask>> /\ rpc[r] = "check"
    BY <1>2 DEF StartProcess, taskVars, requestVars
  <2>2. \A q \in Runners \ {r} : rpc'[q] = rpc[q]
    BY <1>0, <1>2 DEF StartProcess
  <2>3. rdone' = [rdone EXCEPT ![r] = rdone[r] \/ AskedMeanwhile(rtask[r])] \/ (Fault /\ UNCHANGED rdone)
    BY <1>2, Zenon DEF StartProcess
  <2>4. CASE Fault
    BY <2>4 DEF Fault, ReachInv, Budgets, CancelReaches
  <2>5. CASE rdone' = [rdone EXCEPT ![r] = rdone[r] \/ AskedMeanwhile(rtask[r])]
    <3>1. \A q \in Runners \ {r} : rdone'[q] = rdone[q]
      BY <1>0, <2>5, Zenon
    <3>2. rdone'[r] = (rdone[r] \/ AskedMeanwhile(rtask[r]))
      BY <1>0, <2>5, Zenon
    <3>3. status[rtask[r]] = "cancel_requested" => rdone'[r]
      BY <3>2, Zenon DEF AskedMeanwhile
    <3>4. ASSUME faults' = 0, NEW i \in Ids, status'[i] = "cancel_requested", rtask'[r] = i
          PROVE  rdone'[r]
      BY <2>1, <3>3, <3>4, Zenon
    <3>5. ASSUME faults' = 0, NEW i \in Ids, NEW q \in Runners \ {r}, status'[i] = "cancel_requested",
                 rtask'[q] = i, rpc'[q] \in {"work", "publish"}
          PROVE  rdone'[q] \/ \E k \in Requests : ktask'[k] = i /\ kpc'[k] \in {"reread", "signal"}
      BY <1>0, <2>1, <2>2, <3>1, <3>5, Zenon DEF CancelReaches
    <3> SUFFICES ASSUME faults' = 0, NEW i \in Ids, NEW q \in Runners, status'[i] = "cancel_requested",
                        rtask'[q] = i, rpc'[q] \in {"work", "publish"}
                 PROVE  rdone'[q] \/ \E k \in Requests : ktask'[k] = i /\ kpc'[k] \in {"reread", "signal"}
      BY ZenonT(30) DEF CancelReaches
    <3> QED BY <3>4, <3>5, Zenon
  <2> QED BY <2>3, <2>4, <2>5
<1>3. CASE Register(r) \/ WorkFails(r) \/ WorkSucceeds(r) \/ Publish(r)
  <2>1. UNCHANGED <<status, rtask, rdone, kpc, ktask>>
    BY <1>3 DEF Register, WorkFails, WorkSucceeds, Publish, taskVars, requestVars
  <2>2. \A q \in Runners : rpc'[q] \in {"work", "publish"} => rpc[q] \in {"work", "publish"}
    BY <1>0, <1>3 DEF Register, WorkFails, WorkSucceeds, Publish
  <2> QED BY <1>0, <2>1, <2>2, ReachKept
<1>4. CASE FinishAnalysisTask(r) \/ FinishFails(r) \/ NotifyTerminal(r)
  <2>1. UNCHANGED <<kpc, ktask>>
    BY <1>4 DEF FinishAnalysisTask, FinishFails, NotifyTerminal, requestVars
  <2>2. rpc'[r] \in {"free", "notify"} /\ \A q \in Runners \ {r} : rpc'[q] = rpc[q] /\ rtask'[q] = rtask[q]
    BY <1>0, <1>4 DEF FinishAnalysisTask, FinishFails, NotifyTerminal, Free
  <2>3. rdone' = rdone \/ rdone' = [rdone EXCEPT ![r] = FALSE]
    BY <1>4 DEF FinishAnalysisTask, FinishFails, NotifyTerminal, Free
  <2>4. \A q \in Runners \ {r} : rdone'[q] = rdone[q]
    BY <1>0, <2>3
  <2>5. \A i \in Ids : status'[i] = "cancel_requested" => status[i] = "cancel_requested"
    <3>1. FinishAnalysisTask(r) => rout[r] \in Ended
      BY DEF FinishAnalysisTask, ReachInv, TypeInv, Holding
    <3> QED BY <1>0, <1>4, <3>1 DEF FinishAnalysisTask, FinishFails, NotifyTerminal, SetStatus, Ended, taskVars
  <2> QED BY <1>0, <2>1, <2>2, <2>4, <2>5, ReachKept
<1> QED BY <1>1, <1>2, <1>3, <1>4 DEF RunnerStep

LEMMA ReachRest ==
  ASSUME ReachInv, faults' = 0 => faults = 0,
         \/ \E d \in Deliveries : Receive(d)
         \/ \E i \in Ids : Retry(i)
         \/ \E c \in Configs : \/ CooldownEnds(c) \/ DeleteAnalysisConfig(c)
                               \/ \E n \in Limits : UpdateAnalysisConfig(c, n)
         \/ ClaimLost \/ Crash \/ Terminate \/ Exit
         \/ RecoverRequested \/ RecoverRunning \/ RecoverFails
  PROVE  CancelReaches'
<1>0. status \in [Ids -> Status] /\ CancelReaches /\ rpc \in [Runners -> {"free", "register", "check", "work", "publish", "finish", "notify"}]
  BY DEF ReachInv, TypeInv, TableType, MemoryType
<1>1. CASE MemoryLost
  BY <1>1 DEF MemoryLost, CancelReaches
<1>2. CASE Terminate
  BY <1>0, <1>2, ReachKept DEF Terminate, taskVars, requestVars
<1>3. ASSUME UNCHANGED <<runnerVars, requestVars>>,
             \A i \in Ids : status'[i] = "cancel_requested" => status[i] = "cancel_requested"
      PROVE  CancelReaches'
  BY <1>0, <1>3, ReachKept DEF runnerVars, requestVars
<1>4. CASE \/ \E d \in Deliveries : Receive(d)
           \/ \E i \in Ids : Retry(i)
  <2>1. ASSUME NEW c, NEW d, NEW f, NEW s \in {"queued", "suppressed"}, Insert(c, d, f, s)
        PROVE  \A i \in Ids : status'[i] = "cancel_requested" => status[i] = "cancel_requested"
    BY <1>0, <2>1 DEF Insert
  <2>2. ASSUME NEW d \in Deliveries, Receive(d) PROVE CancelReaches'
    <3>1. UNCHANGED taskVars \/ \E c, f : \E s \in {"queued", "suppressed"} : Insert(c, d, f, s)
      BY <2>2 DEF Receive, EnqueueAnalysisTask
    <3> QED BY <1>3, <2>1, <2>2, <3>1 DEF Receive, taskVars
  <2>3. ASSUME NEW i \in Ids, Retry(i) PROVE CancelReaches'
    BY <1>3, <2>1, <2>3 DEF Retry
  <2> QED BY <1>4, <2>2, <2>3
<1>5. ASSUME NEW c \in Configs,
             CooldownEnds(c) \/ DeleteAnalysisConfig(c) \/ \E n \in Limits : UpdateAnalysisConfig(c, n)
      PROVE  CancelReaches'
  BY <1>3, <1>5 DEF CooldownEnds, DeleteAnalysisConfig, UpdateAnalysisConfig, taskVars
<1>6. CASE ClaimLost
  BY <1>0, <1>3, <1>6 DEF ClaimLost, SetStatus
<1>7. CASE RecoverRequested \/ RecoverRunning \/ RecoverFails
  BY <1>0, <1>3, <1>7 DEF RecoverRequested, RecoverRunning, RecoverFails, taskVars
<1> QED BY <1>1, <1>2, <1>4, <1>5, <1>6, <1>7 DEF Crash, Exit

\* A recorded cancellation reaches the run, on whichever side of its
\* registration it came.
THEOREM CancellationReaches == Spec => []CancelReaches
<1>1. Init => ReachInv
  BY TypeInit, BudgetInit DEF Init, ReachInv, CancelReaches
<1>2. ReachInv /\ [Next]_vars => ReachInv'
  <2> SUFFICES ASSUME ReachInv, [Next]_vars PROVE ReachInv'
    OBVIOUS
  <2>1. TypeInv' /\ Budgets' /\ (faults' = 0 => faults = 0)
    BY TypeNext, BudgetNext DEF ReachInv
  <2>2. CASE UNCHANGED vars
    <3>1. UNCHANGED <<status, rpc, rtask, rdone, kpc, ktask>> /\ CancelReaches
      BY <2>2 DEF vars, taskVars, runnerVars, requestVars, ReachInv
    <3> QED BY <2>1, <3>1, ReachKept DEF ReachInv
  <2>3. CASE Next
    <3>1. CancelReaches'
      BY <2>1, <2>3, ReachRequest, ReachRunner, ReachRest DEF Next
    <3> QED BY <2>1, <3>1 DEF ReachInv
  <2> QED BY <2>2, <2>3
<1>3. ReachInv => CancelReaches
  BY DEF ReachInv
<1> QED BY <1>1, <1>2, <1>3, PTL DEF Spec

-----------------------------------------------------------------------------
(* The limit of a configuration.                                           *)

\* The runners at work for a configuration have different rows with a slot.
LEMMA WorkingHoldSlots ==
  ASSUME OwnInv, NEW c \in Configs
  PROVE  /\ IsFiniteSet(WorkingFor(c)) /\ IsFiniteSet(ActiveOf(c))
         /\ Cardinality(WorkingFor(c)) <= Cardinality(ActiveOf(c))
<1> DEFINE row == [r \in WorkingFor(c) |-> rtask[r]]
<1>1. IsFiniteSet(ActiveOf(c))
  <2>1. ActiveOf(c) \in SUBSET (1..MaxTasks)
    BY DEF ActiveOf, Ids
  <2>2. IsFiniteSet(1..MaxTasks)
    <3>1. 1 \in Int /\ MaxTasks \in Int
      BY AnalysisAssumption
    <3> QED BY <3>1, FS_Interval
  <2> QED BY <2>1, <2>2, FS_Subset
<1>2. \A r \in WorkingFor(c) : rtask[r] \in ActiveOf(c)
  BY DEF WorkingFor, ActiveOf, OwnInv, HeldRows, HoldsSlot, TypeInv, MemoryType
<1>3. \A r, q \in WorkingFor(c) : rtask[r] = rtask[q] => r = q
  BY DEF WorkingFor, OwnInv, Alone
<1>4. row \in Injection(WorkingFor(c), ActiveOf(c))
  BY <1>2, <1>3 DEF Injection, IsInjective
<1> HIDE DEF row
<1> QED BY <1>1, <1>4, FS_Injection

\* Only a claim puts a free runner to work.
LEMMA StartsByClaim ==
  ASSUME TypeInv, [Next]_vars, NEW r \in Runners, rpc[r] = "free", rpc'[r] # "free"
  PROVE  ClaimAnalysisTask(r)
<1>0. rpc \in [Runners -> {"free", "register", "check", "work", "publish", "finish", "notify"}]
  BY DEF TypeInv, MemoryType
<1>1. rpc' # rpc
  OBVIOUS
<1>2. ~\E k \in Requests : RequestStep(k) \/ \E i \in Ids : CancelRead(k, i)
  BY <1>1 DEF RequestStep, CancelRead, CancelUpdate, CancelReread, CancelFails, CancelSignal, CancelCard, runnerVars
<1>3. ~\/ \E d \in Deliveries : Receive(d)
       \/ \E i \in Ids : Retry(i)
       \/ \E c \in Configs : \/ CooldownEnds(c) \/ DeleteAnalysisConfig(c)
                             \/ \E n \in Limits : UpdateAnalysisConfig(c, n)
       \/ ClaimLost \/ Terminate \/ RecoverRequested \/ RecoverRunning \/ RecoverFails
  BY <1>1 DEF Receive, Retry, CooldownEnds, DeleteAnalysisConfig, UpdateAnalysisConfig, ClaimLost, Terminate,
         RecoverRequested, RecoverRunning, RecoverFails, runnerVars
<1>4. ~(Crash \/ Exit)
  BY DEF Crash, Exit, MemoryLost
<1>5. \A q \in Runners : ~RunnerStep(q)
  <2> SUFFICES ASSUME NEW q \in Runners, RunnerStep(q) PROVE FALSE
    OBVIOUS
  <2>1. rpc[q] # "free" /\ \E p : rpc' = [rpc EXCEPT ![q] = p]
    BY DEF RunnerStep, Register, StartProcess, WorkFails, WorkSucceeds, Publish, FinishAnalysisTask, FinishFails,
           NotifyTerminal, Free
  <2> QED BY <1>0, <2>1
<1>6. PICK q \in Runners : ClaimAnalysisTask(q)
  BY <1>1, <1>2, <1>3, <1>4, <1>5 DEF Next, vars, runnerVars
<1>7. rpc' = [rpc EXCEPT ![q] = "register"]
  BY <1>6 DEF ClaimAnalysisTask
<1> QED BY <1>0, <1>6, <1>7

LEMMA ClaimHolds ==
  ASSUME OwnInv, NEW r \in Runners, ClaimAnalysisTask(r), NEW c \in Configs, r \in WorkingFor(c)',
         limit[c] \in Nat
  PROVE  Cardinality(WorkingFor(c)') <= limit[c]
<1>0. /\ rpc \in [Runners -> {"free", "register", "check", "work", "publish", "finish", "notify"}]
      /\ rtask \in [Runners -> Ids \cup {None}]
  BY DEF OwnInv, TypeInv, MemoryType
<1>1. PICK i \in Ids : Oldest(i) /\ rtask' = [rtask EXCEPT ![r] = i]
  BY DEF ClaimAnalysisTask
<1>2. rpc[r] = "free" /\ rpc' = [rpc EXCEPT ![r] = "register"] /\ config' = config
  BY DEF ClaimAnalysisTask, rowVars
<1>3. config[i] = c
  BY <1>0, <1>1, <1>2 DEF WorkingFor
<1>4. Cardinality(ActiveOf(c)) < limit[c]
  BY <1>1, <1>3, AnalysisAssumption DEF Oldest, Claimable
<1>5. WorkingFor(c)' = WorkingFor(c) \cup {r} /\ r \notin WorkingFor(c)
  BY <1>0, <1>1, <1>2, <1>3 DEF WorkingFor
<1>6. Cardinality(WorkingFor(c)') = Cardinality(WorkingFor(c)) + 1
  BY <1>5, WorkingHoldSlots, FS_AddElement
<1>7. Cardinality(WorkingFor(c)) \in Nat /\ Cardinality(ActiveOf(c)) \in Nat
  BY WorkingHoldSlots, FS_CardinalityType
<1> QED BY <1>4, <1>6, <1>7, WorkingHoldSlots

\* No claim gives a configuration more runs than its limit allows.
THEOREM LimitHolds == Spec => SlotsHold
<1>1. OwnInv /\ [Next]_vars =>
        [\A c \in Configs : \A r \in Runners :
           rpc[r] = "free" /\ rpc'[r] # "free" /\ r \in WorkingFor(c)'
             => Cardinality(WorkingFor(c)') <= limit[c]]_vars
  <2> SUFFICES ASSUME OwnInv, [Next]_vars, NEW c \in Configs, NEW r \in Runners,
                      rpc[r] = "free", rpc'[r] # "free", r \in WorkingFor(c)'
               PROVE  Cardinality(WorkingFor(c)') <= limit[c]
    OBVIOUS
  <2>1. limit[c] \in Nat
    BY DEF OwnInv, TypeInv, ConfigType
  <2> QED BY <2>1, StartsByClaim, ClaimHolds DEF OwnInv
<1> QED BY <1>1, BudgetInit, BudgetNext, OwnInit, OwnNext, PTL DEF Spec, SlotsHold

-----------------------------------------------------------------------------
(* Terminal cards.                                                         *)

\* A request announces only a task it has seen canceled; a runner announces
\* after it recorded what is no success.
Announced ==
  /\ \A k \in Requests : kpc[k] # "idle" /\ kseen[k] = "canceled" => status[ktask[k]] = "canceled"
  /\ \A k \in Requests : kpc[k] = "card" => kseen[k] = "canceled"
  /\ \A r \in Runners : rpc[r] = "notify" => rout[r] # "succeeded"

\* The process is in its first life.
FirstLife == crashes = 0 /\ stops = 0

Waiting == {"absent", "queued", "suppressed"}
Before1 == {"register", "check", "work", "publish"}

CardOfRow(i) ==
  /\ status[i] \in Waiting => cards[i] = <<>>
  /\ status[i] \in Final /\ cards[i] # <<>> => cards[i][Len(cards[i])] = status[i]
  /\ status[i] = "canceled" \/ Len(cards[i]) <= 1

CardOfRun(r) ==
  /\ rpc[r] \in Before1 => cards[rtask[r]] = <<>>
  /\ rpc[r] = "finish" => \/ cards[rtask[r]] = <<>>
                          \/ cards[rtask[r]] = <<"succeeded">> /\ rout[r] = "succeeded"
  /\ rpc[r] = "notify" => /\ status[rtask[r]] = rout[r]
                          /\ rout[r] = "failed" => cards[rtask[r]] = <<>>

FirstLifeInv ==
  /\ phase # "stopping"
  /\ phase \in {"boot", "recovering", "poolless"} => \A i \in Ids : status[i] \notin Active
  /\ \A i \in Ids : CardOfRow(i)
  /\ \A r \in Runners : CardOfRun(r)

CardInv == OwnInv /\ Budgets /\ Announced /\ (FirstLife => FirstLifeInv)

LEMMA CardInit == Init => CardInv
<1> SUFFICES ASSUME Init PROVE CardInv
  OBVIOUS
<1>1. Announced
  BY DEF Init, Announced
<1>2. \A i \in Ids : CardOfRow(i)
  BY DEF Init, CardOfRow, Final, Ended
<1>3. FirstLifeInv
  BY <1>2 DEF Init, FirstLifeInv, CardOfRun, Before1, Active
<1> QED BY <1>1, <1>3, OwnInit, BudgetInit DEF CardInv

\* Only its runner ends a task that has a slot; whoever is canceled stays so.
LEMMA CanceledStays ==
  ASSUME OwnInv, [Next]_vars, NEW i \in Ids, status[i] = "canceled"
  PROVE  status'[i] = "canceled"
<1>1. CASE Next
  BY <1>1, RowsMove DEF OwnInv, RowMoves, Lifecycle!Moves, Lifecycle!Canceled
<1>2. CASE UNCHANGED vars
  BY <1>2 DEF vars, taskVars
<1> QED BY <1>1, <1>2

LEMMA AnnouncedNext ==
  ASSUME OwnInv, Announced, [Next]_vars
  PROVE  Announced'
<1>0. /\ kpc \in [Requests -> {"idle", "update", "reread", "signal", "card"}]
      /\ ktask \in [Requests -> Ids \cup {None}]
      /\ kseen \in [Requests -> Status \cup {"none"}]
      /\ rpc \in [Runners -> {"free", "register", "check", "work", "publish", "finish", "notify"}]
      /\ rout \in [Runners -> Ended \cup {"none"}]
      /\ \A k \in Requests : kpc[k] # "idle" => ktask[k] \in Ids
  BY DEF OwnInv, TypeInv, MemoryType
<1>1. \A r \in Runners : rpc'[r] = "notify" => rout'[r] # "succeeded"
  <2>1. CASE UNCHANGED <<rpc, rout>>
    BY <2>1 DEF Announced
  <2>2. CASE \E r \in Runners : ClaimAnalysisTask(r) \/ RunnerStep(r)
    <3> SUFFICES ASSUME NEW r \in Runners, ClaimAnalysisTask(r) \/ RunnerStep(r)
                 PROVE  \A q \in Runners : rpc'[q] = "notify" => rout'[q] # "succeeded"
      BY <2>2
    <3>1. CASE FinishAnalysisTask(r)
      <4>1. \A q \in Runners \ {r} : rpc'[q] = rpc[q] /\ rout'[q] = rout[q]
        BY <1>0, <3>1 DEF FinishAnalysisTask, Free
      <4>2. rpc'[r] = "notify" => rout'[r] # "succeeded"
        BY <1>0, <3>1 DEF FinishAnalysisTask, Free, Announces
      <4> QED BY <4>1, <4>2 DEF Announced
    <3>2. CASE ~FinishAnalysisTask(r)
      <4>1. rpc'[r] # "notify" /\ \A q \in Runners \ {r} : rpc'[q] = rpc[q] /\ rout'[q] = rout[q]
        BY <1>0, <3>2 DEF ClaimAnalysisTask, RunnerStep, Register, StartProcess, WorkFails, WorkSucceeds, Publish,
               FinishFails, NotifyTerminal, Free
      <4> QED BY <4>1 DEF Announced
    <3> QED BY <3>1, <3>2
  <2>3. CASE MemoryLost
    BY <2>3 DEF MemoryLost
  <2> QED BY <2>1, <2>2, <2>3 DEF Next, vars, runnerVars, Receive, Retry, CooldownEnds, DeleteAnalysisConfig,
          UpdateAnalysisConfig, RequestStep, CancelRead, CancelUpdate, CancelReread, CancelFails, CancelSignal,
          CancelCard, ClaimLost, Crash, Terminate, Exit, RecoverRequested, RecoverRunning, RecoverFails
<1>2. \A k \in Requests : /\ kpc'[k] = "card" => kseen'[k] = "canceled"
                          /\ kpc'[k] # "idle" /\ kseen'[k] = "canceled" => status'[ktask'[k]] = "canceled"
  <2>1. CASE UNCHANGED requestVars
    BY <1>0, <2>1, CanceledStays DEF Announced, requestVars
  <2>2. ASSUME NEW k \in Requests, RequestStep(k) \/ \E i \in Ids : CancelRead(k, i)
        PROVE  \A q \in Requests : /\ kpc'[q] = "card" => kseen'[q] = "canceled"
                                   /\ kpc'[q] # "idle" /\ kseen'[q] = "canceled" => status'[ktask'[q]] = "canceled"
    <3>1. \A q \in Requests \ {k} : kpc'[q] = kpc[q] /\ kseen'[q] = kseen[q] /\ ktask'[q] = ktask[q]
      BY <1>0, <2>2 DEF RequestStep, CancelRead, CancelUpdate, CancelReread, CancelFails, CancelSignal, CancelCard, Answer
    <3>2. kpc'[k] = "card" => kseen'[k] = "canceled"
      BY <1>0, <2>2 DEF RequestStep, CancelRead, CancelUpdate, CancelReread, CancelFails, CancelSignal, CancelCard, Answer
    <3>3. ASSUME kpc'[k] # "idle", kseen'[k] = "canceled" PROVE status'[ktask'[k]] = "canceled"
      <4>1. CASE CancelReread(k)
        BY <1>0, <3>3, <4>1 DEF CancelReread, Latest, taskVars
      <4>2. CASE CancelUpdate(k) \/ CancelSignal(k)
        <5>1. kpc[k] # "idle" /\ kseen[k] = "canceled" /\ ktask'[k] = ktask[k]
          BY <1>0, <3>3, <4>2 DEF CancelUpdate, CancelSignal, Answer
        <5> QED BY <1>0, <5>1, CanceledStays DEF Announced
      <4>3. CASE CancelFails(k) \/ CancelCard(k)
        BY <1>0, <3>3, <4>3 DEF CancelFails, CancelCard, Answer
      <4>4. ASSUME NEW i \in Ids, CancelRead(k, i) PROVE FALSE
        BY <1>0, <3>3, <4>4 DEF CancelRead, Active
      <4> QED BY <2>2, <4>1, <4>2, <4>3, <4>4 DEF RequestStep
    <3> QED BY <1>0, <3>1, <3>2, <3>3, CanceledStays DEF Announced
  <2>3. CASE MemoryLost
    BY <2>3 DEF MemoryLost
  <2>4. UNCHANGED requestVars \/ MemoryLost \/ \E k \in Requests : RequestStep(k) \/ \E i \in Ids : CancelRead(k, i)
    BY DEF Next, vars, Receive, Retry, CooldownEnds, DeleteAnalysisConfig, UpdateAnalysisConfig, ClaimAnalysisTask,
           ClaimLost, RunnerStep, Register, StartProcess, WorkFails, WorkSucceeds, Publish, FinishAnalysisTask,
           FinishFails, NotifyTerminal, Crash, Terminate, Exit, RecoverRequested, RecoverRunning, RecoverFails
  <2> QED BY <2>1, <2>2, <2>3, <2>4
<1> QED BY <1>1, <1>2 DEF Announced

\* What the steps below need to know of rows and runners.
Known ==
  /\ status \in [Ids -> Status] /\ cards \in [Ids -> Seq(Ended)]
  /\ rpc \in [Runners -> {"free", "register", "check", "work", "publish", "finish", "notify"}]
  /\ rtask \in [Runners -> Ids \cup {None}]
  /\ rout \in [Runners -> Ended \cup {"none"}]
  /\ \A r \in Runners : rpc[r] # "free" => rtask[r] \in Ids /\ HoldsSlot(r)
  /\ \A r \in Runners : rpc[r] \in {"finish", "notify"} => rout[r] \in Ended
  /\ PoolStarts /\ Alone /\ Announced /\ FirstLifeInv

LEMMA KnownIs == CardInv /\ FirstLife => Known
BY DEF CardInv, OwnInv, TypeInv, TableType, MemoryType, CardsType, Holding, HeldRows, Known

\* A row whose status and cards stay; a run that stays with such a row.
LEMMA CardKept ==
  ASSUME Known
  PROVE  /\ \A i \in Ids : status'[i] = status[i] /\ cards'[i] = cards[i] => CardOfRow(i)'
         /\ \A r \in Runners :
              /\ rpc'[r] = rpc[r] /\ rtask'[r] = rtask[r] /\ rout'[r] = rout[r]
              /\ rpc[r] # "free" => cards'[rtask[r]] = cards[rtask[r]]
              /\ rpc[r] = "notify" => status'[rtask[r]] = status[rtask[r]]
              => CardOfRun(r)'
<1>1. \A i \in Ids : status'[i] = status[i] /\ cards'[i] = cards[i] => CardOfRow(i)'
  BY DEF Known, FirstLifeInv, CardOfRow
<1>2. \A r \in Runners :
        /\ rpc'[r] = rpc[r] /\ rtask'[r] = rtask[r] /\ rout'[r] = rout[r]
        /\ rpc[r] # "free" => cards'[rtask[r]] = cards[rtask[r]]
        /\ rpc[r] = "notify" => status'[rtask[r]] = status[rtask[r]]
        => CardOfRun(r)'
  BY DEF Known, FirstLifeInv, CardOfRun, Before1
<1> QED BY <1>1, <1>2

LEMMA CardUnchanged ==
  ASSUME Known, UNCHANGED <<status, cards, rpc, rtask, rout>>, phase' = phase
  PROVE  FirstLifeInv'
BY CardKept DEF Known, FirstLifeInv

\* A row without a run moves: an alert is stored, or a request is recorded.
LEMMA CardRow ==
  ASSUME Known, NEW i \in Ids, NEW s, status' = [status EXCEPT ![i] = s],
         UNCHANGED <<cards, rpc, rtask, rout, phase>>,
         \/ status[i] = "absent" /\ s \in {"queued", "suppressed"}
         \/ status[i] = "queued" /\ s = "canceled"
         \/ status[i] = "running" /\ s = "cancel_requested"
  PROVE  FirstLifeInv'
<1>1. status'[i] = s /\ \A j \in Ids \ {i} : status'[j] = status[j]
  BY DEF Known
<1>2. CardOfRow(i)'
  BY <1>1 DEF Known, FirstLifeInv, CardOfRow, Waiting, Final, Ended
<1>3. \A r \in Runners : rpc[r] = "notify" => rtask[r] # i
  BY DEF Known, HoldsSlot, Ended
<1>4. \A r \in Runners : CardOfRun(r)'
  BY <1>1, <1>3, CardKept DEF Known
<1>5. phase \in {"boot", "recovering", "poolless"} => \A j \in Ids : status'[j] \notin Active
  BY <1>1 DEF Known, FirstLifeInv, Active
<1> QED BY <1>1, <1>2, <1>4, <1>5, CardKept DEF Known, FirstLifeInv

LEMMA CardConsole ==
  ASSUME Known, TypeInv,
         \/ \E d \in Deliveries : Receive(d)
         \/ \E i \in Ids : Retry(i)
         \/ \E c \in Configs : \/ CooldownEnds(c) \/ DeleteAnalysisConfig(c)
                               \/ \E n \in Limits : UpdateAnalysisConfig(c, n)
         \/ \E k \in Requests : RequestStep(k) \/ \E i \in Ids : CancelRead(k, i)
  PROVE  FirstLifeInv'
<1>1. ASSUME NEW c, NEW d, NEW f, NEW s \in {"queued", "suppressed"}, Insert(c, d, f, s),
             UNCHANGED <<phase, cards, runnerVars>>
      PROVE  FirstLifeInv'
  <2>1. lastId + 1 \in Ids /\ status[lastId + 1] = "absent"
    BY <1>1, AnalysisAssumption DEF Insert, Ids, TypeInv, TableType
  <2> QED BY <1>1, <2>1, CardRow DEF Insert, runnerVars
<1>2. ASSUME NEW d \in Deliveries, Receive(d) PROVE FirstLifeInv'
  <2>1. UNCHANGED taskVars \/ \E s \in {"queued", "suppressed"} : Insert(ConfigOf[d], d, FingerprintOf[d], s)
    BY <1>2 DEF Receive, EnqueueAnalysisTask
  <2> QED BY <1>1, <1>2, <2>1, CardUnchanged DEF Receive, taskVars, runnerVars
<1>3. ASSUME NEW i \in Ids, Retry(i) PROVE FirstLifeInv'
  BY <1>1, <1>3 DEF Retry
<1>4. ASSUME NEW k \in Requests, CancelUpdate(k) PROVE FirstLifeInv'
  <2>1. ktask[k] \in Ids /\ kseen[k] \in {"queued", "running"}
    BY <1>4 DEF CancelUpdate, TypeInv, MemoryType, Holding
  <2>2. UNCHANGED <<cards, rpc, rtask, rout, phase>>
    BY <1>4 DEF CancelUpdate, runnerVars
  <2>3. CASE status[ktask[k]] = kseen[k]
    <3>1. status' = [status EXCEPT ![ktask[k]] = Requested(kseen[k])]
      BY <1>4, <2>3 DEF CancelUpdate, SetStatus
    <3> QED BY <2>1, <2>2, <2>3, <3>1, CardRow DEF Requested
  <2>4. CASE status[ktask[k]] # kseen[k]
    BY <1>4, <2>2, <2>4, CardUnchanged DEF CancelUpdate
  <2> QED BY <2>3, <2>4
<1>5. ASSUME NEW k \in Requests, CancelCard(k) PROVE FirstLifeInv'
  <2>1. PICK i \in Ids : i = ktask[k] /\ status[i] = "canceled"
    BY <1>5 DEF CancelCard, TypeInv, MemoryType, Known, Announced
  <2>2. UNCHANGED <<status, rpc, rtask, rout, phase>>
    BY <1>5 DEF CancelCard, taskVars, runnerVars
  <2>3. UNCHANGED cards \/ cards' = [cards EXCEPT ![i] = Append(@, "canceled")]
    BY <1>5, <2>1 DEF CancelCard, SendTerminal
  <2>4. CASE cards' = [cards EXCEPT ![i] = Append(@, "canceled")]
    <3>1. cards'[i] = Append(cards[i], "canceled") /\ \A j \in Ids \ {i} : cards'[j] = cards[j]
      BY <2>1, <2>4 DEF Known
    <3>2. cards'[i][Len(cards'[i])] = "canceled"
      BY <2>1, <3>1 DEF Known
    <3>3. CardOfRow(i)'
      BY <2>1, <2>2, <3>2 DEF CardOfRow, Waiting
    <3>4. \A r \in Runners : rpc[r] # "free" /\ rtask[r] = i => rpc[r] = "notify" /\ rout[r] = "canceled"
      BY <2>1 DEF Known, HoldsSlot, Active, FirstLifeInv, CardOfRun
    <3>5. \A r \in Runners : CardOfRun(r)'
      <4> SUFFICES ASSUME NEW r \in Runners PROVE CardOfRun(r)'
        OBVIOUS
      <4>1. CASE rpc[r] # "free" /\ rtask[r] = i
        BY <2>1, <2>2, <3>4, <4>1 DEF CardOfRun, Before1
      <4>2. CASE ~(rpc[r] # "free" /\ rtask[r] = i)
        BY <2>2, <3>1, <4>2, CardKept DEF Known
      <4> QED BY <4>1, <4>2
    <3> QED BY <2>1, <2>2, <3>1, <3>3, <3>5, CardKept DEF Known, FirstLifeInv
  <2> QED BY <2>2, <2>3, <2>4, CardUnchanged
<1>6. ASSUME NEW k \in Requests,
             \/ \E i \in Ids : CancelRead(k, i)
             \/ CancelReread(k) \/ CancelFails(k) \/ CancelSignal(k)
      PROVE  FirstLifeInv'
  BY <1>6, CardUnchanged DEF CancelRead, CancelReread, CancelFails, CancelSignal, taskVars, runnerVars
<1>7. ASSUME NEW c \in Configs,
             CooldownEnds(c) \/ DeleteAnalysisConfig(c) \/ \E n \in Limits : UpdateAnalysisConfig(c, n)
      PROVE  FirstLifeInv'
  BY <1>7, CardUnchanged DEF CooldownEnds, DeleteAnalysisConfig, UpdateAnalysisConfig, taskVars, runnerVars
<1> QED BY <1>2, <1>3, <1>4, <1>5, <1>6, <1>7 DEF RequestStep

\* A runner's step touches its own row and run only; it stays at work, records
\* the end, or lets go.
LEMMA CardRunner ==
  ASSUME Known, TypeInv, NEW r \in Runners, ClaimAnalysisTask(r) \/ RunnerStep(r)
  PROVE  FirstLifeInv'
<1>0. \A q \in Runners \ {r} : rpc[q] # "free" /\ rpc[r] # "free" => rtask[q] # rtask[r]
  BY DEF Known, Alone
<1>1. ASSUME NEW i \in Ids, phase' = phase, phase \notin {"boot", "recovering", "poolless", "stopping"},
             \A j \in Ids \ {i} : status'[j] = status[j] /\ cards'[j] = cards[j],
             \A q \in Runners \ {r} : /\ rpc'[q] = rpc[q] /\ rtask'[q] = rtask[q] /\ rout'[q] = rout[q]
                                      /\ rpc[q] # "free" => rtask[q] # i,
             CardOfRow(i)', CardOfRun(r)'
      PROVE  FirstLifeInv'
  <2>1. \A q \in Runners \ {r} : CardOfRun(q)'
    BY <1>1, CardKept DEF Known
  <2> QED BY <1>1, <2>1, CardKept DEF FirstLifeInv
<1>2. CASE ClaimAnalysisTask(r)
  <2>1. PICK i \in Ids : Oldest(i) /\ SetStatus(i, "running") /\ rtask' = [rtask EXCEPT ![r] = i]
    BY <1>2 DEF ClaimAnalysisTask
  <2>2. rpc' = [rpc EXCEPT ![r] = "register"] /\ phase = "up" /\ UNCHANGED <<phase, cards, rout>>
    BY <1>2 DEF ClaimAnalysisTask
  <2>3. status[i] = "queued" /\ cards[i] = <<>>
    BY <2>1 DEF Oldest, Claimable, Known, FirstLifeInv, CardOfRow, Waiting
  <2>4. /\ status'[i] = "running" /\ cards'[i] = <<>> /\ rtask'[r] = i /\ rpc'[r] = "register"
        /\ \A j \in Ids \ {i} : status'[j] = status[j] /\ cards'[j] = cards[j]
        /\ \A q \in Runners \ {r} : rpc'[q] = rpc[q] /\ rtask'[q] = rtask[q] /\ rout'[q] = rout[q]
    BY <2>1, <2>2, <2>3 DEF SetStatus, Known
  <2>5. \A q \in Runners : rpc[q] # "free" => rtask[q] # i
    BY <2>3 DEF Known, HoldsSlot, Active, Ended
  <2>6. CardOfRow(i)'
    BY <2>4 DEF CardOfRow, Waiting, Final, Ended
  <2>7. CardOfRun(r)'
    BY <2>4 DEF CardOfRun, Before1
  <2> QED BY <1>1, <2>2, <2>4, <2>5, <2>6, <2>7
<1>3. CASE RunnerStep(r)
  <2>1. PICK i \in Ids : i = rtask[r] /\ HoldsSlot(r) /\ rpc[r] # "free"
    BY <1>3 DEF Known, RunnerStep, Register, StartProcess, WorkFails, WorkSucceeds, Publish, FinishAnalysisTask,
           FinishFails, NotifyTerminal
  <2>2. /\ phase' = phase /\ phase \notin {"boot", "recovering", "poolless", "stopping"}
        /\ \A q \in Runners \ {r} : /\ rpc'[q] = rpc[q] /\ rtask'[q] = rtask[q] /\ rout'[q] = rout[q]
                                    /\ rpc[q] # "free" => rtask[q] # i
    <3>1. phase' = phase
      BY <1>3 DEF RunnerStep, Register, StartProcess, WorkFails, WorkSucceeds, Publish, FinishAnalysisTask,
             FinishFails, NotifyTerminal
    <3>2. phase \notin {"boot", "recovering", "poolless", "stopping"}
      BY <2>1 DEF Known, FirstLifeInv, PoolStarts
    <3>3. \A q \in Runners \ {r} : rpc'[q] = rpc[q] /\ rtask'[q] = rtask[q] /\ rout'[q] = rout[q]
      BY <1>3 DEF RunnerStep, Register, StartProcess, WorkFails, WorkSucceeds, Publish, FinishAnalysisTask,
             FinishFails, NotifyTerminal, Free, Known
    <3> QED BY <1>0, <2>1, <3>1, <3>2, <3>3
  <2>3. CASE Register(r) \/ StartProcess(r) \/ WorkFails(r) \/ WorkSucceeds(r)
    <3>1. /\ UNCHANGED <<status, cards, rtask>> /\ rpc[r] \in Before1
          /\ rpc'[r] \in Before1 \cup {"finish"}
      BY <2>3 DEF Register, StartProcess, WorkFails, WorkSucceeds, taskVars, Before1, Known
    <3>2. CardOfRun(r)' /\ CardOfRow(i)'
      BY <2>1, <3>1, CardKept DEF CardOfRun, Before1, Known, FirstLifeInv
    <3> QED BY <1>1, <2>1, <2>2, <3>1, <3>2
  <2>4. CASE Publish(r)
    <3>1. rpc[r] = "publish" /\ rpc'[r] = "finish" /\ rout'[r] = "succeeded" /\ UNCHANGED <<status, rtask>>
      BY <2>4 DEF Publish, taskVars, Known
    <3>2. cards[i] = <<>> /\ status[i] \in Active
      BY <2>1, <3>1 DEF Known, FirstLifeInv, CardOfRun, Before1, HoldsSlot
    <3>3. UNCHANGED cards \/ cards' = [cards EXCEPT ![i] = Append(@, "succeeded")]
      BY <2>1, <2>4 DEF Publish
    <3>4. /\ cards'[i] = <<>> \/ cards'[i] = <<"succeeded">>
          /\ \A j \in Ids \ {i} : status'[j] = status[j] /\ cards'[j] = cards[j]
      BY <3>1, <3>2, <3>3 DEF Known
    <3>5. CardOfRow(i)'
      <4>1. status'[i] \notin Waiting /\ status'[i] \notin Final
        BY <3>1, <3>2 DEF Waiting, Active, Final, Ended
      <4>2. CASE cards'[i] = <<>>
        BY <4>1, <4>2 DEF CardOfRow
      <4>3. CASE cards'[i] = <<"succeeded">>
        <5>1. Len(cards'[i]) = 1
          BY <4>3
        <5> QED BY <4>1, <5>1 DEF CardOfRow
      <4> QED BY <3>4, <4>2, <4>3
    <3>6. CardOfRun(r)'
      BY <2>1, <3>1, <3>4 DEF CardOfRun, Before1
    <3> QED BY <1>1, <2>1, <2>2, <3>4, <3>5, <3>6
  <2>5. CASE FinishAnalysisTask(r)
    <3>1. rpc[r] = "finish" /\ UNCHANGED cards /\ rout[r] \in Ended /\ status[i] \in Active
      BY <2>1, <2>5 DEF FinishAnalysisTask, Known, HoldsSlot
    <3>2. status' = [status EXCEPT ![i] = rout[r]]
      BY <2>1, <2>5, <3>1 DEF FinishAnalysisTask, SetStatus
    <3>3. status'[i] = rout[r] /\ \A j \in Ids \ {i} : status'[j] = status[j] /\ cards'[j] = cards[j]
      BY <3>1, <3>2 DEF Known
    <3>4. cards[i] = <<>> \/ (cards[i] = <<"succeeded">> /\ rout[r] = "succeeded")
      BY <2>1, <3>1 DEF Known, FirstLifeInv, CardOfRun
    <3>5. CardOfRow(i)'
      <4>1. cards'[i] = cards[i] /\ status'[i] \notin Waiting
        BY <3>1, <3>3 DEF Waiting, Ended
      <4>2. CASE cards[i] = <<>>
        BY <4>1, <4>2 DEF CardOfRow
      <4>3. CASE cards[i] = <<"succeeded">> /\ rout[r] = "succeeded"
        <5>1. Len(cards'[i]) = 1 /\ cards'[i][1] = status'[i]
          BY <3>3, <4>1, <4>3
        <5> QED BY <4>1, <5>1 DEF CardOfRow
      <4> QED BY <3>4, <4>2, <4>3
    <3>6. \/ rpc'[r] = "notify" /\ rtask'[r] = i /\ rout'[r] = rout[r] /\ rout[r] # "succeeded"
          \/ rpc'[r] = "free"
      BY <2>1, <2>5 DEF FinishAnalysisTask, Announces, Free, Known
    <3>7. CardOfRun(r)'
      BY <3>1, <3>3, <3>4, <3>6 DEF CardOfRun, Before1
    <3> QED BY <1>1, <2>1, <2>2, <3>3, <3>5, <3>7
  <2>6. CASE FinishFails(r)
    <3>1. UNCHANGED <<status, cards>> /\ rpc'[r] = "free"
      BY <2>6 DEF FinishFails, Free, taskVars, Known
    <3>2. CardOfRun(r)' /\ CardOfRow(i)'
      BY <3>1, CardKept DEF CardOfRun, Before1
    <3> QED BY <1>1, <2>1, <2>2, <3>1, <3>2
  <2>7. CASE NotifyTerminal(r)
    <3>1. rpc[r] = "notify" /\ rpc'[r] = "free" /\ UNCHANGED status
      BY <2>7 DEF NotifyTerminal, Free, taskVars, Known
    <3>2. status[i] = rout[r] /\ rout[r] \in {"failed", "canceled"} /\ (rout[r] = "failed" => cards[i] = <<>>)
      BY <2>1, <3>1 DEF Known, FirstLifeInv, CardOfRun, Announced, Ended
    <3>3. UNCHANGED cards \/ cards' = [cards EXCEPT ![i] = Append(@, rout[r])]
      BY <2>1, <2>7 DEF NotifyTerminal, SendTerminal
    <3>4. /\ cards'[i] = cards[i] \/ cards'[i] = Append(cards[i], rout[r])
          /\ \A j \in Ids \ {i} : status'[j] = status[j] /\ cards'[j] = cards[j]
      BY <3>1, <3>3 DEF Known
    <3>5. CardOfRow(i)'
      <4>1. CASE cards'[i] = cards[i]
        BY <3>1, <4>1, CardKept
      <4>2. CASE cards'[i] = Append(cards[i], rout[r])
        <5>1. cards'[i][Len(cards'[i])] = rout[r] /\ Len(cards'[i]) = Len(cards[i]) + 1
          BY <3>2, <4>2 DEF Known
        <5>2. rout[r] = "failed" => Len(cards'[i]) = 1
          BY <3>2, <5>1
        <5> QED BY <3>1, <3>2, <5>1, <5>2 DEF CardOfRow, Waiting
      <4> QED BY <3>4, <4>1, <4>2
    <3>6. CardOfRun(r)'
      BY <3>1 DEF CardOfRun, Before1
    <3> QED BY <1>1, <2>1, <2>2, <3>4, <3>5, <3>6
  <2> QED BY <1>3, <2>3, <2>4, <2>5, <2>6, <2>7 DEF RunnerStep
<1> QED BY <1>2, <1>3

LEMMA CardProcess ==
  ASSUME Known, ClaimLost \/ RecoverRequested \/ RecoverRunning \/ RecoverFails
  PROVE  FirstLifeInv'
<1>1. CASE ClaimLost
  <2>1. PICK i \in Ids : Oldest(i) /\ SetStatus(i, "running")
    BY <1>1 DEF ClaimLost
  <2>2. phase = "up" /\ UNCHANGED <<phase, cards, rpc, rtask, rout>>
    BY <1>1 DEF ClaimLost, runnerVars
  <2>3. status[i] = "queued" /\ cards[i] = <<>>
    BY <2>1 DEF Oldest, Claimable, Known, FirstLifeInv, CardOfRow, Waiting
  <2>4. status'[i] = "running" /\ \A j \in Ids \ {i} : status'[j] = status[j]
    BY <2>1 DEF SetStatus, Known
  <2>5. \A r \in Runners : rpc[r] # "free" => rtask[r] # i
    BY <2>3 DEF Known, HoldsSlot, Active, Ended
  <2>6. CardOfRow(i)'
    BY <2>2, <2>3, <2>4 DEF CardOfRow, Waiting, Final, Ended
  <2>7. \A r \in Runners : CardOfRun(r)'
    BY <2>2, <2>4, <2>5, CardKept DEF Known
  <2> QED BY <2>2, <2>4, <2>6, <2>7, CardKept DEF FirstLifeInv
<1>2. CASE RecoverRequested \/ RecoverRunning \/ RecoverFails
  <2>1. phase \in {"boot", "recovering"} /\ phase' # "stopping"
    BY <1>2 DEF RecoverRequested, RecoverRunning, RecoverFails
  <2>2. UNCHANGED <<status, cards, rpc, rtask, rout>>
    BY <1>2, <2>1 DEF RecoverRequested, RecoverRunning, RecoverFails, Requeues, runnerVars, taskVars, Known,
                      FirstLifeInv, Active
  <2> QED BY <2>1, <2>2, CardKept DEF Known, FirstLifeInv
<1> QED BY <1>1, <1>2

LEMMA CardNext == CardInv /\ [Next]_vars => CardInv'
<1> SUFFICES ASSUME CardInv, [Next]_vars PROVE CardInv'
  OBVIOUS
<1>1. OwnInv' /\ Budgets' /\ Announced'
  BY OwnNext, BudgetNext, AnnouncedNext DEF CardInv
<1>2. ASSUME FirstLife' PROVE FirstLifeInv'
  <2>1. FirstLife /\ ~Crash /\ ~Terminate
    <3>1. crashes \in Nat /\ stops \in Nat
      BY DEF CardInv, Budgets
    <3>2. \/ UNCHANGED <<crashes, stops>>
          \/ crashes' = crashes + 1
          \/ stops' = stops + 1
      BY DEF Next, vars, budgetVars, Fault, Receive, Retry, CooldownEnds, DeleteAnalysisConfig, UpdateAnalysisConfig,
             RequestStep, CancelRead, CancelUpdate, CancelReread, CancelFails, CancelSignal, CancelCard, SendTerminal,
             ClaimAnalysisTask, ClaimLost, RunnerStep, Register, StartProcess, WorkFails, WorkSucceeds, Publish,
             FinishAnalysisTask, FinishFails, NotifyTerminal, Crash, Terminate, Exit, RecoverRequested, RecoverRunning,
             RecoverFails
    <3>3. FirstLife
      BY <1>2, <3>1, <3>2 DEF FirstLife
    <3>4. Crash => crashes' = crashes + 1
      BY DEF Crash
    <3>5. Terminate => stops' = stops + 1
      BY DEF Terminate
    <3> QED BY <1>2, <3>1, <3>3, <3>4, <3>5 DEF FirstLife
  <2>2. Known /\ TypeInv
    BY <2>1, KnownIs DEF CardInv, OwnInv
  <2>3. ~Exit
    BY <2>2 DEF Exit, Known, FirstLifeInv
  <2>4. CASE UNCHANGED vars
    BY <2>2, <2>4, CardUnchanged DEF vars, taskVars, runnerVars
  <2> QED BY <2>1, <2>2, <2>3, <2>4, CardConsole, CardRunner, CardProcess DEF Next
<1> QED BY <1>1, <1>2 DEF CardInv

LEMMA CardFacts == CardInv => CardTellsStatus /\ OneTerminalCard
<1> SUFFICES ASSUME CardInv, crashes + stops = 0 PROVE \A i \in Ids : CardOfRow(i)
  BY DEF CardOfRow, CardTellsStatus, OneTerminalCard
<1>1. FirstLife
  BY DEF CardInv, Budgets, FirstLife
<1> QED BY <1>1 DEF CardInv, FirstLifeInv

\* Until the process first stops, the last card of an ended task tells how it
\* ended.
THEOREM CardTells == Spec => []CardTellsStatus
BY CardInit, CardNext, CardFacts, PTL DEF Spec

\* Until the process first stops, no task has two terminal cards unless it is
\* canceled.
THEOREM OneCard == Spec => []OneTerminalCard
BY CardInit, CardNext, CardFacts, PTL DEF Spec
=============================================================================
