---------------------------- MODULE AnalysisQueue ----------------------------
(***************************************************************************)
(* The alert tasks: the receiver that stores an alert as a task, the pool  *)
(* that claims and analyses tasks within the limit of each configuration,  *)
(* the console that cancels and retries them and edits configurations, the *)
(* terminal cards sent to the chat, and the process that may stop.         *)
(*                                                                         *)
(* The tables and the cards survive a restart; phase, runners and requests *)
(* are memory of the process.                                              *)
(***************************************************************************)
EXTENDS AlertThrottle, Sequences, FiniteSets

CONSTANTS
  Configs,        \* alert_analysis_configs
  Deliveries,     \* delivery ids of alerts
  ConfigOf,       \* the configuration each alert is sent to
  FingerprintOf,  \* the fingerprint of each alert
  Threshold,      \* throttle_threshold of each configuration
  Cools,          \* whether throttle_cooldown_seconds is not 0
  FirstLimit,     \* concurrency of each configuration when created
  Limits,         \* values the console sets it to
  Runners,        \* the slots of the pool, Queue.workers
  Requests,       \* console requests that cancel a task
  None,
  MaxTasks,       \* bound: rows of analysis_tasks
  MaxEdits,       \* bound: edits and deletions of configurations
  MaxCrashes,     \* bound: process crashes
  MaxStops,       \* bound: SIGTERMs
  MaxFaults       \* bound: statements and notifications that fail

ASSUME AnalysisAssumption ==
  /\ ConfigOf \in [Deliveries -> Configs]
  /\ DOMAIN FingerprintOf = Deliveries
  /\ Threshold \in [Configs -> Nat \ {0}]
  /\ Cools \in [Configs -> BOOLEAN]
  /\ FirstLimit \in [Configs -> Nat \ {0}]
  /\ Limits \subseteq Nat \ {0}
  /\ None \notin Configs \cup Deliveries
  /\ None \notin 1..MaxTasks
  /\ \A d \in Deliveries : FingerprintOf[d] # None
  /\ MaxTasks \in Nat /\ MaxEdits \in Nat /\ MaxCrashes \in Nat
  /\ MaxStops \in Nat /\ MaxFaults \in Nat

VARIABLES
  status, config, delivery, fingerprint, asked,   \* analysis_tasks, by id
  lastId,     \* the largest id in use
  limit,      \* concurrency of each configuration, 0 once it is deleted
  streak,     \* analysis_throttle_states
  cards,      \* the terminal cards sent for each task
  phase,      \* of the process: "boot", "recovering", "up", "poolless", "stopping"
  rpc,        \* where each runner is
  rtask,      \* the task it claimed
  rdone,      \* whether its context is done
  rout,       \* the status it is about to record
  kpc,        \* where each request to cancel is
  ktask,      \* the task it is about
  kseen,      \* the status it read last
  edits, crashes, stops, faults   \* how much of each bound is used

rowVars     == <<config, delivery, fingerprint, lastId>>
taskVars    == <<status, asked, rowVars>>
configVars  == <<limit, streak>>
runnerVars  == <<rpc, rtask, rdone, rout>>
requestVars == <<kpc, ktask, kseen>>
budgetVars  == <<edits, crashes, stops, faults>>
vars == <<taskVars, configVars, cards, phase, runnerVars, requestVars, budgetVars>>

-----------------------------------------------------------------------------
Ids    == 1..MaxTasks
Active == {"running", "cancel_requested"}
Ended  == {"succeeded", "failed", "canceled"}
Final  == Ended \cup {"suppressed"}
Status == {"absent", "queued"} \cup Active \cup Final

\* HTTP is served from the start, whatever becomes of the pool.
Serving == phase \in {"boot", "recovering", "up", "poolless"}

\* One statement, or one call of the notifier, fails.
Fault == faults < MaxFaults /\ faults' = faults + 1 /\ UNCHANGED <<edits, crashes, stops>>

SetStatus(i, s) == status' = [status EXCEPT ![i] = s]

Init ==
  /\ status = [i \in Ids |-> "absent"]
  /\ config = [i \in Ids |-> None]
  /\ delivery = [i \in Ids |-> None]
  /\ fingerprint = [i \in Ids |-> None]
  /\ asked = [i \in Ids |-> FALSE]
  /\ lastId = 0
  /\ limit = FirstLimit
  /\ streak = [c \in Configs |-> NoStreak(None)]
  /\ cards = [i \in Ids |-> <<>>]
  /\ phase = "boot"
  /\ rpc = [r \in Runners |-> "free"]
  /\ rtask = [r \in Runners |-> None]
  /\ rdone = [r \in Runners |-> FALSE]
  /\ rout = [r \in Runners |-> "none"]
  /\ kpc = [k \in Requests |-> "idle"]
  /\ ktask = [k \in Requests |-> None]
  /\ kseen = [k \in Requests |-> "none"]
  /\ edits = 0
  /\ crashes = 0
  /\ stops = 0
  /\ faults = 0

-----------------------------------------------------------------------------
(* The receiver and the console.                                           *)

\* INSERT INTO analysis_tasks.
Insert(c, d, f, s) ==
  /\ lastId < MaxTasks
  /\ lastId' = lastId + 1
  /\ status' = [status EXCEPT ![lastId + 1] = s]
  /\ config' = [config EXCEPT ![lastId + 1] = c]
  /\ delivery' = [delivery EXCEPT ![lastId + 1] = d]
  /\ fingerprint' = [fingerprint EXCEPT ![lastId + 1] = f]
  /\ UNCHANGED asked

\* EnqueueAnalysisTask, one transaction: a delivery that is stored changes
\* nothing, another one moves the throttle and gets a row.
EnqueueAnalysisTask(d) ==
  LET c == ConfigOf[d]  f == FingerprintOf[d] IN
  IF \E i \in Ids : config[i] = c /\ delivery[i] = d
  THEN UNCHANGED <<taskVars, streak>>
  ELSE /\ Insert(c, d, f, IF Suppresses(streak[c], f, Threshold[c]) THEN "suppressed" ELSE "queued")
       /\ streak' = [streak EXCEPT ![c] = NextStreak(streak[c], f, Threshold[c], Cools[c])]

\* ServeHTTP: an unknown configuration is answered 404. That it is enabled and
\* throttled and the alert not ignored is taken for granted.
Receive(d) ==
  /\ Serving
  /\ IF limit[ConfigOf[d]] # 0 THEN EnqueueAnalysisTask(d) ELSE UNCHANGED <<taskVars, streak>>
  /\ UNCHANGED <<limit, cards, phase, runnerVars, requestVars, budgetVars>>

\* Queue.Retry: a task that ended, of a configuration that exists, is queued
\* again as another one, past the throttle.
Retry(i) ==
  /\ Serving
  /\ status[i] \in Final
  /\ config[i] # None
  /\ Insert(config[i], None, fingerprint[i], "queued")
  /\ UNCHANGED <<configVars, cards, phase, runnerVars, requestVars, budgetVars>>

CooldownEnds(c) ==
  /\ streak[c].until = "ahead"
  /\ streak' = [streak EXCEPT ![c].until = "over"]
  /\ UNCHANGED <<taskVars, limit, cards, phase, runnerVars, requestVars, budgetVars>>

UpdateAnalysisConfig(c, n) ==
  /\ Serving
  /\ limit[c] # 0
  /\ edits < MaxEdits
  /\ edits' = edits + 1
  /\ limit' = [limit EXCEPT ![c] = n]
  /\ UNCHANGED <<taskVars, streak, cards, phase, runnerVars, requestVars, crashes, stops, faults>>

\* ON DELETE SET NULL for the tasks, ON DELETE CASCADE for the throttle.
DeleteAnalysisConfig(c) ==
  /\ Serving
  /\ limit[c] # 0
  /\ edits < MaxEdits
  /\ edits' = edits + 1
  /\ limit' = [limit EXCEPT ![c] = 0]
  /\ streak' = [streak EXCEPT ![c] = NoStreak(None)]
  /\ config' = [i \in Ids |-> IF config[i] = c THEN None ELSE config[i]]
  /\ UNCHANGED <<status, delivery, fingerprint, asked, lastId, cards, phase, runnerVars, requestVars,
                 crashes, stops, faults>>

-----------------------------------------------------------------------------
(* Queue.Cancel, one statement at a time.                                  *)

Answer(k) ==
  /\ kpc' = [kpc EXCEPT ![k] = "idle"]
  /\ ktask' = [ktask EXCEPT ![k] = None]
  /\ kseen' = [kseen EXCEPT ![k] = "none"]

\* RequestAnalysisTaskCancel reads the row; a task that ended is refused.
CancelRead(k, i) ==
  /\ Serving
  /\ kpc[k] = "idle"
  /\ status[i] \in {"queued"} \cup Active
  /\ kpc' = [kpc EXCEPT ![k] = IF status[i] = "cancel_requested" THEN "signal" ELSE "update"]
  /\ ktask' = [ktask EXCEPT ![k] = i]
  /\ kseen' = [kseen EXCEPT ![k] = status[i]]
  /\ UNCHANGED <<taskVars, configVars, cards, phase, runnerVars, budgetVars>>

\* Mutant: a running task is recorded as canceled at once.
RequestedAtOnce(s) == "canceled"

\* What a request writes over the status s it read.
Requested(s) == IF s = "queued" THEN "canceled" ELSE "cancel_requested"

\* UPDATE ... WHERE id = ? AND status = what was read.
CancelUpdate(k) ==
  LET i == ktask[k] IN
  /\ kpc[k] = "update"
  /\ IF status[i] = kseen[k]
     THEN SetStatus(i, Requested(kseen[k])) /\ asked' = [asked EXCEPT ![i] = TRUE]
     ELSE UNCHANGED <<status, asked>>
  /\ kpc' = [kpc EXCEPT ![k] = "reread"]
  /\ UNCHANGED <<rowVars, configVars, cards, phase, runnerVars, ktask, kseen, budgetVars>>

\* Mutant: the answer is taken from the row as it was first read.
LatestStale(k) == IF kseen[k] = "queued" THEN "canceled" ELSE status[ktask[k]]

Latest(k) == status[ktask[k]]

CancelReread(k) ==
  /\ kpc[k] = "reread"
  /\ kpc' = [kpc EXCEPT ![k] = "signal"]
  /\ kseen' = [kseen EXCEPT ![k] = Latest(k)]
  /\ UNCHANGED <<taskVars, configVars, cards, phase, runnerVars, ktask, budgetVars>>

\* A statement fails or the client is gone: Cancel returns the error.
CancelFails(k) ==
  /\ kpc[k] \in {"update", "reread"}
  /\ Fault
  /\ Answer(k)
  /\ UNCHANGED <<taskVars, configVars, cards, phase, runnerVars>>

\* Queue.cancels[i]: set by run, deleted when it returns.
Registered(r) == rpc[r] \in {"check", "work", "publish", "finish", "notify"}

CancelSignal(k) ==
  /\ kpc[k] = "signal"
  /\ rdone' = [r \in Runners |-> rdone[r] \/ (Registered(r) /\ rtask[r] = ktask[k])]
  /\ IF kseen[k] = "canceled"
     THEN kpc' = [kpc EXCEPT ![k] = "card"] /\ UNCHANGED <<ktask, kseen>>
     ELSE Answer(k)
  /\ UNCHANGED <<taskVars, configVars, cards, phase, rpc, rtask, rout, budgetVars>>

\* Processor.NotifyTerminal: nothing once the configuration is gone.
SendTerminal(i, s) ==
  \/ /\ cards' = IF config[i] # None THEN [cards EXCEPT ![i] = Append(@, s)] ELSE cards
     /\ UNCHANGED budgetVars
  \/ Fault /\ UNCHANGED cards

CancelCard(k) ==
  /\ kpc[k] = "card"
  /\ SendTerminal(ktask[k], "canceled")
  /\ Answer(k)
  /\ UNCHANGED <<taskVars, configVars, phase, runnerVars>>

-----------------------------------------------------------------------------
(* The pool.                                                               *)

ActiveOf(c) == {i \in Ids : config[i] = c /\ status[i] \in Active}

\* Mutant: a task that is being cancelled no longer counts.
ClaimableEarly(i) ==
  /\ status[i] = "queued"
  /\ config[i] # None =>
       Cardinality({j \in ActiveOf(config[i]) : status[j] = "running"}) < limit[config[i]]

Claimable(i) ==
  /\ status[i] = "queued"
  /\ config[i] # None => Cardinality(ActiveOf(config[i])) < limit[config[i]]

Oldest(i) == Claimable(i) /\ \A j \in Ids : j < i => ~Claimable(j)

\* The loop of Queue.Run hands the oldest claimable task to a free slot.
ClaimAnalysisTask(r) ==
  /\ phase = "up"
  /\ rpc[r] = "free"
  /\ \E i \in Ids :
       /\ Oldest(i)
       /\ SetStatus(i, "running")
       /\ rtask' = [rtask EXCEPT ![r] = i]
  /\ rpc' = [rpc EXCEPT ![r] = "register"]
  /\ UNCHANGED <<asked, rowVars, configVars, cards, phase, rdone, rout, requestVars, budgetVars>>

\* The UPDATE is committed and the row cannot be read back.
ClaimLost ==
  /\ phase = "up"
  /\ \E r \in Runners : rpc[r] = "free"
  /\ \E i \in Ids : Oldest(i) /\ SetStatus(i, "running")
  /\ Fault
  /\ UNCHANGED <<asked, rowVars, configVars, cards, phase, runnerVars, requestVars>>

\* run: the cancel function is registered.
Register(r) ==
  /\ rpc[r] = "register"
  /\ rpc' = [rpc EXCEPT ![r] = "check"]
  /\ UNCHANGED <<taskVars, configVars, cards, phase, rtask, rdone, rout, requestVars, budgetVars>>

\* Mutant: the row is not read again.
AskedMeanwhileNever(i) == FALSE

\* A request that found nothing registered left its mark in the row.
AskedMeanwhile(i) == status[i] = "cancel_requested"

\* run reads the row, then Process the configuration. A failing read of the
\* row is ignored.
StartProcess(r) ==
  LET i == rtask[r] IN
  /\ rpc[r] = "check"
  /\ \/ rdone' = [rdone EXCEPT ![r] = @ \/ AskedMeanwhile(i)] /\ UNCHANGED budgetVars
     \/ Fault /\ UNCHANGED rdone
  /\ IF config[i] # None
     THEN rpc' = [rpc EXCEPT ![r] = "work"] /\ UNCHANGED rout
     ELSE /\ rpc' = [rpc EXCEPT ![r] = "finish"]
          /\ rout' = [rout EXCEPT ![r] = IF rdone'[r] THEN "canceled" ELSE "failed"]
  /\ UNCHANGED <<taskVars, configVars, cards, phase, rtask, requestVars>>

\* Logs, repository, agent or result: one of them fails, as all do once the
\* context is done.
WorkFails(r) ==
  /\ rpc[r] = "work"
  /\ rpc' = [rpc EXCEPT ![r] = "finish"]
  /\ rout' = [rout EXCEPT ![r] = IF rdone[r] THEN "canceled" ELSE "failed"]
  /\ UNCHANGED <<taskVars, configVars, cards, phase, rtask, rdone, requestVars, budgetVars>>

WorkSucceeds(r) ==
  /\ rpc[r] = "work"
  /\ ~rdone[r]
  /\ rpc' = [rpc EXCEPT ![r] = "publish"]
  /\ UNCHANGED <<taskVars, configVars, cards, phase, rtask, rdone, rout, requestVars, budgetVars>>

\* phase "succeeded": the card takes the context and the configuration read
\* at the start; Process succeeds with or without it.
Publish(r) ==
  /\ rpc[r] = "publish"
  /\ \/ /\ ~rdone[r]
        /\ cards' = [cards EXCEPT ![rtask[r]] = Append(@, "succeeded")]
        /\ UNCHANGED budgetVars
     \/ rdone[r] /\ UNCHANGED <<cards, budgetVars>>
     \/ ~rdone[r] /\ Fault /\ UNCHANGED cards
  /\ rpc' = [rpc EXCEPT ![r] = "finish"]
  /\ rout' = [rout EXCEPT ![r] = "succeeded"]
  /\ UNCHANGED <<taskVars, configVars, phase, rtask, rdone, requestVars>>

\* Mutant: the cancel function stays registered.
FreeRegistered(r) == rpc' = [rpc EXCEPT ![r] = "free"] /\ UNCHANGED <<rtask, rdone, rout>>

Free(r) ==
  /\ rpc' = [rpc EXCEPT ![r] = "free"]
  /\ rtask' = [rtask EXCEPT ![r] = None]
  /\ rdone' = [rdone EXCEPT ![r] = FALSE]
  /\ rout' = [rout EXCEPT ![r] = "none"]

\* Mutant: a success is announced twice.
AnnouncesAll(s) == TRUE

\* Process has announced a success itself.
Announces(s) == s # "succeeded"

FinishAnalysisTask(r) ==
  /\ rpc[r] = "finish"
  /\ IF status[rtask[r]] \in Active THEN SetStatus(rtask[r], rout[r]) ELSE UNCHANGED status
  /\ IF Announces(rout[r])
     THEN rpc' = [rpc EXCEPT ![r] = "notify"] /\ UNCHANGED <<rtask, rdone, rout>>
     ELSE Free(r)
  /\ UNCHANGED <<asked, rowVars, configVars, cards, phase, requestVars, budgetVars>>

\* The error is logged; the row keeps its slot.
FinishFails(r) ==
  /\ rpc[r] = "finish"
  /\ Fault
  /\ Free(r)
  /\ UNCHANGED <<taskVars, configVars, cards, phase, requestVars>>

NotifyTerminal(r) ==
  /\ rpc[r] = "notify"
  /\ SendTerminal(rtask[r], rout[r])
  /\ Free(r)
  /\ UNCHANGED <<taskVars, configVars, phase, requestVars>>

-----------------------------------------------------------------------------
(* The process.                                                            *)

MemoryLost ==
  /\ phase' = "boot"
  /\ rpc' = [r \in Runners |-> "free"]
  /\ rtask' = [r \in Runners |-> None]
  /\ rdone' = [r \in Runners |-> FALSE]
  /\ rout' = [r \in Runners |-> "none"]
  /\ kpc' = [k \in Requests |-> "idle"]
  /\ ktask' = [k \in Requests |-> None]
  /\ kseen' = [k \in Requests |-> "none"]
  /\ UNCHANGED <<taskVars, configVars, cards>>

Crash ==
  /\ crashes < MaxCrashes
  /\ crashes' = crashes + 1
  /\ MemoryLost
  /\ UNCHANGED <<edits, stops, faults>>

\* SIGTERM: the contexts of the runners derive from that of the pool.
Terminate ==
  /\ Serving
  /\ stops < MaxStops
  /\ stops' = stops + 1
  /\ phase' = "stopping"
  /\ rdone' = [r \in Runners |-> rpc[r] # "free"]
  /\ UNCHANGED <<taskVars, configVars, cards, rpc, rtask, rout, requestVars, edits, crashes, faults>>

\* main returns once HTTP is drained; it does not wait for the pool.
Exit ==
  /\ phase = "stopping"
  /\ \A k \in Requests : kpc[k] = "idle"
  /\ MemoryLost
  /\ UNCHANGED budgetVars

\* RecoverAnalysisTasks, first statement.
RecoverRequested ==
  /\ phase = "boot"
  /\ phase' = "recovering"
  /\ status' = [i \in Ids |-> IF status[i] = "cancel_requested" THEN "canceled" ELSE status[i]]
  /\ UNCHANGED <<asked, rowVars, configVars, cards, runnerVars, requestVars, budgetVars>>

\* Mutants: nothing is queued again; whatever had a slot is queued again.
RequeuesNone(i) == FALSE
RequeuesActive(i) == status[i] \in {"running", "cancel_requested", "canceled"}

Requeues(i) == status[i] = "running"

\* RecoverAnalysisTasks, second statement.
RecoverRunning ==
  /\ phase = "recovering"
  /\ phase' = "up"
  /\ status' = [i \in Ids |-> IF Requeues(i) THEN "queued" ELSE status[i]]
  /\ UNCHANGED <<asked, rowVars, configVars, cards, runnerVars, requestVars, budgetVars>>

\* Queue.Run returns the error and main goes on without the pool.
RecoverFails ==
  /\ phase \in {"boot", "recovering"}
  /\ Fault
  /\ phase' = "poolless"
  /\ UNCHANGED <<taskVars, configVars, cards, runnerVars, requestVars>>

-----------------------------------------------------------------------------
RequestStep(k) ==
  CancelUpdate(k) \/ CancelReread(k) \/ CancelFails(k) \/ CancelSignal(k) \/ CancelCard(k)

RunnerStep(r) ==
  \/ Register(r) \/ StartProcess(r) \/ WorkFails(r) \/ WorkSucceeds(r) \/ Publish(r)
  \/ FinishAnalysisTask(r) \/ FinishFails(r) \/ NotifyTerminal(r)

Next ==
  \/ \E d \in Deliveries : Receive(d)
  \/ \E i \in Ids : Retry(i)
  \/ \E c \in Configs : \/ CooldownEnds(c) \/ DeleteAnalysisConfig(c)
                        \/ \E n \in Limits : UpdateAnalysisConfig(c, n)
  \/ \E k \in Requests : RequestStep(k) \/ \E i \in Ids : CancelRead(k, i)
  \/ \E r \in Runners : ClaimAnalysisTask(r) \/ RunnerStep(r)
  \/ ClaimLost
  \/ Crash \/ Terminate \/ Exit
  \/ RecoverRequested \/ RecoverRunning \/ RecoverFails

Spec == Init /\ [][Next]_vars

\* The two-second ticker repeats the claim, a card is given up after ten seconds,
\* and the container restarts the process. That the work on a task ends is not
\* among it: logs and agents have timeouts, but the context of the run has no
\* deadline and git has no limit.
Progress(r) ==
  \/ Register(r) \/ StartProcess(r) \/ Publish(r)
  \/ FinishAnalysisTask(r) \/ NotifyTerminal(r)

Fairness ==
  /\ \A r \in Runners : WF_vars(Progress(r))
  /\ WF_vars(\E r \in Runners : ClaimAnalysisTask(r))
  /\ \A k \in Requests : WF_vars(RequestStep(k))
  /\ WF_vars(Exit) /\ WF_vars(RecoverRequested) /\ WF_vars(RecoverRunning)

FairSpec == Spec /\ Fairness

-----------------------------------------------------------------------------
(* Properties.                                                             *)

TableType ==
  /\ status \in [Ids -> Status]
  /\ config \in [Ids -> Configs \cup {None}]
  /\ delivery \in [Ids -> Deliveries \cup {None}]
  /\ \A i \in Ids : fingerprint[i] = None \/ \E d \in Deliveries : fingerprint[i] = FingerprintOf[d]
  /\ asked \in [Ids -> BOOLEAN]
  /\ lastId \in 0..MaxTasks
  /\ \A i \in Ids : status[i] = "absent" <=> i > lastId

ConfigType ==
  /\ limit \in [Configs -> Nat]
  /\ \A c \in Configs : /\ streak[c].count \in Nat
                        /\ streak[c].until \in {"none", "ahead", "over"}

MemoryType ==
  /\ phase \in {"boot", "recovering", "up", "poolless", "stopping"}
  /\ rpc \in [Runners -> {"free", "register", "check", "work", "publish", "finish", "notify"}]
  /\ rtask \in [Runners -> Ids \cup {None}]
  /\ rdone \in [Runners -> BOOLEAN]
  /\ rout \in [Runners -> Ended \cup {"none"}]
  /\ \A r \in Runners : rpc[r] = "free" <=> rtask[r] = None
  /\ kpc \in [Requests -> {"idle", "update", "reread", "signal", "card"}]
  /\ ktask \in [Requests -> Ids \cup {None}]
  /\ kseen \in [Requests -> Status \cup {"none"}]
  /\ \A k \in Requests : kpc[k] = "idle" <=> ktask[k] = None

TypeOK ==
  /\ TableType /\ ConfigType /\ MemoryType
  /\ cards \in [Ids -> Seq(Ended)]

\* The table implements AnalysisLifecycle: through restarts and races of the
\* console with the pool, a task asked to stop never starts again and a task
\* that ended stays so.
Lifecycle == INSTANCE AnalysisLifecycle WITH Tasks <- Ids
LifecycleSpec == Lifecycle!Spec

WorkingFor(c) ==
  {r \in Runners : rpc[r] \notin {"free", "notify"} /\ config[rtask[r]] = c}

\* Rows grant the slots, goroutines use them: no claim gives a configuration
\* more goroutines at work than its limit, also when the limit was just
\* lowered, when tasks are being cancelled, and after a restart.
SlotsHold ==
  [][\A c \in Configs : \A r \in Runners :
       rpc[r] = "free" /\ rpc'[r] # "free" /\ r \in WorkingFor(c)'
         => Cardinality(WorkingFor(c)') <= limit[c]]_vars

\* A recorded request to cancel reaches the run, whether the cancel function
\* was registered before or after the request looked for it: past its check,
\* the run is cancelled or the request is about to do so.
CancelReaches ==
  faults = 0 => \A i \in Ids : \A r \in Runners :
    status[i] = "cancel_requested" /\ rtask[r] = i /\ rpc[r] \in {"work", "publish"} =>
      rdone[r] \/ \E k \in Requests : ktask[k] = i /\ kpc[k] \in {"reread", "signal"}

\* The chat is told how the task ended: the last terminal card of an ended
\* task carries its status. A restart may repeat a task after its card.
CardTellsStatus ==
  crashes + stops = 0 => \A i \in Ids :
    status[i] \in Final /\ cards[i] # <<>> => cards[i][Len(cards[i])] = status[i]

\* Without a failed statement, a running row of a pool that is up has a runner.
RunningOwned ==
  phase = "up" /\ faults = 0 => \A i \in Ids : status[i] = "running" => \E r \in Runners : rtask[r] = i

\* The alerts of i's configuration before i; retries are no alerts.
Before(i) == {j \in Ids : j < i /\ delivery[j] # None /\ config[j] = config[i]}
Preceding(i, n) == {j \in Before(i) : Cardinality({m \in Before(i) : m >= j}) <= n}

\* i repeats the last `Threshold` alerts of its configuration.
Repeats(i) ==
  LET last == Preceding(i, Threshold[config[i]]) IN
  /\ Cardinality(last) = Threshold[config[i]]
  /\ \A j \in last : fingerprint[j] = fingerprint[i]

\* The counter of the throttle is right: an alert is suppressed only when the
\* last `Threshold` alerts of its configuration were the same, and always then
\* unless a cooldown, which the first suppressed alert starts, may be over.
ThrottleCounts ==
  \A i \in Ids : config[i] # None /\ delivery[i] # None =>
    /\ status[i] = "suppressed" => Repeats(i)
    /\ Repeats(i) /\ (Cools[config[i]] => \A j \in Before(i) : status[j] # "suppressed")
         => status[i] = "suppressed"

\* README: "webhook mode sends only one terminal card". It does until the
\* process stops, unless the task is canceled: then the runner and the request
\* may each send one.
OneTerminalCard ==
  crashes + stops = 0 => \A i \in Ids : status[i] = "canceled" \/ Len(cards[i]) <= 1

\* Being cancelled, with no goroutine left to end the task.
Orphaned(i) ==
  phase = "up" /\ status[i] = "cancel_requested" /\ \A r \in Runners : rtask[r] # i

\* No work on a task lasts forever. Nothing in the code ensures it: a fetch
\* that hangs keeps its runner and a slot of its configuration.
WorkComesBack == \A r \in Runners : []<>(rpc[r] # "work")

\* If the work on tasks comes back, and unless a statement fails or a request
\* to cancel slips into the recovery, every queued task ends.
EveryTaskEnds ==
  WorkComesBack /\ [](faults = 0 /\ \A i \in Ids : ~Orphaned(i)) =>
    \A i \in Ids : status[i] = "queued" ~> status[i] \in Ended
=============================================================================
