-------------------------- MODULE AnalysisLifecycle --------------------------
(***************************************************************************)
(* What the console promises about alert tasks ("the durable lifecycle of  *)
(* one alert analysis"), whoever moves them: a task whose cancellation is  *)
(* recorded never starts or waits again, and a task that ended stays so.   *)
(***************************************************************************)
CONSTANT Tasks

VARIABLES status, asked   \* `asked`: a cancellation was recorded

lifecycle == <<status, asked>>

Init ==
  /\ status = [i \in Tasks |-> "absent"]
  /\ asked = [i \in Tasks |-> FALSE]

\* One task, from s to t, without a new request to cancel it.
Moves(s, t) ==
  \/ s = "absent" /\ t \in {"queued", "suppressed"}
  \/ s = "queued" /\ t = "running"
  \/ s = "running" /\ t \in {"succeeded", "failed", "canceled", "queued"}
  \/ s = "cancel_requested" /\ t \in {"succeeded", "failed", "canceled"}

\* One task, from s to t, with the request.
Canceled(s, t) ==
  \/ s = "queued" /\ t = "canceled"
  \/ s = "running" /\ t = "cancel_requested"

\* A restart moves many tasks at once.
Next ==
  /\ \A i \in Tasks :
       \/ status'[i] = status[i] /\ asked'[i] = asked[i]
       \/ Moves(status[i], status'[i]) /\ asked'[i] = asked[i]
       \/ Canceled(status[i], status'[i]) /\ asked'[i] = TRUE
  /\ status' = [i \in Tasks |-> status'[i]]
  /\ asked' = [i \in Tasks |-> asked'[i]]

Spec == Init /\ [][Next]_lifecycle

\* A task asked to stop is over or on its way.
AskedStops ==
  \A i \in Tasks : asked[i] => status[i] \notin {"absent", "queued", "running", "suppressed"}
=============================================================================
