---------------------------- MODULE JobLifecycle ----------------------------
(***************************************************************************)
(* What the queue promises about its table, whoever calls it and whatever  *)
(* fails: a job is submitted once, runs only while no other job of its     *)
(* pull request runs, may be sent back to wait, and ends in a state it     *)
(* never leaves.                                                           *)
(***************************************************************************)
CONSTANTS Ids, PRs, None

VARIABLES status, pr

lifecycleVars == <<status, pr>>

Waiting == {i \in Ids : status[i] = "pending"}
Running == {i \in Ids : status[i] = "running"}
Ended   == {i \in Ids : status[i] \in {"done", "failed", "superseded", "canceled"}}

\* The rows of S move to status s, all at once.
Move(S, s) == status' = [i \in Ids |-> IF i \in S THEN s ELSE status[i]]

Init ==
  /\ status = [i \in Ids |-> "absent"]
  /\ pr = [i \in Ids |-> None]

Submit(i, p) ==
  /\ status[i] = "absent"
  /\ Move({i}, "pending")
  /\ pr' = [pr EXCEPT ![i] = p]

Start(i) ==
  /\ i \in Waiting
  /\ \A r \in Running : pr[r] # pr[i]
  /\ Move({i}, "running")
  /\ UNCHANGED pr

\* A retry sends one job back, a restart every job that was running.
Requeue(S) ==
  /\ S \subseteq Running
  /\ Move(S, "pending")
  /\ UNCHANGED pr

Conclude(i, s) ==
  /\ i \in Running
  /\ Move({i}, s)
  /\ UNCHANGED pr

\* A push replaces every job of the pull request that has not ended.
Replace(p) ==
  /\ Move({i \in Waiting \cup Running : pr[i] = p}, "superseded")
  /\ UNCHANGED pr

Cancel(i) ==
  /\ i \in Waiting
  /\ Move({i}, "canceled")
  /\ UNCHANGED pr

Next ==
  \/ \E i \in Ids, p \in PRs : Submit(i, p)
  \/ \E i \in Ids : Start(i) \/ Cancel(i)
  \/ \E i \in Ids, s \in {"done", "failed", "superseded"} : Conclude(i, s)
  \/ \E S \in SUBSET Ids : Requeue(S)
  \/ \E p \in PRs : Replace(p)

Spec == Init /\ [][Next]_lifecycleVars
=============================================================================
