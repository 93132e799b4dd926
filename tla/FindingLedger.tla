---------------------------- MODULE FindingLedger ----------------------------
(***************************************************************************)
(* What the orchestrator promises about the findings of a pull request,    *)
(* whatever fails: a finding enters the table only after its agent showed  *)
(* it in a review, is marked fixed only after its agent said so in a       *)
(* review that does not show it, and while it is open no new review of the *)
(* agent passes over it in silence.                                        *)
(***************************************************************************)
CONSTANTS Agents, Issues, CarriedAs

VARIABLES
  ledger,    \* the status of each finding of each agent
  lists,     \* what the last review of each agent shows
  resolves   \* what the last review of each agent declares fixed

ledgerVars == <<ledger, lists, resolves>>

Open(a) == {i \in Issues : ledger[a][i] = "open"}

\* A review that shows L and declares R fixed accounts for the open finding i.
Accounts(i, L, R) == i \in L \/ i \in R \/ CarriedAs[i] \in L

Init ==
  /\ ledger = [a \in Agents |-> [i \in Issues |-> "none"]]
  /\ lists = [a \in Agents |-> {}]
  /\ resolves = [a \in Agents |-> {}]

Publish(a, L, R) ==
  /\ \A i \in Open(a) : Accounts(i, L, R)
  /\ lists' = [lists EXCEPT ![a] = L]
  /\ resolves' = [resolves EXCEPT ![a] = R]
  /\ UNCHANGED ledger

Enter(a) ==
  /\ ledger' = [ledger EXCEPT ![a] =
                 [i \in Issues |-> IF i \in lists[a] THEN "open" ELSE ledger[a][i]]]
  /\ UNCHANGED <<lists, resolves>>

Settle(a) ==
  /\ ledger' = [ledger EXCEPT ![a] =
                 [i \in Issues |-> IF i \in resolves[a] \ lists[a] /\ ledger[a][i] # "none"
                                   THEN "fixed" ELSE ledger[a][i]]]
  /\ UNCHANGED <<lists, resolves>>

Next == \E a \in Agents :
  \/ \E L, R \in SUBSET Issues : Publish(a, L, R)
  \/ Enter(a)
  \/ Settle(a)

Spec == Init /\ [][Next]_ledgerVars

\* Every open finding of an agent is shown or declared fixed by the agent's
\* last review: a reader of the pull request never misses one.
NothingHidden == \A a \in Agents : \A i \in Open(a) : Accounts(i, lists[a], resolves[a])
=============================================================================
