-------------------------- MODULE ConsoleRequests ---------------------------
(***************************************************************************)
(* What the panels of the admin console (frontend/src/App.jsx) share: the  *)
(* tab that is open, and the requests a panel has sent and not yet seen    *)
(* the end of.                                                             *)
(*                                                                         *)
(* A request is a record of what is asked (`op', `on') and of what the     *)
(* closure that waits for it remembers (`from').  It is "sent", then       *)
(* "served": the server has acted and its `answer' is a snapshot that is   *)
(* already ageing, then its answer is delivered and the record goes away.  *)
(* Nothing orders two requests, so answers overtake each other.  fetchJSON *)
(* gives every request up after a timeout: before, during or after the     *)
(* server's work.  A write that was given up unserved may still be served: *)
(* it stays as an "orphan" that nobody waits for.  So does a write of a    *)
(* panel that is unmounted.                                                *)
(*                                                                         *)
(* The requests of a panel are a set: two of them that agree in every      *)
(* field are one, as their answers have the same effect.                   *)
(***************************************************************************)
EXTENDS Naturals, FiniteSets

CONSTANTS
    None,      \* null
    MaxCalls   \* bound: requests a panel has open when it sends another

ASSUME MaxCallsAssumption == MaxCalls \in Nat \ {0}

VARIABLE tab   \* activeTab

\* The tabs whose panels keep state of their own.
Tabs == {"jobs", "alert_tasks", "alert_configs", "chat", "analytics", "skills", "config"}

Ask(op, on, from) ==
    [op |-> op, on |-> on, from |-> from, phase |-> "sent", answer |-> None]

Served(c, answer) == [op |-> c.op, on |-> c.on, from |-> c.from, phase |-> "served", answer |-> answer]

\* What may be left of c among `calls' when nobody waits for it any more:
\* nothing, or a write that the server has yet to see.
GivenUp(calls, c, writes) ==
    {calls \ {c}} \cup
    (IF c.phase = "sent" /\ c.op \in writes
     THEN {(calls \ {c}) \cup {[c EXCEPT !.phase = "orphan"]}} ELSE {})

\* What is left of the requests of a panel that is unmounted: React ignores
\* the answers, the server still does the work.
Orphans(calls, writes) ==
    {[c EXCEPT !.phase = "orphan"] : c \in {d \in calls : d.op \in writes /\ d.phase = "sent"}}
    \cup {c \in calls : c.phase = "orphan"}

Waiting(calls) == {c \in calls : c.phase # "orphan"}
Unserved(calls) == {c \in calls : c.phase \in {"sent", "orphan"}}
Arrived(calls) == {c \in calls : c.phase = "served"}

\* The requests once the server has worked on c.
AfterServing(calls, c, answer) ==
    (calls \ {c}) \cup (IF c.phase = "orphan" THEN {} ELSE {Served(c, answer)})

Room(calls) == Cardinality(Waiting(calls)) < MaxCalls

=============================================================================
