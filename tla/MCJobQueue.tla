---------------------------- MODULE MCJobQueue ------------------------------
(* Small instances of JobQueue for TLC. *)
EXTENDS JobQueue, TLC

CONSTANTS p1, p2, r1, r2, d1, d2, d3

OneRepo  == [p \in PRs |-> r1]

\* d1 and d2 concern p1, d3 concerns p2.
TwoThenOne == [d \in Deliveries |-> IF d = d3 THEN p2 ELSE p1]

Once == [d \in Deliveries |-> 1]
FirstTwice == [d \in Deliveries |-> IF d = d1 THEN 2 ELSE 1]

WorkerSymmetry == Permutations(Workers)
Symmetric == Permutations(Workers) \cup Permutations(Handlers)
=============================================================================
