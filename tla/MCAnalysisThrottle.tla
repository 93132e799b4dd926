------------------------- MODULE MCAnalysisThrottle --------------------------
(* Instances of AnalysisQueue for the throttle: enough alerts to count, to be  *)
(* interrupted by another alert, to be suppressed, to cool down and to start   *)
(* again. The tasks are stored and retried; nobody works on them.              *)
EXTENDS AnalysisQueue, TLC

CONSTANTS c1, c2, d1, d2, d3, d4, d5, d6, d7, d8, d9, f1, f2

\* d7, d8 and d9 go to c2; d3, d6 and d9 differ from the others.
Sent == [d \in Deliveries |-> IF d \in {d7, d8, d9} THEN c2 ELSE c1]
Kind == [d \in Deliveries |-> IF d \in {d3, d6, d9} THEN f2 ELSE f1]

\* c1 suppresses from the third on and cools down, c2 from the second on
\* without a cooldown.
Counts == [c \in Configs |-> IF c = c1 THEN 2 ELSE 1]
FirstCools == [c \in Configs |-> c = c1]

One == [c \in Configs |-> 1]

AlertSymmetry ==
  Permutations({d1, d2, d4, d5}) \cup Permutations({d3, d6}) \cup Permutations({d7, d8})
=============================================================================
