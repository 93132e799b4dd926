--------------------------- MODULE MCAnalysisQueue ----------------------------
(* Small instances of AnalysisQueue for TLC. *)
EXTENDS AnalysisQueue, TLC

CONSTANTS c1, d1, d2, d3, f1, f2, r1, r2

\* All go to c1; d3 differs from its neighbours.
Sent == [d \in Deliveries |-> c1]
Kind == [d \in Deliveries |-> IF d = d3 THEN f2 ELSE f1]

One == [c \in Configs |-> 1]

\* With and without a cooldown.
AllCool   == [c \in Configs |-> TRUE]
NoneCools == [c \in Configs |-> FALSE]

RunnerSymmetry == Permutations(Runners)
=============================================================================
