---------------------------- MODULE MCReviewRun -------------------------------
(* Small instances of ReviewRun for TLC. *)
EXTENDS ReviewRun

CONSTANTS codex, severe

OneReviewer  == <<codex>>

\* Every finding has a title.
Titled == [i \in Issues |-> i]
=============================================================================
