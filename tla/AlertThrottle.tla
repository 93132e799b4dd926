---------------------------- MODULE AlertThrottle ----------------------------
(***************************************************************************)
(* The duplicate throttle of one analysis configuration: what              *)
(* applyAnalysisThrottle does to the row of analysis_throttle_states when  *)
(* an alert arrives. Time is kept only as where `suppressed_until` lies:   *)
(* "none", "ahead" or "over".                                              *)
(***************************************************************************)
EXTENDS Naturals

\* No row yet, or none any more. Fingerprints are never `nothing`.
NoStreak(nothing) == [fingerprint |-> nothing, count |-> 0, until |-> "none"]

First(f) == [fingerprint |-> f, count |-> 1, until |-> "none"]

\* Mutant: one alert too many is analysed.
SuppressesLate(row, f, threshold) ==
  /\ row.fingerprint = f
  /\ \/ row.until = "ahead"
     \/ row.until = "none" /\ row.count > threshold

\* The alert with fingerprint f is stored as suppressed.
Suppresses(row, f, threshold) ==
  /\ row.fingerprint = f
  /\ \/ row.until = "ahead"
     \/ row.until = "none" /\ row.count >= threshold

\* The row after that alert; `cools` says that a cooldown is configured.
NextStreak(row, f, threshold, cools) ==
  IF row.fingerprint # f \/ row.until = "over"
  THEN First(f)
  ELSE [row EXCEPT !.count = row.count + 1,
                      !.until = IF cools /\ Suppresses(row, f, threshold)
                                THEN "ahead" ELSE row.until]
=============================================================================
