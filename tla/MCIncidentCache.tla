--------------------------- MODULE MCIncidentCache ----------------------------
(* A small instance of IncidentCache for TLC. *)
EXTENDS IncidentCache

CONSTANTS ra, da, da2, pa, pa2

Belongs == [d \in Trees |-> ra]
Uses    == [p \in Runs |-> IF p = pa THEN da ELSE da2]
=============================================================================
