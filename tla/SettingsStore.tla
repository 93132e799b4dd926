---------------------------- MODULE SettingsStore ---------------------------
(***************************************************************************)
(* The settings table as the console reads it: handleGetSettings redacts   *)
(* the secrets, and both panels that show settings (App.jsx, ConfigPanel   *)
(* and ChatProbePanel) lay the answer over DEFAULT_SETTINGS.               *)
(*                                                                         *)
(* A value is what the properties tell apart: not there, empty, redacted,  *)
(* the default of the console, the value stored from the start, typed.     *)
(***************************************************************************)
EXTENDS ConsoleRequests

CONSTANTS
    Keys,         \* the keys of FIELDS that are modelled
    SecretKeys,   \* SECRET_FIELDS
    DefaultKeys,  \* the keys of DEFAULT_SETTINGS
    StoredKeys    \* keys that are in the table from the start

ASSUME KeysAssumption ==
    /\ SecretKeys \subseteq Keys /\ DefaultKeys \subseteq Keys \ SecretKeys /\ StoredKeys \subseteq Keys

VARIABLE storedSettings   \* key -> value

Values == {"unset", "blank", "redacted", "default", "old", "typed"}

StoreInit == storedSettings = [k \in Keys |-> IF k \in StoredKeys THEN "old" ELSE "unset"]

\* handleGetSettings: what the browser is told of a table.
Told(stored) ==
    [k \in Keys |-> IF k \in SecretKeys /\ stored[k] \notin {"unset", "blank"} THEN "redacted" ELSE stored[k]]

\* { ...DEFAULT_SETTINGS, ...payload }
WithDefaults(told) ==
    [k \in Keys |-> IF told[k] = "unset" /\ k \in DefaultKeys THEN "default" ELSE told[k]]

\* What the panels show before any answer, and after one.
BeforeLoading == WithDefaults([k \in Keys |-> "unset"])

\* settings[key] || '' and settings[key] ?? ''.
OrBlank(v) == IF v = "unset" THEN "blank" ELSE v

=============================================================================
