---------------------------- MODULE SettingsPanel ---------------------------
(***************************************************************************)
(* The panel of the global settings: one form over all of them, saved      *)
(* group by group (App.jsx, ConfigPanel), over handleGetSettings and       *)
(* handlePostSettings.                                                     *)
(*                                                                         *)
(* Nothing waits for the first load, nothing disables a save while another *)
(* is under way, and every load replaces the whole form.  The snapshots    *)
(* and the option lists that are only displayed (effective configuration,  *)
(* cc-switch options, reviewer status) are left out.                       *)
(***************************************************************************)
EXTENDS SettingsStore

CONSTANT Groups   \* FIELD_GROUPS: sets of keys

ASSUME GroupsAssumption == Groups \subseteq SUBSET Keys

VARIABLES
    settings,       \* the form
    formBase,       \* auxiliary: the table the form was loaded from, None before
    settingCalls

settingsVars == <<storedSettings, settings, formBase, settingCalls>>

SettingOps == {"load", "save"}
LoadSettings == Ask("load", None, None)

SettingsInit ==
    /\ StoreInit
    /\ settings = BeforeLoading
    /\ formBase = None
    /\ settingCalls = IF tab = "config" THEN {LoadSettings} ELSE {}

SettingsSelect(t) ==
    IF (t = "config") = (tab = "config") THEN UNCHANGED settingsVars
    ELSE /\ settings' = BeforeLoading
         /\ formBase' = None
         /\ settingCalls' = Orphans(settingCalls, {"save"}) \cup (IF t = "config" THEN {LoadSettings} ELSE {})
         /\ UNCHANGED storedSettings

---------------------------------------------------------------------------
TypeSetting ==
    /\ \E k \in Keys : settings[k] # "typed" /\ settings' = [settings EXCEPT ![k] = "typed"]
    /\ UNCHANGED <<storedSettings, formBase, settingCalls>>

ReloadSettings ==
    /\ settingCalls' = settingCalls \cup {LoadSettings}
    /\ UNCHANGED <<storedSettings, settings, formBase>>

\* Mutant: a secret that is redacted is sent as the empty field it is shown as.
PayloadOfAll(group) ==
    [k \in group |-> IF k \in SecretKeys /\ settings[k] = "redacted" THEN "blank" ELSE OrBlank(settings[k])]

\* saveGroup: every key of the group but the secrets that are redacted.
Payload(group) ==
    [k \in {j \in group : ~(j \in SecretKeys /\ OrBlank(settings[j]) = "redacted")} |-> OrBlank(settings[k])]
SaveGroup ==
    /\ \E group \in Groups :
          /\ DOMAIN Payload(group) # {}
          /\ settingCalls' = settingCalls \cup {Ask("save", Payload(group), formBase)}
    /\ UNCHANGED <<storedSettings, settings, formBase>>

SettingsUser == tab = "config" /\ (TypeSetting \/ (Room(settingCalls) /\ (ReloadSettings \/ SaveGroup)))

---------------------------------------------------------------------------
ServeLoad(c) ==
    /\ c.op = "load"
    /\ settingCalls' = AfterServing(settingCalls, c, storedSettings)
    /\ UNCHANGED storedSettings

\* handlePostSettings stores the keys one by one, in no order and outside a
\* transaction; a redacted secret is passed over.  What is left to store
\* stays in the request; with nothing left it is answered.
StoreKey(c) ==
    \E k \in DOMAIN c.on :
       LET rest == [c EXCEPT !.on = [j \in DOMAIN c.on \ {k} |-> c.on[j]]]
       IN  /\ storedSettings' = IF k \in SecretKeys /\ c.on[k] = "redacted" THEN storedSettings
                                ELSE [storedSettings EXCEPT ![k] = c.on[k]]
           /\ settingCalls' = IF DOMAIN rest.on # {} THEN (settingCalls \ {c}) \cup {rest}
                              ELSE (settingCalls \ {c}) \cup (IF c.phase = "orphan" THEN {} ELSE {Served(rest, None)})
ServeSave(c) == c.op = "save" /\ StoreKey(c)

SettingsServe(op) ==
    /\ \E c \in Unserved(settingCalls) : c.op = op /\ (ServeLoad(c) \/ ServeSave(c))
    /\ UNCHANGED <<settings, formBase>>

\* A save is followed by a load; a load replaces what was typed meanwhile.
DeliverLoad(c) ==
    /\ c.op = "load"
    /\ settings' = WithDefaults(Told(c.answer))
    /\ formBase' = c.answer
    /\ settingCalls' = settingCalls \ {c}
DeliverSaved(c) ==
    /\ c.op = "save"
    /\ settingCalls' = (settingCalls \ {c}) \cup {LoadSettings}
    /\ UNCHANGED <<settings, formBase>>

SettingsDeliver(op) ==
    /\ tab = "config"
    /\ \E c \in Arrived(settingCalls) : c.op = op /\ (DeliverLoad(c) \/ DeliverSaved(c))
    /\ UNCHANGED storedSettings

\* A request is given up, or fails at a key: the keys before it are stored.
SettingsFail ==
    /\ tab = "config"
    /\ \E c \in Waiting(settingCalls) : settingCalls' \in GivenUp(settingCalls, c, {"save"})
    /\ UNCHANGED <<storedSettings, settings, formBase>>

SettingsNext ==
    \/ \E t \in Tabs : SettingsSelect(t) /\ tab' = t
    \/ /\ \/ SettingsUser \/ SettingsFail
          \/ \E op \in SettingOps : SettingsServe(op) \/ SettingsDeliver(op)
       /\ UNCHANGED tab

SettingsSpec == tab \in Tabs /\ SettingsInit /\ [][SettingsNext]_<<tab, settingsVars>>

---------------------------------------------------------------------------
\* The types of what the panel keeps.
SettingsTypeOK ==
    /\ storedSettings \in [Keys -> Values]
    /\ settings \in [Keys -> Values]
    /\ formBase \in [Keys -> Values] \cup {None}
    /\ \A c \in settingCalls : c.op \in SettingOps /\ c.phase \in {"sent", "served", "orphan"}

\* A save changes the keys that were typed, and those that were not in the
\* table; any other only if the form was never loaded, or if the key was
\* changed after the load the form comes from.
SavesKeepRest ==
    [][\A k \in Keys : storedSettings'[k] # storedSettings[k] =>
          \E c \in settingCalls :
             /\ c.op = "save" /\ k \in DOMAIN c.on /\ storedSettings'[k] = c.on[k]
             /\ \/ c.on[k] = "typed"
                \/ storedSettings[k] = "unset"
                \/ c.from = None
                \/ c.from # None /\ c.from[k] # storedSettings[k]]_<<tab, settingsVars>>

=============================================================================
