---------------------------- MODULE ConfigsPanel ----------------------------
(***************************************************************************)
(* The panel of alert configurations: a list, and a form under a heading   *)
(* that says which configuration it edits (App.jsx, AnalysisConfigsPanel), *)
(* over the configuration handlers of the console server.                  *)
(*                                                                         *)
(* Of the fields of a configuration the model keeps four: `plain' stands   *)
(* for those that are shown as they are stored, `enabled' for itself,      *)
(* `key' for the secrets that a configuration must have and that a blank   *)
(* keeps, `hook' for the webhook.  What the admin types is the heading it  *)
(* was typed under, so that a value tells where it comes from; the stored  *)
(* values of a configuration that is there from the start are its own id.  *)
(***************************************************************************)
EXTENDS ConsoleRequests

CONSTANTS
    MaxConfigs,  \* bound: configurations the server ever has
    Blank,       \* the empty string
    Redacted     \* "***set***"

ASSUME ConfigsAssumption ==
    /\ MaxConfigs \in Nat
    /\ Blank \notin Nat /\ Redacted \notin Nat /\ None \notin Nat
    /\ Cardinality({None, Blank, Redacted}) = 3

VARIABLES
    alertConfigs,    \* the configurations stored: id -> fields
    configList,      \* configs: id -> fields as the server shows them
    heading,         \* selectedId, New when it is null
    form,
    configsBusy,     \* busy
    ingestAddress,   \* whose receiving address is shown, or None
    configCalls

configsLocal == <<configList, heading, form, configsBusy, ingestAddress>>
configsVars == <<alertConfigs, configsLocal, configCalls>>

New == 0
StartConfigs == 1..2
EmptyForm == [plain |-> Blank, enabled |-> TRUE, key |-> Blank, hook |-> Blank]
Secrets == {"key", "hook"}
Typable == {"plain"} \cup Secrets
\* "store" is an update whose handler has read the configuration.
ConfigWrites == {"create", "update", "store", "toggle", "delete", "rotate"}
ConfigOps == {"list", "reload", "test"} \cup ConfigWrites

Redact(v) == IF v = Blank THEN Blank ELSE Redacted
\* analysisConfigView
ConfigView(f) == [plain |-> f.plain, enabled |-> f.enabled, key |-> Redact(f.key), hook |-> Redact(f.hook)]
ShownConfigs == [i \in DOMAIN alertConfigs |-> ConfigView(alertConfigs[i])]

LoadConfigs == {Ask("list", None, None)}

ConfigsInit ==
    /\ alertConfigs = [i \in StartConfigs |-> [plain |-> i, enabled |-> TRUE, key |-> i, hook |-> i]]
    /\ configList = <<>>
    /\ heading = New
    /\ form = EmptyForm
    /\ configsBusy = FALSE
    /\ ingestAddress = None
    /\ configCalls = IF tab = "alert_configs" THEN LoadConfigs ELSE {}

ConfigsSelect(t) ==
    IF (t = "alert_configs") = (tab = "alert_configs") THEN UNCHANGED configsVars
    ELSE /\ configList' = <<>>
         /\ heading' = New
         /\ form' = EmptyForm
         /\ configsBusy' = FALSE
         /\ ingestAddress' = None
         /\ configCalls' = Orphans(configCalls, ConfigWrites)
                           \cup (IF t = "alert_configs" THEN LoadConfigs ELSE {})
         /\ UNCHANGED alertConfigs

---------------------------------------------------------------------------
\* Mutant: the secrets that were typed are kept when the form is filled.
EditRest(h, f) ==
    /\ heading' = h
    /\ form' = [f EXCEPT !.key = form.key, !.hook = form.hook]
    /\ ingestAddress' = None

\* selectConfig and newConfig: the form starts over with the heading.
Edit(h, f) ==
    /\ heading' = h
    /\ form' = f
    /\ ingestAddress' = None
SelectConfig ==
    /\ \E i \in DOMAIN configList : Edit(i, configList[i])
    /\ UNCHANGED <<alertConfigs, configList, configsBusy, configCalls>>
NewConfig ==
    /\ Edit(New, EmptyForm)
    /\ UNCHANGED <<alertConfigs, configList, configsBusy, configCalls>>

SetField ==
    /\ \E k \in Typable, v \in {heading, Blank} : form' = [form EXCEPT ![k] = v]
    /\ UNCHANGED <<alertConfigs, configList, heading, configsBusy, ingestAddress, configCalls>>

\* A press sends the form, or what is derived from it, under the heading.
Send(op, body) ==
    /\ configCalls' = configCalls \cup {Ask(op, heading, body)}
    /\ UNCHANGED <<alertConfigs, configList, heading, form, ingestAddress>>
Save ==
    /\ ~configsBusy
    /\ configsBusy' = TRUE
    /\ Send(IF heading = New THEN "create" ELSE "update", form)
TestConnection ==
    /\ ~configsBusy /\ heading # New
    /\ configsBusy' = TRUE
    /\ Send("test", None)
PressConfig ==
    /\ heading # New
    /\ Send("toggle", ~form.enabled) \/ Send("delete", None) \/ Send("rotate", None)
    /\ UNCHANGED configsBusy

ConfigsUser ==
    /\ tab = "alert_configs"
    /\ \/ SelectConfig \/ NewConfig \/ SetField
       \/ Room(configCalls) /\ (Save \/ TestConnection \/ PressConfig)

---------------------------------------------------------------------------
\* The server.  A request about a configuration that is gone, a form that
\* does not validate and (bound) one configuration too many are refused: the
\* answer is an error, None.
Answer(c, answer) == configCalls' = AfterServing(configCalls, c, answer)
Refuse(c) == Answer(c, None) /\ UNCHANGED alertConfigs
Shown(i, f) == [id |-> i, view |-> ConfigView(f)]
Store(c, i, f) ==
    /\ alertConfigs' = [j \in DOMAIN alertConfigs \cup {i} |-> IF j = i THEN f ELSE alertConfigs[j]]
    /\ Answer(c, Shown(i, f))
Valid(f) == f.plain # Blank /\ f.key # Blank

\* handleCreateAnalysisConfig stores the form as it comes.  The id is an
\* INTEGER PRIMARY KEY, one more than the largest there is, so the id of the
\* newest configuration is given again when that one has been deleted.
NextId(i) == (\A j \in DOMAIN alertConfigs : j < i) /\ (i = 1 \/ i - 1 \in DOMAIN alertConfigs)
ServeCreate(c) ==
    /\ c.op = "create"
    /\ \/ Valid(c.from) /\ \E i \in 1..MaxConfigs : NextId(i) /\ Store(c, i, c.from)
       \/ (~Valid(c.from) \/ MaxConfigs \in DOMAIN alertConfigs) /\ Refuse(c)

\* handleUpdateAnalysisConfig: a blank or redacted key keeps the stored one,
\* the webhook is kept only when it is redacted.  The configuration is read and
\* written by two statements, and others are served in between: what is kept
\* is what was read.
Kept(f, stored) ==
    [plain |-> f.plain, enabled |-> f.enabled,
     key   |-> IF f.key \in {Blank, Redacted} THEN stored.key ELSE f.key,
     hook  |-> IF f.hook = Redacted THEN stored.hook ELSE f.hook]
ReadForUpdate(c) ==
    /\ c.op = "update"
    /\ c.on \in DOMAIN alertConfigs
    /\ configCalls' = (configCalls \ {c})
                       \cup {[Ask("store", c.on, Kept(c.from, alertConfigs[c.on])) EXCEPT !.phase = c.phase]}
    /\ UNCHANGED alertConfigs
StoreUpdate(c) ==
    /\ c.op = "store"
    /\ c.on \in DOMAIN alertConfigs /\ Valid(c.from)
    /\ Store(c, c.on, c.from)
ServeUpdate(c) ==
    \/ ReadForUpdate(c) \/ StoreUpdate(c)
    \/ /\ c.op = "update" /\ c.on \notin DOMAIN alertConfigs
       /\ Refuse(c)
    \/ /\ c.op = "store" /\ (c.on \notin DOMAIN alertConfigs \/ ~Valid(c.from))
       /\ Refuse(c)

ServeToggle(c) ==
    /\ c.op = "toggle"
    /\ IF c.on \in DOMAIN alertConfigs
       THEN Store(c, c.on, [alertConfigs[c.on] EXCEPT !.enabled = c.from]) ELSE Refuse(c)

ServeDelete(c) ==
    /\ c.op = "delete"
    /\ IF c.on \in DOMAIN alertConfigs
       THEN /\ alertConfigs' = [j \in DOMAIN alertConfigs \ {c.on} |-> alertConfigs[j]]
            /\ Answer(c, c.on)
       ELSE Refuse(c)

\* handleRotateAnalysisConfigToken, the tests and the list.
ServeConfigRead(c) ==
    \/ /\ c.op \in {"rotate", "test"}
       /\ IF c.on \in DOMAIN alertConfigs THEN Answer(c, c.on) /\ UNCHANGED alertConfigs ELSE Refuse(c)
    \/ /\ c.op \in {"list", "reload"}
       /\ Answer(c, ShownConfigs)
       /\ UNCHANGED alertConfigs

ConfigsServe(op) ==
    /\ \E c \in Unserved(configCalls) :
          /\ c.op = op
          /\ ServeCreate(c) \/ ServeUpdate(c) \/ ServeToggle(c) \/ ServeDelete(c) \/ ServeConfigRead(c)
    /\ UNCHANGED configsLocal

---------------------------------------------------------------------------
\* The buttons that setBusy disables are free again.
Frees(op) == op \in {"create", "update", "store", "reload", "test"}
Free(c) == configsBusy' = (configsBusy /\ ~Frees(c.op))

\* The first answer of a save; the list is loaded before the form moves.
DeliverSave(c) ==
    /\ c.op \in {"create", "store"}
    /\ ingestAddress' = IF c.op = "create" THEN c.answer.id ELSE ingestAddress
    /\ configCalls' = (configCalls \ {c}) \cup {Ask("reload", c.answer.id, None)}
    /\ UNCHANGED <<configList, heading, form, configsBusy>>
DeliverReload(c) ==
    /\ c.op = "reload"
    /\ configList' = c.answer
    /\ IF c.on \in DOMAIN c.answer THEN heading' = c.on /\ form' = c.answer[c.on] ELSE UNCHANGED <<heading, form>>
    /\ Free(c)
    /\ configCalls' = configCalls \ {c}
    /\ UNCHANGED ingestAddress

\* The answer of a toggle becomes the form, whatever the heading is by now.
DeliverToggle(c) ==
    /\ c.op = "toggle"
    /\ form' = c.answer.view
    /\ configCalls' = (configCalls \ {c}) \cup LoadConfigs
    /\ UNCHANGED <<configList, heading, configsBusy, ingestAddress>>
DeliverDelete(c) ==
    /\ c.op = "delete"
    /\ Edit(New, EmptyForm)
    /\ configCalls' = (configCalls \ {c}) \cup LoadConfigs
    /\ UNCHANGED <<configList, configsBusy>>
DeliverRotate(c) ==
    /\ c.op = "rotate"
    /\ ingestAddress' = c.answer
    /\ configCalls' = configCalls \ {c}
    /\ UNCHANGED <<configList, heading, form, configsBusy>>
DeliverConfigs(c) ==
    /\ c.op \in {"list", "test"}
    /\ configList' = IF c.op = "list" THEN c.answer ELSE configList
    /\ Free(c)
    /\ configCalls' = configCalls \ {c}
    /\ UNCHANGED <<heading, form, ingestAddress>>

\* An error, or a request given up.
ConfigFails(c, calls) ==
    /\ configCalls' = calls
    /\ Free(c)
    /\ UNCHANGED <<configList, heading, form, ingestAddress>>

ConfigsDeliver(op) ==
    /\ tab = "alert_configs"
    /\ \E c \in Arrived(configCalls) :
          /\ c.op = op
          /\ IF c.answer = None THEN ConfigFails(c, configCalls \ {c})
             ELSE \/ DeliverSave(c) \/ DeliverReload(c) \/ DeliverToggle(c)
                  \/ DeliverDelete(c) \/ DeliverRotate(c) \/ DeliverConfigs(c)
    /\ UNCHANGED alertConfigs

ConfigsFail ==
    /\ tab = "alert_configs"
    /\ \E c \in Waiting(configCalls) :
          \E calls \in GivenUp(configCalls, c, ConfigWrites) : ConfigFails(c, calls)
    /\ UNCHANGED alertConfigs

ConfigsNext ==
    \/ \E t \in Tabs : ConfigsSelect(t) /\ tab' = t
    \/ /\ \/ ConfigsUser \/ ConfigsFail
          \/ \E op \in ConfigOps : ConfigsServe(op) \/ ConfigsDeliver(op)
       /\ UNCHANGED tab

ConfigsSpec == tab \in Tabs /\ ConfigsInit /\ [][ConfigsNext]_<<tab, configsVars>>

---------------------------------------------------------------------------
Origins == Nat \cup {Blank, Redacted}
Fields == [plain : Origins, enabled : BOOLEAN, key : Origins, hook : Origins]

\* The types of what the panel keeps.
ConfigsTypeOK ==
    /\ DOMAIN alertConfigs \subseteq Nat \ {New}
    /\ \A i \in DOMAIN alertConfigs : alertConfigs[i] \in Fields
    /\ \A i \in DOMAIN configList : configList[i] \in Fields
    /\ heading \in Nat /\ form \in Fields
    /\ configsBusy \in BOOLEAN /\ ingestAddress \in Nat \cup {None}
    /\ \A c \in configCalls : c.op \in ConfigOps /\ c.phase \in {"sent", "served", "orphan"}

\* A secret that was typed under the heading of a configuration is stored in
\* that configuration and in no other, and one typed under "new" in one that
\* is made then: whatever answers about other configurations came in between
\* and whatever else the form shows by then.  Only a save that has read the
\* configuration, or one that had its id before it, writes back what this one
\* was made with.
KeepsTyped ==
    \A i \in DOMAIN alertConfigs', s \in Secrets :
       \/ alertConfigs'[i][s] \in {Blank, Redacted}
       \/ i \in DOMAIN alertConfigs /\ alertConfigs'[i][s] \in {alertConfigs[i][s], i}
       \/ i \notin DOMAIN alertConfigs /\ alertConfigs'[i][s] = New
       \/ /\ alertConfigs'[i][s] = New
          /\ \E c \in configCalls : c.op = "store" /\ c.on = i /\ c.from[s] = New
TypedStays == [][KeepsTyped]_<<tab, configsVars>>

\* The placeholder of a secret is never stored as the secret.
NoPlaceholderStored ==
    \A i \in DOMAIN alertConfigs : alertConfigs[i].key # Redacted /\ alertConfigs[i].hook # Redacted

\* Saving and testing are disabled exactly as long as one of them is under
\* way, and so there is only one.
ConfigsBusyTells ==
    tab = "alert_configs" =>
        /\ configsBusy <=> \E c \in Waiting(configCalls) : Frees(c.op)
        /\ \A c, d \in Waiting(configCalls) : Frees(c.op) /\ Frees(d.op) => c = d

=============================================================================
