----------------------------- MODULE ChatPanel ------------------------------
(***************************************************************************)
(* The panel that tries a reviewer with parameters of the admin's choice   *)
(* (App.jsx, ChatProbePanel and reviewerDefaults).  The fields of the form *)
(* are prefilled from the settings of the reviewer that is chosen; one of  *)
(* them stands for all, and so one setting for those of a reviewer.        *)
(***************************************************************************)
EXTENDS SettingsStore

CONSTANT ReviewerKey   \* reviewer -> the setting its field is prefilled from

ASSUME ReviewerAssumption ==
    ReviewerKey \in [DOMAIN ReviewerKey -> Keys \ SecretKeys] /\ "codex" \in DOMAIN ReviewerKey

VARIABLES
    chatSettings,  \* settings
    probe,         \* form: the reviewer and the field; "own" when it was typed
    reply,         \* the reviewer that the reply shown is of, or None
    probing,       \* loading
    chatCalls

chatLocal == <<chatSettings, probe, reply, probing>>
chatVars == <<chatLocal, chatCalls>>

Reviewers == DOMAIN ReviewerKey
ChatOps == {"load", "probe"}
LoadDefaults == Ask("load", None, None)

\* reviewerDefaults
ReviewerDefault(shown, reviewer) == OrBlank(shown[ReviewerKey[reviewer]])
FirstProbe == [reviewer |-> "codex", field |-> ReviewerDefault(BeforeLoading, "codex")]

ChatInit ==
    /\ chatSettings = BeforeLoading
    /\ probe = FirstProbe
    /\ reply = None
    /\ probing = FALSE
    /\ chatCalls = IF tab = "chat" THEN {LoadDefaults} ELSE {}

ChatSelect(t) ==
    IF (t = "chat") = (tab = "chat") THEN UNCHANGED chatVars
    ELSE /\ chatSettings' = BeforeLoading
         /\ probe' = FirstProbe
         /\ reply' = None
         /\ probing' = FALSE
         /\ chatCalls' = Orphans(chatCalls, {"probe"}) \cup (IF t = "chat" THEN {LoadDefaults} ELSE {})

---------------------------------------------------------------------------
\* setProbeField
ChooseReviewer ==
    /\ \E r \in Reviewers \ {probe.reviewer} :
          probe' = [reviewer |-> r, field |-> ReviewerDefault(chatSettings, r)]
    /\ reply' = None
    /\ UNCHANGED <<chatSettings, probing, chatCalls>>
TypeField ==
    /\ probe' = [probe EXCEPT !.field = "own"]
    /\ UNCHANGED <<chatSettings, reply, probing, chatCalls>>

ReloadDefaults ==
    /\ ~probing
    /\ chatCalls' = chatCalls \cup {LoadDefaults}
    /\ UNCHANGED chatLocal

\* sendProbe with a prompt that is not empty.
SendProbe ==
    /\ ~probing
    /\ probing' = TRUE
    /\ reply' = None
    /\ chatCalls' = chatCalls \cup {Ask("probe", probe.reviewer, probe.field)}
    /\ UNCHANGED <<chatSettings, probe>>

ChatUser ==
    /\ tab = "chat"
    /\ ChooseReviewer \/ TypeField \/ (Room(chatCalls) /\ (ReloadDefaults \/ SendProbe))

---------------------------------------------------------------------------
\* The settings as the table has them now; the probe answers for its reviewer,
\* whether the call succeeded or not.
ChatServe(op) ==
    /\ \E c \in Unserved(chatCalls) :
          /\ c.op = op
          /\ chatCalls' = AfterServing(chatCalls, c, IF c.op = "load" THEN Told(storedSettings) ELSE c.on)
    /\ UNCHANGED chatLocal

\* Mutant: the reviewer of the render that asked for the settings.
RefillAsAsked(shown) == ReviewerDefault(shown, FirstProbe.reviewer)

\* setForm(current => ...): the defaults of the reviewer chosen by now.
Refill(shown) == ReviewerDefault(shown, probe.reviewer)
DeliverDefaults(c) ==
    /\ c.op = "load"
    /\ chatSettings' = WithDefaults(c.answer)
    /\ probe' = [probe EXCEPT !.field = Refill(chatSettings')]
    /\ UNCHANGED <<reply, probing>>
DeliverReply(c) ==
    /\ c.op = "probe"
    /\ reply' = c.answer
    /\ probing' = FALSE
    /\ UNCHANGED <<chatSettings, probe>>

ChatDeliver(op) ==
    /\ tab = "chat"
    /\ \E c \in Arrived(chatCalls) :
          /\ c.op = op
          /\ DeliverDefaults(c) \/ DeliverReply(c)
          /\ chatCalls' = chatCalls \ {c}

ChatFail ==
    /\ tab = "chat"
    /\ \E c \in Waiting(chatCalls) :
          /\ chatCalls' \in GivenUp(chatCalls, c, {"probe"})
          /\ probing' = (probing /\ c.op # "probe")
    /\ UNCHANGED <<chatSettings, probe, reply>>

ChatNext ==
    \/ \E t \in Tabs : ChatSelect(t) /\ tab' = t /\ UNCHANGED storedSettings
    \/ /\ \/ ChatUser \/ ChatFail
          \/ \E op \in ChatOps : ChatServe(op) \/ ChatDeliver(op)
       /\ UNCHANGED <<tab, storedSettings>>
    \* The settings are saved elsewhere.
    \/ storedSettings' \in [Keys -> Values] /\ UNCHANGED <<tab, chatVars>>

ChatSpec == tab \in Tabs /\ StoreInit /\ ChatInit /\ [][ChatNext]_<<tab, storedSettings, chatVars>>

---------------------------------------------------------------------------
\* The types of what the panel keeps.
ChatTypeOK ==
    /\ chatSettings \in [Keys -> Values]
    /\ probe \in [reviewer : Reviewers, field : Values \cup {"own"}]
    /\ reply \in Reviewers \cup {None} /\ probing \in BOOLEAN
    /\ \A c \in chatCalls : c.op \in ChatOps /\ c.phase \in {"sent", "served", "orphan"}

\* What the admin has not typed is the parameter of the reviewer that is
\* chosen, in the settings the panel has: answers that come after the reviewer
\* was changed do not bring back those of another.
FormFollows == probe.field \in {"own", ReviewerDefault(chatSettings, probe.reviewer)}

\* The panel is sending exactly as long as its probe is under way.
ProbeBusyTells ==
    tab = "chat" => (probing <=> \E c \in Waiting(chatCalls) : c.op = "probe")

=============================================================================
