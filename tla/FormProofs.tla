----------------------------- MODULE FormProofs -----------------------------
(***************************************************************************)
(* Proofs about the forms of the console: where a secret that was typed is *)
(* stored (ConfigsPanel), what the reviewer's form shows (ChatPanel), and  *)
(* that saving the settings keeps what was not typed (SettingsPanel).      *)
(***************************************************************************)
EXTENDS ConfigsPanel, ChatPanel, SettingsPanel, TLAPS

---------------------------------------------------------------------------
(***************************************************************************)
(* Alert configurations.  The invariant follows a secret from the field it *)
(* is typed in to the table: in the form it was typed under the heading,   *)
(* in a request to store a configuration it was typed under the heading    *)
(* that the request names, whatever the server answers shows none, and the *)
(* secrets of a configuration, also in the hands of a handler that has     *)
(* read them, were typed for it or for a new one.                          *)
(***************************************************************************)
TypedUnder(f, h) == f \in Fields /\ f.key \in {h, Blank, Redacted} /\ f.hook \in {h, Blank, Redacted}
MadeFor(f, i) == f \in Fields /\ f.key \in {i, New, Blank, Redacted} /\ f.hook \in {i, New, Blank, Redacted}
Hidden(f) == f \in Fields /\ f.key \in {Blank, Redacted} /\ f.hook \in {Blank, Redacted}
AllHidden(list) == \A i \in DOMAIN list : i \in Nat /\ Hidden(list[i])

ConfigCall(c) ==
    /\ c = [op |-> c.op, on |-> c.on, from |-> c.from, phase |-> c.phase, answer |-> c.answer]
    /\ c.op \in ConfigOps /\ c.phase \in {"sent", "served", "orphan"}
    /\ c.op = "create" => c.on = New /\ TypedUnder(c.from, New)
    /\ c.op = "update" => c.on \in Nat /\ TypedUnder(c.from, c.on)
    /\ c.op = "store" => c.on \in Nat /\ MadeFor(c.from, c.on)
    /\ c.op = "toggle" => c.from \in BOOLEAN
    /\ c.op \in {"reload", "delete", "rotate", "toggle", "test"} => c.on \in Nat

ConfigAnswer(c) ==
    c.phase = "served" /\ c.answer # None =>
        /\ c.op \in {"create", "store"} => c.answer.id \in Nat
        /\ c.op = "rotate" => c.answer \in Nat
        /\ c.op = "toggle" => Hidden(c.answer.view)
        /\ c.op \in {"list", "reload"} => AllHidden(c.answer)

StoredInv ==
    /\ DOMAIN alertConfigs \subseteq Nat \ {New}
    /\ \A i \in DOMAIN alertConfigs : MadeFor(alertConfigs[i], i)
PageInv ==
    /\ heading \in Nat /\ TypedUnder(form, heading)
    /\ AllHidden(configList)
    /\ configsBusy \in BOOLEAN /\ ingestAddress \in Nat \cup {None}
CallsInv == \A c \in configCalls : ConfigCall(c) /\ ConfigAnswer(c)
ConfigsInv == StoredInv /\ PageInv /\ CallsInv

\* What the server shows of a configuration has no secret in it.
LEMMA ViewHides ==
    ASSUME NEW f \in Fields PROVE Hidden(ConfigView(f))
  <1>1. Blank \in Origins /\ Redacted \in Origins
    BY DEF Origins
  <1>2. ConfigView(f) = [plain |-> f.plain, enabled |-> f.enabled, key |-> Redact(f.key), hook |-> Redact(f.hook)]
    BY DEF ConfigView, Fields
  <1>3. Redact(f.key) \in {Blank, Redacted} /\ Redact(f.hook) \in {Blank, Redacted}
    BY DEF Redact
  <1>4. f.plain \in Origins /\ f.enabled \in BOOLEAN
    BY DEF Fields
  <1> QED
    BY <1>1, <1>2, <1>3, <1>4 DEF Hidden, Fields

\* The list that the server answers has no secret in it.
LEMMA ListHides ==
    ASSUME StoredInv PROVE AllHidden(ShownConfigs)
  BY ViewHides DEF StoredInv, MadeFor, AllHidden, ShownConfigs

\* A form under a heading that was filled with an answer.
LEMMA HiddenFits ==
    ASSUME NEW f, NEW h, Hidden(f) PROVE TypedUnder(f, h)
  BY DEF Hidden, TypedUnder

\* The empty form shows nothing.
LEMMA EmptyHides == Hidden(EmptyForm)
  BY DEF Hidden, EmptyForm, Fields, Origins

\* A request of the panel that is sent.
LEMMA AskCall ==
    ASSUME NEW op \in ConfigOps, NEW on, NEW from,
           op = "create" => on = New /\ TypedUnder(from, New),
           op = "update" => on \in Nat /\ TypedUnder(from, on),
           op = "store" => on \in Nat /\ MadeFor(from, on),
           op = "toggle" => from \in BOOLEAN,
           op \in {"reload", "delete", "rotate", "toggle", "test"} => on \in Nat
    PROVE  ConfigCall(Ask(op, on, from)) /\ ConfigAnswer(Ask(op, on, from))
  BY DEF Ask, ConfigCall, ConfigAnswer

\* Requests that are left when one has been given up, or the panel unmounted.
LEMMA LeftCalls ==
    ASSUME CallsInv, NEW writes
    PROVE  /\ \A c \in configCalls : \A calls \in GivenUp(configCalls, c, writes) : \A d \in calls :
                  ConfigCall(d) /\ ConfigAnswer(d)
           /\ \A d \in Orphans(configCalls, writes) : ConfigCall(d) /\ ConfigAnswer(d)
  <1>1. ASSUME NEW c \in configCalls PROVE LET d == [c EXCEPT !.phase = "orphan"] IN ConfigCall(d) /\ ConfigAnswer(d)
    <2>1. [c EXCEPT !.phase = "orphan"] =
             [op |-> c.op, on |-> c.on, from |-> c.from, phase |-> "orphan", answer |-> c.answer]
      BY DEF CallsInv, ConfigCall
    <2> QED
      BY <2>1 DEF CallsInv, ConfigCall, ConfigAnswer
  <1> QED
    BY <1>1 DEF CallsInv, GivenUp, Orphans

\* Requests that are left when the server has worked on one.
LEMMA ServedCalls ==
    ASSUME CallsInv, NEW c \in configCalls, NEW answer,
           answer # None =>
               /\ c.op \in {"create", "store"} => answer.id \in Nat
               /\ c.op = "rotate" => answer \in Nat
               /\ c.op = "toggle" => Hidden(answer.view)
               /\ c.op \in {"list", "reload"} => AllHidden(answer)
    PROVE  \A d \in AfterServing(configCalls, c, answer) : ConfigCall(d) /\ ConfigAnswer(d)
  <1>1. ConfigCall(Served(c, answer)) /\ ConfigAnswer(Served(c, answer))
    BY DEF CallsInv, ConfigCall, ConfigAnswer, Served
  <1> QED
    BY <1>1 DEF CallsInv, AfterServing

\* The invariant holds of the panel that has just been opened.
LEMMA ConfigsStart ==
    ASSUME tab \in Tabs, ConfigsInit PROVE ConfigsInv
  <1>1. StoredInv
    BY DEF ConfigsInit, StoredInv, MadeFor, StartConfigs, New, Fields, Origins
  <1>2. PageInv
    <2>1. AllHidden(<<>>)
      BY DEF AllHidden
    <2>2. TypedUnder(EmptyForm, New)
      BY EmptyHides, HiddenFits
    <2> QED
      BY <2>1, <2>2 DEF ConfigsInit, PageInv, New
  <1>3. CallsInv
    BY AskCall DEF ConfigsInit, CallsInv, LoadConfigs, ConfigOps
  <1> QED
    BY <1>1, <1>2, <1>3 DEF ConfigsInv

\* Opening and closing the tab.
LEMMA ConfigsSelectStep ==
    ASSUME ConfigsInv, NEW t \in Tabs, ConfigsSelect(t), tab' = t
    PROVE  ConfigsInv' /\ KeepsTyped
  <1>1. CASE UNCHANGED configsVars
    BY <1>1 DEF ConfigsInv, StoredInv, MadeFor, PageInv, CallsInv, configsVars, configsLocal, KeepsTyped, Fields
  <1>2. CASE ~UNCHANGED configsVars
    <2>0. /\ configList' = <<>> /\ heading' = New /\ form' = EmptyForm
          /\ configsBusy' = FALSE /\ ingestAddress' = None
          /\ configCalls' = Orphans(configCalls, ConfigWrites)
                            \cup (IF t = "alert_configs" THEN LoadConfigs ELSE {})
          /\ UNCHANGED alertConfigs
      BY <1>2, Zenon DEF ConfigsSelect
    <2>1. StoredInv'
      BY <2>0 DEF ConfigsInv, StoredInv
    <2>2. PageInv'
      <3>1. AllHidden(<<>>)
        BY DEF AllHidden
      <3>2. TypedUnder(EmptyForm, New)
        BY EmptyHides, HiddenFits
      <3> QED
        BY <2>0, <3>1, <3>2 DEF PageInv, New
    <2>3. CallsInv'
      BY <2>0, AskCall, LeftCalls DEF ConfigsInv, CallsInv, LoadConfigs, ConfigOps
    <2> QED
      BY <2>0, <2>1, <2>2, <2>3 DEF ConfigsInv, StoredInv, MadeFor, KeepsTyped, Fields
  <1> QED
    BY <1>1, <1>2

\* What the admin does changes nothing that is stored.
LEMMA ConfigsUserStep ==
    ASSUME ConfigsInv, ConfigsUser PROVE ConfigsInv' /\ KeepsTyped
  <1> USE DEF ConfigsInv
  <1>1. UNCHANGED alertConfigs
    BY DEF ConfigsUser, SelectConfig, NewConfig, SetField, Save, TestConnection, PressConfig, Send
  <1>2. StoredInv' /\ KeepsTyped
    BY <1>1 DEF StoredInv, MadeFor, KeepsTyped, Fields
  <1>3. CASE SelectConfig
    <2>1. PageInv'
      BY <1>3, HiddenFits DEF SelectConfig, Edit, PageInv, AllHidden
    <2> QED
      BY <1>2, <1>3, <2>1 DEF SelectConfig, CallsInv
  <1>4. CASE NewConfig
    <2>1. PageInv'
      BY <1>4, EmptyHides, HiddenFits DEF NewConfig, Edit, PageInv, New
    <2> QED
      BY <1>2, <1>4, <2>1 DEF NewConfig, CallsInv
  <1>5. CASE SetField
    <2>1. PICK k \in Typable, v \in {heading, Blank} : form' = [form EXCEPT ![k] = v]
      BY <1>5 DEF SetField
    <2>2. v \in Origins
      BY <2>1 DEF PageInv, Origins
    <2>3. TypedUnder(form', heading)
      BY <2>1, <2>2 DEF PageInv, TypedUnder, Fields, Typable, Secrets
    <2> QED
      BY <1>2, <1>5, <2>3 DEF SetField, PageInv, CallsInv
  <1>6. CASE Save
    <2>1. PageInv'
      BY <1>6 DEF Save, Send, PageInv
    <2>2. configCalls' = configCalls \cup {Ask(IF heading = New THEN "create" ELSE "update", heading, form)}
      BY <1>6 DEF Save, Send
    <2>3. CallsInv'
      BY <2>2, AskCall DEF PageInv, CallsInv, ConfigOps, ConfigWrites
    <2> QED
      BY <1>2, <2>1, <2>3
  <1>7. CASE TestConnection
    <2>1. PageInv'
      BY <1>7 DEF TestConnection, Send, PageInv
    <2>2. CallsInv'
      BY <1>7, AskCall DEF TestConnection, Send, PageInv, CallsInv, ConfigOps, ConfigWrites
    <2> QED
      BY <1>2, <2>1, <2>2
  <1>8. CASE PressConfig
    <2>1. PageInv'
      BY <1>8 DEF PressConfig, Send, PageInv
    <2>2. (~form.enabled) \in BOOLEAN
      OBVIOUS
    <2>3. PICK op \in {"toggle", "delete", "rotate"}, body \in {~form.enabled, None} :
             /\ configCalls' = configCalls \cup {Ask(op, heading, body)}
             /\ op = "toggle" => body = ~form.enabled
      BY <1>8 DEF PressConfig, Send
    <2>4. ConfigCall(Ask(op, heading, body)) /\ ConfigAnswer(Ask(op, heading, body))
      BY <2>2, <2>3, AskCall DEF PageInv, ConfigOps, ConfigWrites
    <2>5. CallsInv'
      BY <2>3, <2>4 DEF CallsInv
    <2> QED
      BY <1>2, <2>1, <2>5
  <1> QED
    BY <1>3, <1>4, <1>5, <1>6, <1>7, <1>8 DEF ConfigsUser

\* What the server does: only here a secret is stored.
LEMMA ConfigsServeStep ==
    ASSUME ConfigsInv, NEW c \in configCalls, c.phase # "served", UNCHANGED configsLocal,
           ServeCreate(c) \/ ServeUpdate(c) \/ ServeToggle(c) \/ ServeDelete(c) \/ ServeConfigRead(c)
    PROVE  ConfigsInv' /\ KeepsTyped
  <1> USE DEF ConfigsInv
  <1>0. PageInv'
    BY DEF PageInv, configsLocal
  <1>1. ConfigCall(c)
    BY DEF CallsInv
  <1>2. ASSUME Refuse(c) PROVE ConfigsInv' /\ KeepsTyped
    <2>1. CallsInv'
      BY <1>2, ServedCalls DEF Refuse, Answer, CallsInv
    <2> QED
      BY <1>0, <1>2, <2>1 DEF Refuse, StoredInv, MadeFor, KeepsTyped, Fields
  <1>3. ASSUME NEW i \in Nat \ {New}, NEW f, MadeFor(f, i), c.op \in {"create", "store", "toggle"}, Store(c, i, f)
        PROVE  StoredInv' /\ CallsInv'
    <2>0. f \in Fields
      BY <1>3 DEF MadeFor
    <2>1. StoredInv'
      BY <1>3 DEF Store, StoredInv
    <2>2. Hidden(Shown(i, f).view) /\ Shown(i, f).id \in Nat
      BY <1>3, <2>0, ViewHides DEF Shown
    <2>3. CallsInv'
      BY <1>3, <2>2, ServedCalls DEF Store, Answer, CallsInv
    <2> QED
      BY <2>1, <2>3
  <1>4. CASE ServeCreate(c) /\ ~Refuse(c)
    <2>1. PICK i \in 1..MaxConfigs : NextId(i) /\ Store(c, i, c.from) /\ c.op = "create"
      BY <1>4 DEF ServeCreate
    <2>2. TypedUnder(c.from, New) /\ i \in Nat \ {New} /\ i \notin DOMAIN alertConfigs
      BY <1>1, <2>1, ConfigsAssumption DEF ConfigCall, NextId, StoredInv, New
    <2>3. KeepsTyped
      BY <2>1, <2>2 DEF KeepsTyped, Store, TypedUnder, Secrets
    <2>4. MadeFor(c.from, i)
      BY <2>2 DEF TypedUnder, MadeFor
    <2> QED
      BY <1>0, <1>3, <2>1, <2>2, <2>3, <2>4
  <1>5. CASE ReadForUpdate(c)
    <2> DEFINE i == c.on
               f == Kept(c.from, alertConfigs[c.on])
    <2>1. /\ i \in DOMAIN alertConfigs /\ c.op = "update" /\ UNCHANGED alertConfigs
          /\ configCalls' = (configCalls \ {c}) \cup {[Ask("store", i, f) EXCEPT !.phase = c.phase]}
      BY <1>5 DEF ReadForUpdate
    <2>2. TypedUnder(c.from, i) /\ MadeFor(alertConfigs[i], i) /\ i \in Nat \ {New}
      BY <1>1, <2>1 DEF ConfigCall, StoredInv
    <2>3. MadeFor(f, i)
      BY <2>2 DEF Kept, TypedUnder, MadeFor, Fields, Origins
    <2> HIDE DEF f
    <2>4. c.phase # "served"
      OBVIOUS
    <2>5. LET d == [Ask("store", i, f) EXCEPT !.phase = c.phase] IN ConfigCall(d) /\ ConfigAnswer(d)
      BY <1>1, <2>2, <2>3, <2>4 DEF Ask, ConfigCall, ConfigAnswer, ConfigOps, ConfigWrites
    <2>6. CallsInv'
      BY <2>1, <2>5 DEF CallsInv
    <2>7. StoredInv' /\ KeepsTyped
      BY <2>1 DEF StoredInv, MadeFor, KeepsTyped, Fields
    <2> QED
      BY <1>0, <2>6, <2>7
  <1>9. CASE StoreUpdate(c)
    <2> DEFINE i == c.on
               f == c.from
    <2>1. i \in DOMAIN alertConfigs /\ Store(c, i, f) /\ c.op = "store"
      BY <1>9 DEF StoreUpdate
    <2>2. MadeFor(f, i) /\ i \in Nat \ {New}
      BY <1>1, <2>1 DEF ConfigCall, StoredInv
    <2>3. KeepsTyped
      BY <2>1, <2>2 DEF KeepsTyped, Store, Secrets, MadeFor
    <2> QED
      BY <1>0, <1>3, <2>1, <2>2, <2>3
  <1>6. CASE ServeToggle(c) /\ ~Refuse(c)
    <2> DEFINE i == c.on
               f == [alertConfigs[c.on] EXCEPT !.enabled = c.from]
    <2>1. i \in DOMAIN alertConfigs /\ Store(c, i, f) /\ c.op = "toggle"
      BY <1>6 DEF ServeToggle
    <2>2. MadeFor(alertConfigs[i], i) /\ i \in Nat \ {New} /\ c.from \in BOOLEAN
      BY <1>1, <2>1 DEF ConfigCall, StoredInv
    <2>3. MadeFor(f, i) /\ f.key = alertConfigs[i].key /\ f.hook = alertConfigs[i].hook
      BY <2>2 DEF MadeFor, Fields
    <2> HIDE DEF f
    <2>4. KeepsTyped
      BY <2>1, <2>3 DEF KeepsTyped, Store, Secrets
    <2> QED
      BY <1>0, <1>3, <2>1, <2>2, <2>3, <2>4
  <1>7. CASE ServeDelete(c) /\ ~Refuse(c)
    <2>1. /\ c.op = "delete"
          /\ alertConfigs' = [j \in DOMAIN alertConfigs \ {c.on} |-> alertConfigs[j]]
          /\ Answer(c, c.on)
      BY <1>7 DEF ServeDelete
    <2>2. CallsInv'
      BY <2>1, ServedCalls DEF Answer, CallsInv
    <2>3. StoredInv' /\ KeepsTyped
      BY <2>1 DEF StoredInv, MadeFor, KeepsTyped, Fields
    <2> QED
      BY <1>0, <2>2, <2>3
  <1>8. CASE ServeConfigRead(c) /\ ~Refuse(c)
    <2>1. UNCHANGED alertConfigs
      BY <1>8 DEF ServeConfigRead
    <2>2. CallsInv'
      <3>1. CASE c.op \in {"rotate", "test"}
        <4>1. Answer(c, c.on) /\ c.on \in Nat
          BY <1>1, <1>8, <3>1 DEF ServeConfigRead, ConfigCall
        <4> QED
          BY <3>1, <4>1, ServedCalls DEF Answer, CallsInv
      <3>2. CASE c.op \in {"list", "reload"}
        <4>1. Answer(c, ShownConfigs)
          BY <1>8, <3>2 DEF ServeConfigRead
        <4> QED
          BY <3>2, <4>1, ListHides, ServedCalls DEF Answer, CallsInv
      <3> QED
        BY <1>8, <3>1, <3>2 DEF ServeConfigRead
    <2>3. StoredInv' /\ KeepsTyped
      BY <2>1 DEF StoredInv, MadeFor, KeepsTyped, Fields
    <2> QED
      BY <1>0, <2>2, <2>3
  <1> QED
    BY <1>2, <1>4, <1>5, <1>6, <1>7, <1>8, <1>9 DEF ServeUpdate

\* Answers fill the page with what the server shows.
LEMMA ConfigsDeliverStep ==
    ASSUME ConfigsInv, NEW c \in configCalls, UNCHANGED alertConfigs, c.phase = "served",
           \/ c.answer = None /\ ConfigFails(c, configCalls \ {c})
           \/ /\ c.answer # None
              /\ \/ DeliverSave(c) \/ DeliverReload(c) \/ DeliverToggle(c)
                 \/ DeliverDelete(c) \/ DeliverRotate(c) \/ DeliverConfigs(c)
    PROVE  ConfigsInv'
  <1> USE DEF ConfigsInv
  <1>0. StoredInv'
    BY DEF StoredInv
  <1>1. ConfigCall(c) /\ ConfigAnswer(c)
    BY DEF CallsInv
  <1>2. CallsInv'
    <2>1. \A d \in configCalls' \ configCalls :
             d \in LoadConfigs \/ (c.op \in {"create", "store"} /\ c.answer # None /\ d = Ask("reload", c.answer.id, None))
      BY DEF ConfigFails, DeliverSave, DeliverReload, DeliverToggle, DeliverDelete, DeliverRotate, DeliverConfigs
    <2>2. \A d \in LoadConfigs : ConfigCall(d) /\ ConfigAnswer(d)
      BY AskCall DEF LoadConfigs, ConfigOps
    <2>3. c.op \in {"create", "store"} /\ c.answer # None => c.answer.id \in Nat
      BY <1>1 DEF ConfigAnswer
    <2> QED
      BY <2>1, <2>2, <2>3, AskCall DEF CallsInv, ConfigOps
  <1>3. ASSUME Free(c) PROVE configsBusy' \in BOOLEAN
    BY <1>3 DEF Free
  <1>4. CASE c.answer = None /\ ConfigFails(c, configCalls \ {c})
    BY <1>0, <1>2, <1>3, <1>4 DEF ConfigFails, PageInv
  <1>5. CASE c.answer # None /\ DeliverSave(c)
    BY <1>0, <1>1, <1>2, <1>5 DEF DeliverSave, PageInv, ConfigAnswer
  <1>6. CASE c.answer # None /\ DeliverReload(c)
    <2>1. AllHidden(c.answer) /\ c.on \in Nat
      BY <1>1, <1>6 DEF DeliverReload, ConfigCall, ConfigAnswer
    <2>2. heading' \in Nat /\ TypedUnder(form', heading')
      BY <1>6, <2>1, HiddenFits DEF DeliverReload, AllHidden, PageInv
    <2> QED
      BY <1>0, <1>2, <1>3, <1>6, <2>1, <2>2 DEF DeliverReload, PageInv
  <1>7. CASE c.answer # None /\ DeliverToggle(c)
    <2>1. TypedUnder(form', heading)
      BY <1>1, <1>7, HiddenFits DEF DeliverToggle, ConfigAnswer
    <2> QED
      BY <1>0, <1>2, <1>7, <2>1 DEF DeliverToggle, PageInv
  <1>8. CASE c.answer # None /\ DeliverDelete(c)
    <2>1. TypedUnder(EmptyForm, New)
      BY EmptyHides, HiddenFits
    <2> QED
      BY <1>0, <1>2, <1>8, <2>1 DEF DeliverDelete, Edit, PageInv, New
  <1>9. CASE c.answer # None /\ DeliverRotate(c)
    BY <1>0, <1>1, <1>2, <1>9 DEF DeliverRotate, PageInv, ConfigAnswer
  <1>10. CASE c.answer # None /\ DeliverConfigs(c)
    <2>1. AllHidden(configList')
      BY <1>1, <1>10 DEF DeliverConfigs, ConfigAnswer, PageInv
    <2> QED
      BY <1>0, <1>2, <1>3, <1>10, <2>1 DEF DeliverConfigs, PageInv
  <1> QED
    BY <1>4, <1>5, <1>6, <1>7, <1>8, <1>9, <1>10

\* Every step of the panel and of the server keeps the invariant, and a step
\* under the invariant stores no secret elsewhere than under its heading.
LEMMA ConfigsStep ==
    ASSUME ConfigsInv, [ConfigsNext]_<<tab, configsVars>>
    PROVE  ConfigsInv' /\ [KeepsTyped]_<<tab, configsVars>>
  <1>1. ASSUME NEW t \in Tabs, ConfigsSelect(t), tab' = t PROVE ConfigsInv' /\ KeepsTyped
    BY <1>1, ConfigsSelectStep
  <1>2. CASE ConfigsUser
    BY <1>2, ConfigsUserStep
  <1>3. CASE ConfigsFail
    <2>1. PICK c \in Waiting(configCalls) :
              \E calls \in GivenUp(configCalls, c, ConfigWrites) : ConfigFails(c, calls)
      BY <1>3 DEF ConfigsFail
    <2>2. CallsInv'
      BY <2>1, LeftCalls DEF ConfigFails, ConfigsInv, CallsInv, Waiting
    <2>3. PageInv'
      BY <2>1 DEF ConfigFails, Free, ConfigsInv, PageInv
    <2> QED
      BY <1>3, <2>2, <2>3 DEF ConfigsFail, ConfigsInv, StoredInv, MadeFor, KeepsTyped, Fields
  <1>4. ASSUME NEW op \in ConfigOps, ConfigsServe(op) PROVE ConfigsInv' /\ KeepsTyped
    BY <1>4, ConfigsServeStep DEF ConfigsServe, Unserved
  <1>5. ASSUME NEW op \in ConfigOps, ConfigsDeliver(op) PROVE ConfigsInv' /\ KeepsTyped
    <2>1. UNCHANGED alertConfigs
      BY <1>5 DEF ConfigsDeliver
    <2>2. KeepsTyped
      BY <2>1 DEF KeepsTyped, ConfigsInv, StoredInv, MadeFor, Fields
    <2> QED
      BY <1>5, <2>1, <2>2, ConfigsDeliverStep DEF ConfigsDeliver, Arrived
  <1>6. CASE UNCHANGED <<tab, configsVars>>
    BY <1>6 DEF ConfigsInv, StoredInv, PageInv, CallsInv, configsVars, configsLocal
  <1> QED
    BY <1>1, <1>2, <1>3, <1>4, <1>5, <1>6 DEF ConfigsNext

\* The invariant gives the types.
LEMMA ConfigsTyped == ConfigsInv => ConfigsTypeOK
  BY DEF ConfigsInv, StoredInv, MadeFor, PageInv, CallsInv, ConfigCall, TypedUnder, AllHidden, Hidden, ConfigsTypeOK

\* What the panel of the alert configurations keeps is of its types.
THEOREM ConfigsTypeCorrect == ConfigsSpec => []ConfigsTypeOK
  <1>1. tab \in Tabs /\ ConfigsInit => ConfigsInv
    BY ConfigsStart
  <1>2. ConfigsInv /\ [ConfigsNext]_<<tab, configsVars>> => ConfigsInv'
    BY ConfigsStep
  <1>3. ConfigsInv => ConfigsTypeOK
    BY ConfigsTyped
  <1> QED
    BY <1>1, <1>2, <1>3, PTL DEF ConfigsSpec

\* A secret is stored in the configuration under whose heading it was typed,
\* in no other and in no new one (App.jsx, AnalysisConfigsPanel, with
\* handleCreateAnalysisConfig and handleUpdateAnalysisConfig).
THEOREM SecretsStayWhereTyped == ConfigsSpec => TypedStays
  <1>1. tab \in Tabs /\ ConfigsInit => ConfigsInv
    BY ConfigsStart
  <1>2. ConfigsInv /\ [ConfigsNext]_<<tab, configsVars>> => ConfigsInv' /\ [KeepsTyped]_<<tab, configsVars>>
    BY ConfigsStep
  <1> QED
    BY <1>1, <1>2, PTL DEF ConfigsSpec, TypedStays

(***************************************************************************)
(* One request at a time disables the buttons: of those that free them     *)
(* when they end, at most one is waited for, also while a save goes over   *)
(* into the load that follows it.                                          *)
(***************************************************************************)
Freeing(calls) == {c \in calls : Frees(c.op) /\ c.phase # "orphan"}

ConfigsBusyInv ==
    /\ tab # "alert_configs" => ~configsBusy /\ \A c \in configCalls : c.phase = "orphan"
    /\ configsBusy \in BOOLEAN /\ (configsBusy <=> Freeing(configCalls) # {})
    /\ \A c, d \in Freeing(configCalls) : c = d

\* Nothing is asked for that frees the buttons when the panel is opened.
LEMMA ConfigsBusyStart ==
    ASSUME tab \in Tabs, ConfigsInit PROVE ConfigsBusyInv
  <1>1. \A c \in configCalls : c.op = "list"
    BY DEF ConfigsInit, LoadConfigs, Ask
  <1>2. Freeing(configCalls) = {}
    BY <1>1 DEF Freeing, Frees
  <1>3. tab # "alert_configs" => configCalls = {}
    BY DEF ConfigsInit
  <1> QED
    BY <1>2, <1>3 DEF ConfigsInit, ConfigsBusyInv

\* A request that nobody waits for any more is an orphan.
LEMMA OrphanPhase ==
    ASSUME CallsInv, NEW c \in configCalls
    PROVE  [c EXCEPT !.phase = "orphan"].phase = "orphan"
  <1>1. c = [op |-> c.op, on |-> c.on, from |-> c.from, phase |-> c.phase, answer |-> c.answer]
    BY DEF CallsInv, ConfigCall
  <1> QED
    BY <1>1

\* Opening and closing the tab.
LEMMA ConfigsBusySelect ==
    ASSUME CallsInv, ConfigsBusyInv, NEW t \in Tabs, ConfigsSelect(t), tab' = t
    PROVE  ConfigsBusyInv'
  <1>1. CASE (t = "alert_configs") = (tab = "alert_configs")
    <2>1. UNCHANGED configsVars
      BY <1>1 DEF ConfigsSelect
    <2>2. tab' # "alert_configs" => tab # "alert_configs"
      BY <1>1
    <2> QED
      BY <2>1, <2>2 DEF ConfigsBusyInv, configsVars, configsLocal
  <1>2. CASE (t = "alert_configs") # (tab = "alert_configs")
    <2>1. /\ configsBusy' = FALSE
          /\ configCalls' = Orphans(configCalls, ConfigWrites) \cup (IF t = "alert_configs" THEN LoadConfigs ELSE {})
      BY <1>2, Zenon DEF ConfigsSelect
    <2>2. \A c \in Orphans(configCalls, ConfigWrites) : c.phase = "orphan"
      BY OrphanPhase DEF Orphans
    <2>3. \A c \in LoadConfigs : ~Frees(c.op)
      BY DEF LoadConfigs, Ask, Frees
    <2>4. Freeing(configCalls') = {}
      BY <2>1, <2>2, <2>3 DEF Freeing
    <2> QED
      BY <2>1, <2>2, <2>4 DEF ConfigsBusyInv
  <1> QED
    BY <1>1, <1>2

\* What the admin does: saving and testing wait until nothing frees the buttons.
LEMMA ConfigsBusyUser ==
    ASSUME ConfigsBusyInv, ConfigsUser, UNCHANGED tab
    PROVE  ConfigsBusyInv'
  <1>0. tab = "alert_configs"
    BY DEF ConfigsUser
  <1>1. CASE UNCHANGED <<configsBusy, configCalls>>
    BY <1>1 DEF ConfigsBusyInv
  <1>2. CASE Save \/ TestConnection
    <2>1. PICK op \in {"create", "update", "test"} : \E body \in {form, None} :
              ~configsBusy /\ configsBusy' /\ configCalls' = configCalls \cup {Ask(op, heading, body)}
      BY <1>2 DEF Save, TestConnection, Send
    <2>2. PICK c : c \in {Ask(op, heading, body) : body \in {form, None}} /\ configCalls' = configCalls \cup {c}
      BY <2>1
    <2>3. Frees(c.op) /\ c.phase = "sent"
      BY <2>1, <2>2 DEF Ask, Frees
    <2>4. Freeing(configCalls') = {c}
      BY <2>1, <2>2, <2>3 DEF ConfigsBusyInv, Freeing
    <2>5. configsBusy' \in BOOLEAN
      BY <1>2 DEF Save, TestConnection
    <2> QED
      BY <1>0, <2>1, <2>4, <2>5 DEF ConfigsBusyInv
  <1>3. CASE PressConfig
    <2>1. PICK op \in {"toggle", "delete", "rotate"} : \E body :
              UNCHANGED configsBusy /\ configCalls' = configCalls \cup {Ask(op, heading, body)}
      BY <1>3 DEF PressConfig, Send
    <2>2. Freeing(configCalls') = Freeing(configCalls)
      BY <2>1 DEF Freeing, Ask, Frees
    <2> QED
      BY <1>0, <2>1, <2>2 DEF ConfigsBusyInv
  <1> QED
    BY <1>1, <1>2, <1>3 DEF ConfigsUser, SelectConfig, NewConfig, SetField

\* What the server does leaves a request that is waited for waited for.
LEMMA ConfigsBusyServe ==
    ASSUME ConfigsBusyInv, NEW op \in ConfigOps, ConfigsServe(op), UNCHANGED tab
    PROVE  ConfigsBusyInv'
  <1>1. PICK c \in Unserved(configCalls) :
            ServeCreate(c) \/ ServeUpdate(c) \/ ServeToggle(c) \/ ServeDelete(c) \/ ServeConfigRead(c)
    BY DEF ConfigsServe
  <1>2. \/ \E answer : configCalls' = AfterServing(configCalls, c, answer)
        \/ ReadForUpdate(c)
    BY <1>1 DEF ServeCreate, ServeUpdate, StoreUpdate, ServeToggle, ServeDelete, ServeConfigRead, Store, Refuse, Answer
  <1>3. PICK left :
           /\ configCalls' = (configCalls \ {c}) \cup left
           /\ c.phase = "orphan" => \A d \in left : d.phase = "orphan"
           /\ c.phase # "orphan" => \E d : left = {d} /\ d.phase # "orphan" /\ (Frees(d.op) <=> Frees(c.op))
    <2>1. ASSUME NEW answer, configCalls' = AfterServing(configCalls, c, answer), c.phase # "orphan"
          PROVE  LET d == Served(c, answer) IN
                     d.op = c.op /\ d.phase = "served" /\ configCalls' = (configCalls \ {c}) \cup {d}
      BY <2>1 DEF AfterServing, Served
    <2>2. ASSUME NEW answer, configCalls' = AfterServing(configCalls, c, answer), c.phase = "orphan"
          PROVE  configCalls' = (configCalls \ {c}) \cup {}
      BY <2>2 DEF AfterServing
    <2>3. ASSUME ReadForUpdate(c)
          PROVE  LET d == [Ask("store", c.on, Kept(c.from, alertConfigs[c.on])) EXCEPT !.phase = c.phase] IN
                     /\ d.phase = c.phase /\ Frees(d.op) /\ Frees(c.op)
                     /\ configCalls' = (configCalls \ {c}) \cup {d}
      BY <2>3 DEF ReadForUpdate, Ask, Frees
    <2> QED
      BY <1>2, <2>1, <2>2, <2>3
  <1>5. c \in configCalls /\ UNCHANGED configsBusy
    BY <1>1 DEF Unserved, ConfigsServe, configsLocal
  <1>6. CASE c \in Freeing(configCalls)
    <2>1. c.phase # "orphan" /\ Frees(c.op)
      BY <1>6 DEF Freeing
    <2>2. PICK d : left = {d} /\ d.phase # "orphan" /\ Frees(d.op)
      BY <1>3, <2>1
    <2>3. Freeing(configCalls') = {d}
      BY <1>3, <1>6, <2>2 DEF ConfigsBusyInv, Freeing
    <2> QED
      BY <1>3, <1>5, <1>6, <2>2, <2>3 DEF ConfigsBusyInv
  <1>7. CASE c \notin Freeing(configCalls)
    <2>1. \A d \in left : d.phase = "orphan" \/ ~Frees(d.op)
      BY <1>3, <1>5, <1>7 DEF Freeing
    <2>2. Freeing(configCalls') = Freeing(configCalls)
      BY <1>3, <1>5, <1>7, <2>1 DEF Freeing
    <2>3. c.phase = "orphan" => \A d \in configCalls' \ configCalls : d.phase = "orphan"
      BY <1>3
    <2>4. tab # "alert_configs" => \A d \in configCalls' : d.phase = "orphan"
      BY <1>3, <1>5, <2>3 DEF ConfigsBusyInv
    <2> QED
      BY <1>5, <2>2, <2>4 DEF ConfigsBusyInv
  <1> QED
    BY <1>6, <1>7

\* A request ends: what frees the buttons was the only one.
LEMMA EndFrees ==
    ASSUME ConfigsBusyInv, NEW c \in Waiting(configCalls), Free(c),
           NEW added, configCalls' = (configCalls \ {c}) \cup added,
           \A d \in added : d.phase = "orphan" \/ ~Frees(d.op)
    PROVE  /\ configsBusy' \in BOOLEAN /\ (configsBusy' <=> Freeing(configCalls') # {})
           /\ \A d, e \in Freeing(configCalls') : d = e
  <1>1. Freeing(configCalls') = Freeing(configCalls) \ {c}
    BY DEF Freeing
  <1>2. Frees(c.op) <=> c \in Freeing(configCalls)
    BY DEF Freeing, Waiting
  <1> QED
    BY <1>1, <1>2 DEF ConfigsBusyInv, Free

\* Answers arrive.
LEMMA ConfigsBusyDeliver ==
    ASSUME ConfigsBusyInv, NEW op \in ConfigOps, ConfigsDeliver(op), UNCHANGED tab
    PROVE  ConfigsBusyInv'
  <1>0. tab = "alert_configs"
    BY DEF ConfigsDeliver
  <1>1. PICK c \in Arrived(configCalls) :
            \/ ConfigFails(c, configCalls \ {c})
            \/ DeliverSave(c) \/ DeliverReload(c) \/ DeliverToggle(c)
            \/ DeliverDelete(c) \/ DeliverRotate(c) \/ DeliverConfigs(c)
    BY DEF ConfigsDeliver
  <1>2. c \in Waiting(configCalls)
    BY <1>1 DEF Arrived, Waiting
  <1>3. CASE ConfigFails(c, configCalls \ {c}) \/ DeliverReload(c) \/ DeliverConfigs(c)
    <2>1. Free(c) /\ configCalls' = (configCalls \ {c}) \cup {}
      BY <1>3 DEF ConfigFails, DeliverReload, DeliverConfigs
    <2> QED
      BY <1>0, <1>2, <2>1, EndFrees DEF ConfigsBusyInv
  <1>4. CASE DeliverSave(c)
    <2>1. UNCHANGED configsBusy /\ c \in Freeing(configCalls)
      BY <1>2, <1>4 DEF DeliverSave, Freeing, Waiting, Frees
    <2> DEFINE d == Ask("reload", c.answer.id, None)
    <2>2. Frees(d.op) /\ d.phase = "sent"
      BY DEF Ask, Frees
    <2>3. configCalls' = (configCalls \ {c}) \cup {d}
      BY <1>4 DEF DeliverSave
    <2> HIDE DEF d
    <2>4. Freeing(configCalls') = {d}
      BY <2>1, <2>2, <2>3 DEF ConfigsBusyInv, Freeing
    <2> QED
      BY <1>0, <2>1, <2>4 DEF ConfigsBusyInv
  <1>5. CASE DeliverToggle(c) \/ DeliverDelete(c) \/ DeliverRotate(c)
    <2>1. UNCHANGED configsBusy /\ ~Frees(c.op)
      BY <1>5 DEF DeliverToggle, DeliverDelete, DeliverRotate, Frees
    <2>2. \A d \in LoadConfigs : ~Frees(d.op)
      BY DEF LoadConfigs, Ask, Frees
    <2>3. Freeing(configCalls') = Freeing(configCalls)
      BY <1>5, <2>1, <2>2 DEF DeliverToggle, DeliverDelete, DeliverRotate, Freeing
    <2> QED
      BY <1>0, <2>1, <2>3 DEF ConfigsBusyInv
  <1> QED
    BY <1>1, <1>3, <1>4, <1>5

\* Every step keeps the buttons disabled as long as one request is waited for.
LEMMA ConfigsBusyStep ==
    ASSUME ConfigsInv, ConfigsBusyInv, [ConfigsNext]_<<tab, configsVars>>
    PROVE  ConfigsBusyInv'
  <1>1. ASSUME NEW t \in Tabs, ConfigsSelect(t), tab' = t PROVE ConfigsBusyInv'
    BY <1>1, ConfigsBusySelect DEF ConfigsInv
  <1>2. CASE ConfigsUser /\ UNCHANGED tab
    BY <1>2, ConfigsBusyUser
  <1>3. CASE ConfigsFail /\ UNCHANGED tab
    <2>1. PICK c \in Waiting(configCalls) :
              \E calls \in GivenUp(configCalls, c, ConfigWrites) : ConfigFails(c, calls)
      BY <1>3 DEF ConfigsFail
    <2> DEFINE d == [c EXCEPT !.phase = "orphan"]
    <2>2. d.phase = "orphan"
      BY <2>1, OrphanPhase DEF ConfigsInv, Waiting
    <2>3. Free(c)
      BY <2>1 DEF ConfigFails
    <2>4. PICK added \in {{}, {d}} : configCalls' = (configCalls \ {c}) \cup added
      BY <2>1 DEF GivenUp, ConfigFails
    <2> HIDE DEF d
    <2>5. tab = "alert_configs"
      BY <1>3 DEF ConfigsFail
    <2>6. \A e \in added : e.phase = "orphan" \/ ~Frees(e.op)
      BY <2>2, <2>4
    <2> QED
      BY <1>3, <2>1, <2>3, <2>4, <2>5, <2>6, EndFrees DEF ConfigsBusyInv
  <1>4. ASSUME NEW op \in ConfigOps, ConfigsServe(op) \/ ConfigsDeliver(op), UNCHANGED tab PROVE ConfigsBusyInv'
    BY <1>4, ConfigsBusyServe, ConfigsBusyDeliver
  <1>5. CASE UNCHANGED <<tab, configsVars>>
    BY <1>5 DEF ConfigsBusyInv, configsVars, configsLocal
  <1> QED
    BY <1>1, <1>2, <1>3, <1>4, <1>5 DEF ConfigsNext

\* The invariant gives what the panel says.
LEMMA ConfigsTells == ConfigsBusyInv => ConfigsBusyTells
  BY DEF ConfigsBusyInv, Freeing, ConfigsBusyTells, Waiting

\* The buttons are disabled as long as one save, load after it, or test is
\* waited for, and never by two.
THEOREM ConfigsBusyTrue == ConfigsSpec => []ConfigsBusyTells
  <1>1. ConfigsBusyInv => ConfigsBusyTells
    BY ConfigsTells
  <1>2. tab \in Tabs /\ ConfigsInit => ConfigsInv /\ ConfigsBusyInv
    BY ConfigsStart, ConfigsBusyStart
  <1>3. ConfigsInv /\ ConfigsBusyInv /\ [ConfigsNext]_<<tab, configsVars>> => ConfigsInv' /\ ConfigsBusyInv'
    BY ConfigsStep, ConfigsBusyStep
  <1> QED
    BY <1>1, <1>2, <1>3, PTL DEF ConfigsSpec

---------------------------------------------------------------------------
(***************************************************************************)
(* The settings table and what the console makes of it.                    *)
(***************************************************************************)
Tables == [Keys -> Values]

\* What the browser is told of a table, and what the panels make of it.
LEMMA TableTypes ==
    /\ \A told \in Tables : Told(told) \in Tables /\ WithDefaults(told) \in Tables
    /\ BeforeLoading \in Tables
  BY DEF Tables, Told, WithDefaults, BeforeLoading, Values

\* The table that the server starts with.
LEMMA StoreStart == StoreInit => storedSettings \in Tables
  BY DEF StoreInit, Tables, Values

(***************************************************************************)
(* The panel that tries a reviewer.                                        *)
(***************************************************************************)
\* The parameter of a reviewer is a value.
LEMMA DefaultTypes ==
    \A shown \in Tables, r \in Reviewers : ReviewerDefault(shown, r) \in Values
  BY ReviewerAssumption DEF Tables, Reviewers, ReviewerDefault, OrBlank, Values

ChatCall(c) ==
    /\ c = [op |-> c.op, on |-> c.on, from |-> c.from, phase |-> c.phase, answer |-> c.answer]
    /\ c.op \in ChatOps /\ c.phase \in {"sent", "served", "orphan"}
    /\ c.phase = "orphan" => c.op = "probe"
    /\ c.op = "probe" => c.on \in Reviewers
    /\ c.phase = "served" => c.answer \in (IF c.op = "load" THEN Tables ELSE Reviewers)

Probes(calls) == {c \in calls : c.op = "probe" /\ c.phase # "orphan"}

ChatPageInv ==
    /\ chatSettings \in Tables
    /\ probe \in [reviewer : Reviewers, field : Values \cup {"own"}]
    /\ FormFollows
    /\ reply \in Reviewers \cup {None} /\ probing \in BOOLEAN
ChatCallsInv == \A c \in chatCalls : ChatCall(c)
ProbingInv ==
    /\ tab # "chat" => ~probing /\ \A c \in chatCalls : c.phase = "orphan"
    /\ probing <=> Probes(chatCalls) # {}
    /\ \A c, d \in Probes(chatCalls) : c = d
ChatInv == storedSettings \in Tables /\ ChatPageInv /\ ChatCallsInv /\ ProbingInv

\* A panel that is opened shows the first reviewer with its default.
LEMMA FirstForm ==
    ASSUME chatSettings = BeforeLoading, probe = FirstProbe, reply = None, probing = FALSE
    PROVE  ChatPageInv
  <1>1. "codex" \in Reviewers /\ ReviewerDefault(BeforeLoading, "codex") \in Values
    BY ReviewerAssumption, TableTypes, DefaultTypes DEF Reviewers
  <1> QED
    BY <1>1, TableTypes DEF ChatPageInv, FirstProbe, FormFollows

\* The invariant holds at the start.
LEMMA ChatStart ==
    ASSUME tab \in Tabs, StoreInit, ChatInit PROVE ChatInv
  <1>1. ChatPageInv
    BY FirstForm DEF ChatInit
  <1>2. ChatCallsInv
    BY DEF ChatInit, ChatCallsInv, ChatCall, LoadDefaults, Ask, ChatOps
  <1>3. ProbingInv
    BY DEF ChatInit, ProbingInv, Probes, LoadDefaults, Ask
  <1> QED
    BY <1>1, <1>2, <1>3, StoreStart DEF ChatInv

\* Requests that are left orphaned.
LEMMA ChatOrphan ==
    ASSUME NEW c, ChatCall(c), c.op = "probe"
    PROVE  LET d == [c EXCEPT !.phase = "orphan"] IN ChatCall(d) /\ d.phase = "orphan"
  <1>1. [c EXCEPT !.phase = "orphan"] =
           [op |-> c.op, on |-> c.on, from |-> c.from, phase |-> "orphan", answer |-> c.answer]
    BY DEF ChatCall
  <1> QED
    BY <1>1 DEF ChatCall

\* Opening and closing the tab.
LEMMA ChatSelectStep ==
    ASSUME ChatInv, NEW t \in Tabs, ChatSelect(t), tab' = t, UNCHANGED storedSettings
    PROVE  ChatInv'
  <1> USE DEF ChatInv
  <1>1. CASE (t = "chat") = (tab = "chat")
    <2>1. UNCHANGED chatVars
      BY <1>1 DEF ChatSelect
    <2>2. tab' # "chat" => tab # "chat"
      BY <1>1
    <2> QED
      BY <2>1, <2>2 DEF ChatPageInv, FormFollows, ChatCallsInv, ProbingInv, chatVars, chatLocal
  <1>2. CASE (t = "chat") # (tab = "chat")
    <2>1. /\ chatSettings' = BeforeLoading /\ probe' = FirstProbe /\ reply' = None /\ probing' = FALSE
          /\ chatCalls' = Orphans(chatCalls, {"probe"}) \cup (IF t = "chat" THEN {LoadDefaults} ELSE {})
      BY <1>2, Zenon DEF ChatSelect
    <2>2. ChatPageInv'
      <3>1. "codex" \in Reviewers /\ ReviewerDefault(BeforeLoading, "codex") \in Values
        BY ReviewerAssumption, TableTypes, DefaultTypes DEF Reviewers
      <3> QED
        BY <2>1, <3>1, TableTypes DEF ChatPageInv, FirstProbe, FormFollows
    <2>3. \A c \in Orphans(chatCalls, {"probe"}) : ChatCall(c) /\ c.phase = "orphan"
      <3>1. \A d \in chatCalls : d.op = "probe" =>
               ChatCall([d EXCEPT !.phase = "orphan"]) /\ [d EXCEPT !.phase = "orphan"].phase = "orphan"
        BY ChatOrphan DEF ChatCallsInv
      <3> QED
        BY <3>1 DEF Orphans, ChatCallsInv
    <2>4. ChatCall(LoadDefaults) /\ LoadDefaults.op = "load"
      BY DEF ChatCall, LoadDefaults, Ask, ChatOps
    <2> QED
      BY <2>1, <2>2, <2>3, <2>4 DEF ChatCallsInv, ProbingInv, Probes
  <1> QED
    BY <1>1, <1>2

\* What the admin does.
LEMMA ChatUserStep ==
    ASSUME ChatInv, ChatUser, UNCHANGED <<tab, storedSettings>>
    PROVE  ChatInv'
  <1> USE DEF ChatInv
  <1>0. tab = "chat" /\ tab' = "chat"
    BY DEF ChatUser
  <1>1. CASE ChooseReviewer
    <2>1. PICK r \in Reviewers : probe' = [reviewer |-> r, field |-> ReviewerDefault(chatSettings, r)]
      BY <1>1 DEF ChooseReviewer
    <2>2. ReviewerDefault(chatSettings, r) \in Values
      BY DefaultTypes DEF ChatPageInv
    <2>3. ChatPageInv'
      BY <1>1, <2>1, <2>2 DEF ChooseReviewer, ChatPageInv, FormFollows
    <2> QED
      BY <1>0, <1>1, <2>3 DEF ChooseReviewer, ChatCallsInv, ProbingInv
  <1>2. CASE TypeField
    <2>1. ChatPageInv'
      BY <1>2 DEF TypeField, ChatPageInv, FormFollows
    <2> QED
      BY <1>0, <1>2, <2>1 DEF TypeField, ChatCallsInv, ProbingInv
  <1>3. CASE ReloadDefaults
    <2>1. ChatCall(LoadDefaults) /\ LoadDefaults.op = "load"
      BY DEF ChatCall, LoadDefaults, Ask, ChatOps
    <2>2. Probes(chatCalls') = Probes(chatCalls)
      BY <1>3, <2>1 DEF ReloadDefaults, Probes
    <2> QED
      BY <1>0, <1>3, <2>1, <2>2 DEF ReloadDefaults, chatLocal, ChatPageInv, FormFollows, ChatCallsInv, ProbingInv
  <1>4. CASE SendProbe
    <2> DEFINE c == Ask("probe", probe.reviewer, probe.field)
    <2>1. ChatCall(c) /\ c.op = "probe" /\ c.phase = "sent"
      BY DEF ChatCall, Ask, ChatOps, ChatPageInv
    <2>2. chatCalls' = chatCalls \cup {c} /\ ~probing /\ probing' /\ reply' = None
          /\ UNCHANGED <<chatSettings, probe>>
      BY <1>4 DEF SendProbe
    <2> HIDE DEF c
    <2>3. Probes(chatCalls') = {c}
      BY <2>1, <2>2 DEF Probes, ProbingInv
    <2> QED
      BY <1>0, <2>1, <2>2, <2>3 DEF ChatPageInv, FormFollows, ChatCallsInv, ProbingInv
  <1> QED
    BY <1>1, <1>2, <1>3, <1>4 DEF ChatUser

\* What the server does.
LEMMA ChatServeStep ==
    ASSUME ChatInv, NEW op \in ChatOps, ChatServe(op), UNCHANGED <<tab, storedSettings>>
    PROVE  ChatInv'
  <1> USE DEF ChatInv
  <1>1. PICK c \in Unserved(chatCalls) :
            chatCalls' = AfterServing(chatCalls, c, IF c.op = "load" THEN Told(storedSettings) ELSE c.on)
    BY DEF ChatServe
  <1> DEFINE d == Served(c, IF c.op = "load" THEN Told(storedSettings) ELSE c.on)
  <1>2. ChatCall(d) /\ d.op = c.op /\ d.phase = "served"
    BY <1>1, TableTypes DEF Served, Unserved, ChatCallsInv, ChatCall, ChatOps
  <1>3. chatCalls' = (chatCalls \ {c}) \cup (IF c.phase = "orphan" THEN {} ELSE {d})
    BY <1>1 DEF AfterServing
  <1> HIDE DEF d
  <1>4. ChatCallsInv'
    BY <1>2, <1>3 DEF ChatCallsInv
  <1>5. ProbingInv'
    BY <1>1, <1>2, <1>3 DEF ProbingInv, Probes, Unserved, ChatServe, chatLocal
  <1>6. ChatPageInv'
    BY DEF ChatServe, chatLocal, ChatPageInv, FormFollows
  <1> QED
    BY <1>4, <1>5, <1>6

\* Answers arrive.
LEMMA ChatDeliverStep ==
    ASSUME ChatInv, NEW op \in ChatOps, ChatDeliver(op), UNCHANGED <<tab, storedSettings>>
    PROVE  ChatInv'
  <1> USE DEF ChatInv
  <1>1. PICK c \in Arrived(chatCalls) :
            (DeliverDefaults(c) \/ DeliverReply(c)) /\ chatCalls' = chatCalls \ {c}
    BY DEF ChatDeliver
  <1>2. ChatCall(c) /\ c.phase = "served"
    BY <1>1 DEF Arrived, ChatCallsInv
  <1>3. ChatCallsInv'
    BY <1>1 DEF ChatCallsInv
  <1>4. tab = "chat" /\ tab' = "chat"
    BY DEF ChatDeliver
  <1>5. CASE DeliverDefaults(c)
    <2>1. chatSettings' \in Tables
      BY <1>2, <1>5, TableTypes DEF DeliverDefaults, ChatCall
    <2>2. Refill(chatSettings') \in Values /\ Refill(chatSettings') = ReviewerDefault(chatSettings', probe.reviewer)
      BY <2>1, DefaultTypes DEF Refill, ChatPageInv
    <2>3. ChatPageInv'
      BY <1>5, <2>1, <2>2 DEF DeliverDefaults, ChatPageInv, FormFollows
    <2>4. Probes(chatCalls') = Probes(chatCalls)
      BY <1>1, <1>5 DEF DeliverDefaults, Probes
    <2> QED
      BY <1>3, <1>4, <1>5, <2>3, <2>4 DEF DeliverDefaults, ProbingInv
  <1>6. CASE DeliverReply(c)
    <2>1. ChatPageInv'
      BY <1>2, <1>6 DEF DeliverReply, ChatCall, ChatPageInv, FormFollows
    <2>2. Probes(chatCalls') = {}
      BY <1>1, <1>2, <1>6 DEF DeliverReply, Probes, ProbingInv, Arrived
    <2> QED
      BY <1>3, <1>4, <1>6, <2>1, <2>2 DEF DeliverReply, ProbingInv
  <1> QED
    BY <1>1, <1>5, <1>6

\* A request fails or is given up.
LEMMA ChatFailStep ==
    ASSUME ChatInv, ChatFail, UNCHANGED <<tab, storedSettings>>
    PROVE  ChatInv'
  <1> USE DEF ChatInv
  <1>1. PICK c \in Waiting(chatCalls) :
            chatCalls' \in GivenUp(chatCalls, c, {"probe"}) /\ probing' = (probing /\ c.op # "probe")
    BY DEF ChatFail
  <1> DEFINE d == [c EXCEPT !.phase = "orphan"]
  <1>2. chatCalls' = chatCalls \ {c} \/ (c.op = "probe" /\ chatCalls' = (chatCalls \ {c}) \cup {d})
    BY <1>1 DEF GivenUp
  <1>3. c.op = "probe" => ChatCall(d) /\ d.phase = "orphan"
    BY <1>1, ChatOrphan DEF Waiting, ChatCallsInv
  <1> HIDE DEF d
  <1>4. ChatCallsInv'
    BY <1>2, <1>3 DEF ChatCallsInv
  <1>5. Probes(chatCalls') = IF c.op = "probe" THEN {} ELSE Probes(chatCalls)
    BY <1>1, <1>2, <1>3 DEF Probes, ProbingInv, Waiting
  <1>6. ProbingInv'
    BY <1>1, <1>5 DEF ProbingInv, ChatFail
  <1>7. ChatPageInv'
    BY <1>1 DEF ChatFail, ChatPageInv, FormFollows
  <1> QED
    BY <1>4, <1>6, <1>7

\* Every step of the panel, of the server and of the table keeps it.
LEMMA ChatStep ==
    ASSUME ChatInv, [ChatNext]_<<tab, storedSettings, chatVars>> PROVE ChatInv'
  <1>1. ASSUME NEW t \in Tabs, ChatSelect(t), tab' = t, UNCHANGED storedSettings PROVE ChatInv'
    BY <1>1, ChatSelectStep
  <1>2. CASE storedSettings' \in [Keys -> Values] /\ UNCHANGED <<tab, chatVars>>
    BY <1>2 DEF ChatInv, Tables, ChatPageInv, FormFollows, ChatCallsInv, ProbingInv, chatVars, chatLocal
  <1>3. CASE UNCHANGED <<tab, storedSettings, chatVars>>
    BY <1>3 DEF ChatInv, ChatPageInv, FormFollows, ChatCallsInv, ProbingInv, chatVars, chatLocal
  <1>4. CASE ChatUser /\ UNCHANGED <<tab, storedSettings>>
    BY <1>4, ChatUserStep
  <1>5. CASE ChatFail /\ UNCHANGED <<tab, storedSettings>>
    BY <1>5, ChatFailStep
  <1>6. ASSUME NEW op \in ChatOps, ChatServe(op) \/ ChatDeliver(op), UNCHANGED <<tab, storedSettings>>
        PROVE  ChatInv'
    BY <1>6, ChatServeStep, ChatDeliverStep
  <1> QED
    BY <1>1, <1>2, <1>3, <1>4, <1>5, <1>6 DEF ChatNext

\* The invariant gives the types.
LEMMA ChatTyped == ChatInv => ChatTypeOK
  BY DEF ChatInv, ChatPageInv, ChatCallsInv, ChatCall, ChatTypeOK, Tables

\* What the panel that tries a reviewer keeps is of its types.
THEOREM ChatTypeCorrect == ChatSpec => []ChatTypeOK
  <1>1. ChatInv => ChatTypeOK
    BY ChatTyped
  <1>2. tab \in Tabs /\ StoreInit /\ ChatInit => ChatInv
    BY ChatStart
  <1>3. ChatInv /\ [ChatNext]_<<tab, storedSettings, chatVars>> => ChatInv'
    BY ChatStep
  <1> QED
    BY <1>1, <1>2, <1>3, PTL DEF ChatSpec

\* A field that was not typed is the parameter of the reviewer that is chosen.
THEOREM FormShowsReviewer == ChatSpec => []FormFollows
  <1>1. ChatInv => FormFollows
    BY DEF ChatInv, ChatPageInv
  <1>2. tab \in Tabs /\ StoreInit /\ ChatInit => ChatInv
    BY ChatStart
  <1>3. ChatInv /\ [ChatNext]_<<tab, storedSettings, chatVars>> => ChatInv'
    BY ChatStep
  <1> QED
    BY <1>1, <1>2, <1>3, PTL DEF ChatSpec

\* The invariant gives what the panel says.
LEMMA ChatTells == ChatInv => ProbeBusyTells
  BY DEF ChatInv, ProbingInv, Probes, ProbeBusyTells, Waiting

\* The panel is sending as long as its probe is under way.
THEOREM ProbingTrue == ChatSpec => []ProbeBusyTells
  <1>1. ChatInv => ProbeBusyTells
    BY ChatTells
  <1>2. tab \in Tabs /\ StoreInit /\ ChatInit => ChatInv
    BY ChatStart
  <1>3. ChatInv /\ [ChatNext]_<<tab, storedSettings, chatVars>> => ChatInv'
    BY ChatStep
  <1> QED
    BY <1>1, <1>2, <1>3, PTL DEF ChatSpec

---------------------------------------------------------------------------
(***************************************************************************)
(* The global settings.  A field of the form, and a key of a request to    *)
(* save, was typed or is what the table showed when the form was loaded.   *)
(***************************************************************************)
AsLoaded(table, k) == WithDefaults(Told(table))[k]

SettingCall(c) ==
    /\ c = [op |-> c.op, on |-> c.on, from |-> c.from, phase |-> c.phase, answer |-> c.answer]
    /\ c.op \in SettingOps /\ c.phase \in {"sent", "served", "orphan"}
    /\ c.op = "load" /\ c.phase = "served" => c.answer \in Tables

SaveCall(c) ==
    c.op = "save" =>
        /\ DOMAIN c.on \subseteq Keys /\ c.from \in Tables \cup {None}
        /\ \A k \in DOMAIN c.on :
              /\ c.on[k] \in Values /\ (k \in SecretKeys => c.on[k] # "redacted")
              /\ c.from # None => c.on[k] \in {"typed", OrBlank(AsLoaded(c.from, k))}

SettingsFormInv ==
    /\ settings \in Tables /\ formBase \in Tables \cup {None}
    /\ formBase # None => \A k \in Keys : settings[k] \in {"typed", AsLoaded(formBase, k)}
SettingsCallsInv == \A c \in settingCalls : SettingCall(c) /\ SaveCall(c)
SettingsInv == storedSettings \in Tables /\ SettingsFormInv /\ SettingsCallsInv

KeepsRest ==
    \A k \in Keys : storedSettings'[k] # storedSettings[k] =>
        \E c \in settingCalls :
           /\ c.op = "save" /\ k \in DOMAIN c.on /\ storedSettings'[k] = c.on[k]
           /\ \/ c.on[k] = "typed"
              \/ storedSettings[k] = "unset"
              \/ c.from = None
              \/ c.from # None /\ c.from[k] # storedSettings[k]

\* A key that was not typed, has not changed since the load, and was in the
\* table is saved as it is stored.
LEMMA SavedAsStored ==
    ASSUME NEW table \in Tables, NEW k \in Keys, table[k] # "unset",
           k \in SecretKeys => OrBlank(AsLoaded(table, k)) # "redacted"
    PROVE  OrBlank(AsLoaded(table, k)) = table[k]
  BY DEF Tables, AsLoaded, WithDefaults, Told, OrBlank, Values

\* The request that loads the form.
LEMMA LoadCall == SettingCall(LoadSettings) /\ SaveCall(LoadSettings) /\ LoadSettings.op = "load"
  BY DEF SettingCall, SaveCall, LoadSettings, Ask, SettingOps

\* A request that nobody waits for any more.
LEMMA SettingOrphan ==
    ASSUME NEW c, SettingCall(c), SaveCall(c)
    PROVE  SettingCall([c EXCEPT !.phase = "orphan"]) /\ SaveCall([c EXCEPT !.phase = "orphan"])
  <1>1. [c EXCEPT !.phase = "orphan"] =
           [op |-> c.op, on |-> c.on, from |-> c.from, phase |-> "orphan", answer |-> c.answer]
    BY DEF SettingCall
  <1> QED
    BY <1>1 DEF SettingCall, SaveCall

\* The invariant holds at the start.
LEMMA SettingsStart ==
    ASSUME tab \in Tabs, SettingsInit PROVE SettingsInv
  BY StoreStart, TableTypes, LoadCall DEF SettingsInit, SettingsInv, SettingsFormInv, SettingsCallsInv

\* Opening and closing the tab.
LEMMA SettingsSelectStep ==
    ASSUME SettingsInv, NEW t \in Tabs, SettingsSelect(t) PROVE SettingsInv' /\ KeepsRest
  <1> USE DEF SettingsInv
  <1>1. CASE UNCHANGED settingsVars
    BY <1>1 DEF SettingsFormInv, SettingsCallsInv, settingsVars, KeepsRest
  <1>2. CASE ~UNCHANGED settingsVars
    <2>1. /\ settings' = BeforeLoading /\ formBase' = None /\ UNCHANGED storedSettings
          /\ settingCalls' = Orphans(settingCalls, {"save"}) \cup (IF t = "config" THEN {LoadSettings} ELSE {})
      BY <1>2, Zenon DEF SettingsSelect
    <2>2. \A c \in settingCalls : SettingCall([c EXCEPT !.phase = "orphan"]) /\ SaveCall([c EXCEPT !.phase = "orphan"])
      BY SettingOrphan DEF SettingsCallsInv
    <2>3. SettingsCallsInv'
      BY <2>1, <2>2, LoadCall DEF SettingsCallsInv, Orphans
    <2> QED
      BY <2>1, <2>3, TableTypes DEF SettingsFormInv, KeepsRest
  <1> QED
    BY <1>1, <1>2

\* What the admin does.
LEMMA SettingsUserStep ==
    ASSUME SettingsInv, SettingsUser PROVE SettingsInv' /\ KeepsRest
  <1> USE DEF SettingsInv
  <1>0. UNCHANGED storedSettings
    BY DEF SettingsUser, TypeSetting, ReloadSettings, SaveGroup
  <1>1. CASE TypeSetting
    <2>1. PICK k \in Keys : settings' = [settings EXCEPT ![k] = "typed"]
      BY <1>1 DEF TypeSetting
    <2>2. SettingsFormInv'
      BY <1>1, <2>1 DEF TypeSetting, SettingsFormInv, Tables, Values
    <2> QED
      BY <1>0, <1>1, <2>2 DEF TypeSetting, SettingsCallsInv, KeepsRest
  <1>2. CASE ReloadSettings
    BY <1>0, <1>2, LoadCall DEF ReloadSettings, SettingsFormInv, SettingsCallsInv, KeepsRest
  <1>3. CASE SaveGroup
    <2>1. PICK group \in Groups : settingCalls' = settingCalls \cup {Ask("save", Payload(group), formBase)}
      BY <1>3 DEF SaveGroup
    <2>2. group \subseteq Keys
      BY <2>1, GroupsAssumption
    <2> DEFINE on == Payload(group)
    <2>3. /\ DOMAIN on \subseteq Keys
          /\ \A k \in DOMAIN on : on[k] = OrBlank(settings[k]) /\ (k \in SecretKeys => on[k] # "redacted")
      BY <2>2 DEF Payload
    <2> HIDE DEF on
    <2>4. SaveCall(Ask("save", on, formBase))
      BY <2>3 DEF SaveCall, Ask, SettingsFormInv, OrBlank, Tables, Values
    <2>5. SettingCall(Ask("save", on, formBase))
      BY DEF SettingCall, Ask, SettingOps
    <2>6. SettingsCallsInv'
      BY <2>1, <2>4, <2>5 DEF SettingsCallsInv, on
    <2> QED
      BY <1>0, <1>3, <2>6 DEF SaveGroup, SettingsFormInv, KeepsRest
  <1> QED
    BY <1>1, <1>2, <1>3 DEF SettingsUser

\* What the server does: a save stores one key at a time.
LEMMA SettingsServeStep ==
    ASSUME SettingsInv, NEW c \in settingCalls, c.phase # "served", ServeLoad(c) \/ ServeSave(c),
           UNCHANGED <<settings, formBase>>
    PROVE  SettingsInv' /\ KeepsRest
  <1> USE DEF SettingsInv
  <1>0. SettingsFormInv'
    BY DEF SettingsFormInv
  <1>1. SettingCall(c) /\ SaveCall(c)
    BY DEF SettingsCallsInv
  <1>2. CASE ServeLoad(c)
    <2>1. SettingCall(Served(c, storedSettings)) /\ SaveCall(Served(c, storedSettings))
      BY <1>1, <1>2 DEF ServeLoad, SettingCall, SaveCall, Served
    <2> QED
      BY <1>0, <1>2, <2>1 DEF ServeLoad, AfterServing, SettingsCallsInv, KeepsRest
  <1>3. CASE ServeSave(c)
    <2> DEFINE on(k) == [j \in DOMAIN c.on \ {k} |-> c.on[j]]
               rest(k) == [c EXCEPT !.on = on(k)]
    <2>1. c.op = "save"
      BY <1>3 DEF ServeSave
    <2>2. PICK k \in DOMAIN c.on :
             /\ storedSettings' = IF k \in SecretKeys /\ c.on[k] = "redacted" THEN storedSettings
                                  ELSE [storedSettings EXCEPT ![k] = c.on[k]]
             /\ settingCalls' = IF DOMAIN rest(k).on # {} THEN (settingCalls \ {c}) \cup {rest(k)}
                                ELSE (settingCalls \ {c}) \cup (IF c.phase = "orphan" THEN {} ELSE {Served(rest(k), None)})
      BY <1>3 DEF ServeSave, StoreKey
    <2>3. rest(k) = [op |-> c.op, on |-> on(k), from |-> c.from, phase |-> c.phase, answer |-> c.answer]
      BY <1>1 DEF SettingCall
    <2>4. /\ SettingCall(rest(k)) /\ SaveCall(rest(k))
          /\ SettingCall(Served(rest(k), None)) /\ SaveCall(Served(rest(k), None))
      BY <1>1, <2>1, <2>3 DEF SettingCall, SaveCall, Served
    <2> HIDE DEF rest
    <2>5. SettingsCallsInv'
      BY <2>2, <2>4 DEF SettingsCallsInv
    <2>6. k \in Keys /\ c.on[k] \in Values /\ storedSettings' = [storedSettings EXCEPT ![k] = c.on[k]]
      BY <1>1, <2>1, <2>2 DEF SaveCall
    <2>7. storedSettings' \in Tables
      BY <2>6 DEF Tables
    <2>8. ASSUME storedSettings'[k] # storedSettings[k]
          PROVE  \/ c.on[k] = "typed" \/ storedSettings[k] = "unset" \/ c.from = None
                 \/ c.from # None /\ c.from[k] # storedSettings[k]
      <3>1. SUFFICES ASSUME c.from # None, c.on[k] # "typed", storedSettings[k] # "unset", c.from[k] = storedSettings[k]
                     PROVE  FALSE
        OBVIOUS
      <3>2. c.from \in Tables /\ c.on[k] = OrBlank(AsLoaded(c.from, k)) /\ (k \in SecretKeys => c.on[k] # "redacted")
        BY <1>1, <2>1, <2>6, <3>1 DEF SaveCall
      <3>3. c.on[k] = c.from[k]
        BY <2>6, <3>1, <3>2, SavedAsStored
      <3> QED
        BY <2>6, <2>8, <3>1, <3>3 DEF Tables
    <2>9. KeepsRest
      BY <2>1, <2>6, <2>8 DEF KeepsRest, Tables
    <2> QED
      BY <1>0, <2>5, <2>7, <2>9
  <1> QED
    BY <1>2, <1>3

\* Every step of the panel and of the server.
LEMMA SettingsStep ==
    ASSUME SettingsInv, [SettingsNext]_<<tab, settingsVars>>
    PROVE  SettingsInv' /\ [KeepsRest]_<<tab, settingsVars>>
  <1> USE DEF SettingsInv
  <1>1. ASSUME NEW t \in Tabs, SettingsSelect(t) PROVE SettingsInv' /\ KeepsRest
    BY <1>1, SettingsSelectStep
  <1>2. CASE SettingsUser
    BY <1>2, SettingsUserStep
  <1>3. CASE SettingsFail
    <2>1. PICK c \in settingCalls : settingCalls' \in GivenUp(settingCalls, c, {"save"})
      BY <1>3 DEF SettingsFail, Waiting
    <2>2. SettingCall([c EXCEPT !.phase = "orphan"]) /\ SaveCall([c EXCEPT !.phase = "orphan"])
      BY SettingOrphan DEF SettingsCallsInv
    <2>3. SettingsCallsInv'
      BY <2>1, <2>2 DEF GivenUp, SettingsCallsInv
    <2> QED
      BY <1>3, <2>3 DEF SettingsFail, SettingsFormInv, KeepsRest
  <1>4. ASSUME NEW op \in SettingOps, SettingsServe(op) PROVE SettingsInv' /\ KeepsRest
    BY <1>4, SettingsServeStep DEF SettingsServe, Unserved
  <1>5. ASSUME NEW op \in SettingOps, SettingsDeliver(op) PROVE SettingsInv' /\ KeepsRest
    <2>1. PICK c \in settingCalls : c.phase = "served" /\ (DeliverLoad(c) \/ DeliverSaved(c))
      BY <1>5 DEF SettingsDeliver, Arrived
    <2>2. UNCHANGED storedSettings
      BY <1>5 DEF SettingsDeliver
    <2>3. SettingsCallsInv'
      BY <2>1, LoadCall DEF DeliverLoad, DeliverSaved, SettingsCallsInv
    <2>4. SettingsFormInv'
      <3>1. CASE DeliverLoad(c)
        <4>1. c.answer \in Tables /\ WithDefaults(Told(c.answer)) \in Tables
          BY <2>1, <3>1, TableTypes DEF DeliverLoad, SettingsCallsInv, SettingCall
        <4> QED
          BY <3>1, <4>1 DEF DeliverLoad, SettingsFormInv, AsLoaded
      <3>2. CASE DeliverSaved(c)
        BY <3>2 DEF DeliverSaved, SettingsFormInv
      <3> QED
        BY <2>1, <3>1, <3>2
    <2> QED
      BY <2>2, <2>3, <2>4 DEF KeepsRest
  <1>6. CASE UNCHANGED <<tab, settingsVars>>
    BY <1>6 DEF SettingsFormInv, SettingsCallsInv, settingsVars
  <1> QED
    BY <1>1, <1>2, <1>3, <1>4, <1>5, <1>6 DEF SettingsNext

\* The invariant gives the types.
LEMMA SettingsTyped == SettingsInv => SettingsTypeOK
  BY DEF SettingsInv, SettingsFormInv, SettingsCallsInv, SettingCall, SettingsTypeOK, Tables

\* What the panel of the settings and the table keep is of its types.
THEOREM SettingsTypeCorrect == SettingsSpec => []SettingsTypeOK
  <1>1. SettingsInv => SettingsTypeOK
    BY SettingsTyped
  <1>2. tab \in Tabs /\ SettingsInit => SettingsInv
    BY SettingsStart
  <1>3. SettingsInv /\ [SettingsNext]_<<tab, settingsVars>> => SettingsInv'
    BY SettingsStep
  <1> QED
    BY <1>1, <1>2, <1>3, PTL DEF SettingsSpec

\* A save changes what was typed, what was not in the table, and only in a
\* form that is older than the table, or was never loaded, anything else.
THEOREM SavesOnlyTyped == SettingsSpec => SavesKeepRest
  <1>1. tab \in Tabs /\ SettingsInit => SettingsInv
    BY SettingsStart
  <1>2. SettingsInv /\ [SettingsNext]_<<tab, settingsVars>> => SettingsInv' /\ [KeepsRest]_<<tab, settingsVars>>
    BY SettingsStep
  <1> QED
    BY <1>1, <1>2, PTL DEF SettingsSpec, SavesKeepRest, KeepsRest

=============================================================================
