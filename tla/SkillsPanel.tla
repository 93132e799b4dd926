----------------------------- MODULE SkillsPanel ----------------------------
(***************************************************************************)
(* The panel of project skills: the list of projects, the skill of the     *)
(* selected one, and the generation of a new version of it by a background *)
(* task that is polled (App.jsx, SkillsPanel), over the skill handlers of  *)
(* the console server, whose tasks are in memory.                          *)
(*                                                                         *)
(* A skill is its project and its version, 0 when none was generated.      *)
(***************************************************************************)
EXTENDS ConsoleRequests

CONSTANTS
    Projects,      \* projects with findings, as the server lists them: 1, 2, ...
    MaxSkillTasks  \* bound: generations that are ever started

ASSUME SkillsAssumption ==
    /\ Projects \in SUBSET (Nat \ {0}) /\ 1 \in Projects /\ None \notin Nat
    /\ MaxSkillTasks \in Nat

VARIABLES
    skillVersion,   \* the project_skills table: project -> version
    skillTasks,     \* skillTasks of the server: a task's id is its number
    projectsShown,  \* projects is loaded
    listIsNewer,    \* the rows shown are newer objects than `selected'
    selected,
    skill,          \* detail
    skillLoading,   \* loading
    generating,
    generationTask, \* the task that is polled, or None
    skillCalls

skillsServer == <<skillVersion, skillTasks>>
skillsLocal == <<projectsShown, listIsNewer, selected, skill, skillLoading, generating, generationTask>>
skillsVars == <<skillsServer, skillsLocal, skillCalls>>

SkillWrites == {"generate", "create"}
SkillOps == {"projects", "skill", "status"} \cup SkillWrites
TaskIds == DOMAIN skillTasks
FirstProject == 1

LoadProjects == Ask("projects", None, None)
SkillOf(p) == [project |-> p, version |-> skillVersion[p]]

SkillsInit ==
    /\ skillVersion = [p \in Projects |-> 0]
    /\ skillTasks = <<>>
    /\ projectsShown = FALSE /\ listIsNewer = FALSE
    /\ selected = None /\ skill = None /\ skillLoading = FALSE
    /\ generating = FALSE /\ generationTask = None
    /\ skillCalls = IF tab = "skills" THEN {LoadProjects} ELSE {}

SkillsSelect(t) ==
    IF (t = "skills") = (tab = "skills") THEN UNCHANGED skillsVars
    ELSE /\ projectsShown' = FALSE /\ listIsNewer' = FALSE
         /\ selected' = None /\ skill' = None /\ skillLoading' = FALSE
         /\ generating' = FALSE /\ generationTask' = None
         /\ skillCalls' = Orphans(skillCalls, SkillWrites) \cup (IF t = "skills" THEN {LoadProjects} ELSE {})
         /\ UNCHANGED skillsServer

---------------------------------------------------------------------------
\* Mutant: the detail effect has no cleanup.
NoSkillCleanup(calls) == calls

\* The cleanups of the two effects: what they have asked is not waited for
\* any more once `selected' or the polled task is another.
CleanupSkill(calls) == {c \in calls : c.op # "skill"}
CleanupPoll(calls) == {c \in calls : c.op # "status"}

\* setSelected(p), with an object React has not seen, and its effect.
SelectProject(p) ==
    /\ selected' = p
    /\ listIsNewer' = FALSE
    /\ skillLoading' = TRUE
    /\ skillCalls' = CleanupSkill(skillCalls) \cup {Ask("skill", p, None)}

PickProject ==
    /\ projectsShown /\ ~generating
    /\ \E p \in Projects : (p # selected \/ listIsNewer) /\ SelectProject(p)
    /\ UNCHANGED <<skillsServer, projectsShown, skill, generating, generationTask>>

RefreshProjects ==
    /\ ~generating
    /\ skillCalls' = skillCalls \cup {LoadProjects}
    /\ UNCHANGED <<skillsServer, skillsLocal>>

Generate ==
    /\ selected # None /\ ~generating
    /\ generating' = TRUE
    /\ generationTask' = None
    /\ skillCalls' = skillCalls \cup {Ask("generate", selected, None)}
    /\ UNCHANGED <<skillsServer, projectsShown, listIsNewer, selected, skill, skillLoading>>

SkillsUser == tab = "skills" /\ Room(skillCalls) /\ (PickProject \/ RefreshProjects \/ Generate)

\* The interval of 2 s of the effect that watches the generation.
SkillsPoll ==
    /\ tab = "skills" /\ Room(skillCalls)
    /\ generationTask # None
    /\ skillCalls' = skillCalls \cup {Ask("status", generationTask, None)}
    /\ UNCHANGED <<skillsServer, skillsLocal>>

---------------------------------------------------------------------------
\* runSkillGenerationTask ends: the new version is stored, then the task is
\* done and keeps the skill it made; or it has failed.
GeneratorEnds ==
    \E i \in TaskIds :
       /\ skillTasks[i].status = "running"
       /\ \/ LET p == skillTasks[i].project
             IN  /\ skillVersion' = [skillVersion EXCEPT ![p] = @ + 1]
                 /\ skillTasks' = [skillTasks EXCEPT ![i].status = "done", ![i].version = skillVersion[p] + 1]
          \/ skillTasks' = [skillTasks EXCEPT ![i].status = "failed"] /\ UNCHANGED skillVersion

\* The process restarts: the tasks of the map are gone.
ServerRestarts ==
    /\ \E i \in TaskIds : skillTasks[i].status # "gone"
    /\ skillTasks' = [i \in TaskIds |-> [skillTasks[i] EXCEPT !.status = "gone"]]
    /\ UNCHANGED skillVersion

\* handleSkillGenerate looks for a running task of the project; it starts a
\* new one in a second step, and nothing is locked between the two.
Running(p) == {i \in TaskIds : skillTasks[i].project = p /\ skillTasks[i].status = "running"}
ServeGenerate(c) ==
    /\ c.op = "generate"
    /\ \/ \E i \in Running(c.on) : skillCalls' = AfterServing(skillCalls, c, i)
       \/ Running(c.on) = {} /\ skillCalls' = (skillCalls \ {c}) \cup {[c EXCEPT !.op = "create"]}
    /\ UNCHANGED skillsServer
ServeCreateTask(c) ==
    /\ c.op = "create"
    /\ LET new == Cardinality(TaskIds) + 1
       IN  \/ /\ new <= MaxSkillTasks
              /\ skillTasks' = [i \in TaskIds \cup {new} |->
                     IF i = new THEN [project |-> c.on, status |-> "running", version |-> 0] ELSE skillTasks[i]]
              /\ skillCalls' = AfterServing(skillCalls, c, new)
           \/ new > MaxSkillTasks /\ skillCalls' = AfterServing(skillCalls, c, None) /\ UNCHANGED skillTasks
    /\ UNCHANGED skillVersion

\* A read.  The status of a task that is gone is 404, None.
ServeSkillRead(c) ==
    /\ c.op \notin SkillWrites
    /\ skillCalls' = AfterServing(skillCalls, c,
          IF c.op = "skill" THEN SkillOf(c.on)
          ELSE IF c.op = "status" /\ skillTasks[c.on].status # "gone" THEN skillTasks[c.on] ELSE None)
    /\ UNCHANGED skillsServer

SkillsServe(op) ==
    /\ \E c \in Unserved(skillCalls) : c.op = op /\ (ServeGenerate(c) \/ ServeCreateTask(c) \/ ServeSkillRead(c))
    /\ UNCHANGED skillsLocal

---------------------------------------------------------------------------
\* The list arrives; only a panel without a selection takes the first row.
DeliverProjects(c) ==
    /\ c.op = "projects"
    /\ projectsShown' = TRUE
    /\ IF selected = None
       THEN /\ selected' = FirstProject /\ listIsNewer' = FALSE /\ skillLoading' = TRUE
            /\ skillCalls' = (skillCalls \ {c}) \cup {Ask("skill", FirstProject, None)}
       ELSE /\ listIsNewer' = TRUE
            /\ skillCalls' = skillCalls \ {c}
            /\ UNCHANGED <<selected, skillLoading>>
    /\ UNCHANGED <<skill, generating, generationTask>>

DeliverSkill(c) ==
    /\ c.op = "skill"
    /\ skill' = c.answer
    /\ skillLoading' = FALSE
    /\ skillCalls' = skillCalls \ {c}
    /\ UNCHANGED <<projectsShown, listIsNewer, selected, generating, generationTask>>

\* setGenerating(false) and setGenerationTask(null).
StopsWatching == generating' = FALSE /\ generationTask' = None

\* The task is known: the effect polls it at once.
DeliverGenerate(c) ==
    /\ c.op \in SkillWrites
    /\ IF c.answer = None THEN StopsWatching /\ skillCalls' = skillCalls \ {c}
       ELSE /\ generationTask' = c.answer
            /\ skillCalls' = (skillCalls \ {c}) \cup {Ask("status", c.answer, None)}
            /\ UNCHANGED generating
    /\ UNCHANGED <<projectsShown, listIsNewer, selected, skill, skillLoading>>

\* Mutant: a poll that fails is not an end.
StatusOrRunning(answer) == IF answer = None THEN "running" ELSE answer.status

StatusIn(answer) == IF answer = None THEN "gone" ELSE answer.status
DeliverStatus(c) ==
    /\ c.op = "status"
    /\ \/ /\ StatusIn(c.answer) = "running"
          /\ skillCalls' = skillCalls \ {c}
          /\ UNCHANGED <<skill, generating, generationTask>>
       \/ /\ StatusIn(c.answer) = "done"
          /\ skill' = [project |-> c.answer.project, version |-> c.answer.version]
          /\ StopsWatching
          /\ skillCalls' = CleanupPoll(skillCalls) \cup {LoadProjects}
       \/ /\ StatusIn(c.answer) \in {"failed", "gone"}
          /\ StopsWatching
          /\ skillCalls' = CleanupPoll(skillCalls)
          /\ UNCHANGED skill
    /\ UNCHANGED <<projectsShown, listIsNewer, selected, skillLoading>>

SkillsDeliver(op) ==
    /\ tab = "skills"
    /\ \E c \in Arrived(skillCalls) :
          /\ c.op = op
          /\ DeliverProjects(c) \/ DeliverSkill(c) \/ DeliverGenerate(c) \/ DeliverStatus(c)
    /\ UNCHANGED skillsServer

SkillsFail ==
    /\ tab = "skills"
    /\ \E c \in Waiting(skillCalls) :
          /\ \E calls \in GivenUp(skillCalls, c, SkillWrites) :
                skillCalls' = IF c.op = "status" THEN CleanupPoll(calls) ELSE calls
          /\ skillLoading' = (skillLoading /\ c.op # "skill")
          /\ IF c.op \in SkillWrites \cup {"status"} THEN StopsWatching ELSE UNCHANGED <<generating, generationTask>>
    /\ UNCHANGED <<skillsServer, projectsShown, listIsNewer, selected, skill>>

SkillsNext ==
    \/ \E t \in Tabs : SkillsSelect(t) /\ tab' = t
    \/ /\ \/ SkillsUser \/ SkillsPoll \/ SkillsFail
          \/ (GeneratorEnds \/ ServerRestarts) /\ UNCHANGED <<skillsLocal, skillCalls>>
          \/ \E op \in SkillOps : SkillsServe(op) \/ SkillsDeliver(op)
       /\ UNCHANGED tab

SkillsSpec == tab \in Tabs /\ SkillsInit /\ [][SkillsNext]_<<tab, skillsVars>>

---------------------------------------------------------------------------
Skills == [project : Projects, version : Nat]
GenerationStates == {"running", "done", "failed", "gone"}

\* The types of what the panel and the server keep.
SkillsTypeOK ==
    /\ skillVersion \in [Projects -> Nat]
    /\ \A i \in TaskIds : skillTasks[i] \in [project : Projects, status : GenerationStates, version : Nat]
    /\ selected \in Projects \cup {None} /\ skill \in Skills \cup {None}
    /\ {projectsShown, listIsNewer, skillLoading, generating} \subseteq BOOLEAN
    /\ generationTask \in TaskIds \cup {None}
    /\ \A c \in skillCalls : c.op \in SkillOps /\ c.phase \in {"sent", "served", "orphan"}

\* A skill that appears is the skill of the project that is selected then: not
\* of one selected before, nor of one a finished generation was started for.
ShownIsSelected ==
    [][skill' # skill /\ skill' # None => skill'.project = selected']_<<tab, skillsVars>>

\* The panel waits for a generation exactly as long as it is asked for or
\* watched, and watches one of the project that is selected.
GeneratingTells ==
    tab = "skills" =>
        /\ generating <=> generationTask # None \/ \E c \in Waiting(skillCalls) : c.op \in SkillWrites
        /\ generationTask # None => skillTasks[generationTask].project = selected

\* A generation that was started ends for the admin, with a skill or with a
\* message: also when the process that ran it has restarted and forgotten it.
GenerationEnds == generating ~> ~generating

=============================================================================
