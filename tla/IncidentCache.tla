---------------------------- MODULE IncidentCache ----------------------------
(***************************************************************************)
(* The Git caches of the alert analysis: bare repositories that runs       *)
(* share, worktrees that belong to one task, the passes that evict         *)
(* repositories over the limits, and the janitor.                          *)
(*                                                                         *)
(* The directories survive a restart; the counts of users, the runs and    *)
(* the passes are memory of the process.                                   *)
(***************************************************************************)
EXTENDS Integers, FiniteSets, Functions

CONSTANTS
  Repos,        \* repositories, by incidentKey
  Trees,        \* worktree directories
  RepoOfTree,   \* the repository each belongs to
  Runs,         \* calls of Process and of TestRepository
  Tests,        \* those of TestRepository, which share the worktree of task 0
  TreeOf,       \* the worktree each call uses
  Janitor, None,
  Legacy,       \* repositories with a mirror of an older version
  MaxRepos,     \* MaxRepositories
  MaxBytes,
  Sizes,        \* sizes a repository may have after a fetch
  Disk,         \* answers to "is the disk below MinFreeBytes?"
  MaxStarts,    \* bound: calls in all
  MaxCrashes,   \* bound: ends of the process
  MaxFaults     \* bound: git commands, scans and removals that fail

ASSUME CacheAssumption ==
  /\ RepoOfTree \in [Trees -> Repos]
  /\ TreeOf \in [Runs -> Trees]
  /\ Tests \subseteq Runs
  /\ \A p \in Runs \ Tests : \A q \in Runs : TreeOf[p] = TreeOf[q] => p = q
  /\ Janitor \notin Runs /\ None \notin Trees
  /\ Legacy \subseteq Repos
  /\ IsFiniteSet(Repos) /\ IsFiniteSet(Trees) /\ IsFiniteSet(Runs)
  /\ MaxRepos \in Nat \ {0} /\ MaxBytes \in Nat /\ Sizes \subseteq Nat \ {0}
  /\ Disk \subseteq BOOLEAN
  /\ MaxStarts \in Nat /\ MaxCrashes \in Nat /\ MaxFaults \in Nat

VARIABLES
  mirror,     \* of each repository: "none", "unversioned" (no version file), "ready"
  size,       \* directorySize of the mirror
  lastUsed,   \* the place of the mirror by its last use, from 1; 0 for no mirror
  idle,       \* those not used for MaxIdle
  tree,       \* each worktree: "none", "linked" to its mirror, or "broken"
  aged,       \* worktrees older than WorktreeTTL
  active,     \* incidentState.active, 0 for no entry
  pc,         \* where each run is
  at,         \* where the pass of each run, and of the janitor, is
  todo,       \* the entries the pass has still to look at
  counted,    \* the entries in its `remaining` and `total`
  dirs,       \* the worktrees the janitor has still to look at
  doomed,     \* the worktree it is about to clean
  starts, crashes, faults   \* how much of each bound is used

diskVars   == <<mirror, size, lastUsed, idle, tree, aged>>
passVars   == <<at, todo, counted, dirs, doomed>>
budgetVars == <<starts, crashes, faults>>
vars == <<diskVars, active, pc, passVars, budgetVars>>

-----------------------------------------------------------------------------
Pruners   == Runs \cup {Janitor}
RepoOf(p) == RepoOfTree[TreeOf[p]]
Mirrors   == {r \in Repos : mirror[r] # "none"}

EmptySize == 1

\* Mutant: every worktree has a lock of its own.
TreeLockFree(r) == \A p \in Runs : TreeOf[p] = r => pc[p] \notin {"fetch", "size", "add"}

\* Runs between Lock(key) of PrepareRevision and its return.
Locked == {"fetch", "size", "add"}
LockFree(r) == \A p \in Runs : RepoOf(p) = r => pc[p] \notin Locked

Init ==
  /\ mirror = [r \in Repos |-> IF r \in Legacy THEN "unversioned" ELSE "none"]
  /\ size = [r \in Repos |-> IF r \in Legacy THEN EmptySize ELSE 0]
  /\ lastUsed \in [Repos -> 0..Cardinality(Legacy)]
  /\ \A r \in Repos : lastUsed[r] = 0 <=> r \notin Legacy
  /\ \A r, q \in Legacy : lastUsed[r] = lastUsed[q] => r = q
  /\ idle = {} /\ aged = {}
  /\ tree = [d \in Trees |-> "none"]
  /\ active = [r \in Repos |-> 0]
  /\ pc = [p \in Runs |-> "idle"]
  /\ at = [p \in Pruners |-> "off"]
  /\ todo = [p \in Pruners |-> {}] /\ counted = [p \in Pruners |-> {}]
  /\ dirs = {} /\ doomed = None
  /\ starts = 0 /\ crashes = 0 /\ faults = 0

Fault == faults < MaxFaults /\ faults' = faults + 1 /\ UNCHANGED <<starts, crashes>>
GoTo(p, where) == pc' = [pc EXCEPT ![p] = where]

\* A removed mirror takes the administration of its worktrees with it.
Unlinked(r) == [d \in Trees |-> IF RepoOfTree[d] = r /\ tree[d] = "linked" THEN "broken" ELSE tree[d]]

\* The places of the others when r gives up its own.
Closed(r) ==
  [q \in Repos |-> IF lastUsed[r] # 0 /\ lastUsed[q] > lastUsed[r] THEN lastUsed[q] - 1 ELSE lastUsed[q]]

removeIncidentMirror(r) ==
  /\ mirror' = [mirror EXCEPT ![r] = "none"]
  /\ size' = [size EXCEPT ![r] = 0]
  /\ lastUsed' = [Closed(r) EXCEPT ![r] = 0]
  /\ idle' = idle \ {r}
  /\ tree' = Unlinked(r)

touchIncidentCache(r) ==
  /\ lastUsed' = [Closed(r) EXCEPT ![r] = Cardinality(Mirrors \cup {r})]
  /\ idle' = idle \ {r}

markIncidentActive(r, delta) ==
  active' = [active EXCEPT ![r] = IF active[r] + delta > 0 THEN active[r] + delta ELSE 0]

StartPass(p) == at' = [at EXCEPT ![p] = "scan"] /\ UNCHANGED <<todo, counted, dirs, doomed>>
EndPass(p) ==
  /\ at' = [at EXCEPT ![p] = "off"]
  /\ todo' = [todo EXCEPT ![p] = {}]
  /\ counted' = [counted EXCEPT ![p] = {}]
  /\ IF p = Janitor THEN dirs' = {} /\ doomed' = None ELSE UNCHANGED <<dirs, doomed>>

-----------------------------------------------------------------------------
(* PrepareRevision. *)

\* It marks the repository active and starts a pass.
Start(p) ==
  /\ pc[p] = "idle" /\ at[p] = "off" /\ starts < MaxStarts
  /\ starts' = starts + 1
  /\ markIncidentActive(RepoOf(p), 1)
  /\ GoTo(p, "prune")
  /\ StartPass(p)
  /\ UNCHANGED <<diskVars, crashes, faults>>

\* ensureIncidentFreeSpace, after the pass.
CheckSpace(p) ==
  /\ pc[p] = "prune" /\ at[p] = "off"
  /\ \E low \in Disk : GoTo(p, IF low THEN "failed" ELSE "lock")
  /\ UNCHANGED <<diskVars, active, passVars, budgetVars>>

\* It takes the lock; a mirror without the current version is replaced.
prepareIncidentBareRepo(p) ==
  LET r == RepoOf(p) IN
  /\ pc[p] = "lock" /\ LockFree(r)
  /\ IF mirror[r] = "ready" THEN UNCHANGED <<mirror, size, lastUsed, idle, tree>>
     ELSE /\ mirror' = [mirror EXCEPT ![r] = "ready"]
          /\ size' = [size EXCEPT ![r] = EmptySize]
          /\ touchIncidentCache(r)
          /\ tree' = Unlinked(r)
  /\ GoTo(p, "fetch")
  /\ UNCHANGED <<aged, active, passVars, budgetVars>>

\* A git command fails, or the context is done; init may have left a directory.
BareRepoFails(p) ==
  LET r == RepoOf(p) IN
  /\ pc[p] = "lock" /\ LockFree(r) /\ Fault
  /\ \/ UNCHANGED <<mirror, size, lastUsed, idle, tree>>
     \/ mirror[r] # "ready" /\ removeIncidentMirror(r)
     \/ /\ mirror[r] # "ready"
        /\ mirror' = [mirror EXCEPT ![r] = "unversioned"]
        /\ size' = [size EXCEPT ![r] = EmptySize]
        /\ touchIncidentCache(r)
        /\ tree' = Unlinked(r)
  /\ GoTo(p, "failed")
  /\ UNCHANGED <<aged, active, passVars>>

\* The fetch, the ref that retains what it fetched, the touch.
Fetch(p) ==
  LET r == RepoOf(p) IN
  /\ pc[p] = "fetch"
  /\ \E s \in Sizes : s >= size[r] /\ size' = [size EXCEPT ![r] = s]
  /\ touchIncidentCache(r)
  /\ GoTo(p, "size")
  /\ UNCHANGED <<mirror, tree, aged, active, passVars, budgetVars>>

\* The fetch or what follows it fails before the mirror is measured.
FetchFails(p) ==
  /\ pc[p] \in {"fetch", "size"} /\ Fault
  /\ \E s \in Sizes : s >= size[RepoOf(p)] /\ size' = [size EXCEPT ![RepoOf(p)] = s]
  /\ GoTo(p, "failed")
  /\ UNCHANGED <<mirror, lastUsed, idle, tree, aged, active, passVars>>

\* Over the size limit, or short of space, the mirror is removed, also when
\* another task is using it.
CheckSize(p) ==
  LET r == RepoOf(p) IN
  /\ pc[p] = "size"
  /\ \E low \in Disk :
       IF size[r] > MaxBytes \/ low
       THEN removeIncidentMirror(r) /\ GoTo(p, "failed")
       ELSE GoTo(p, "add") /\ UNCHANGED <<mirror, size, lastUsed, idle, tree>>
  /\ UNCHANGED <<aged, active, passVars, budgetVars>>

\* cleanWorktree, `git worktree add` and the last look at the disk.
AddWorktree(p) ==
  /\ pc[p] = "add"
  /\ \E low \in Disk :
       /\ tree' = [tree EXCEPT ![TreeOf[p]] = IF low THEN "none" ELSE "linked"]
       /\ GoTo(p, IF low THEN "failed" ELSE IF p \in Tests THEN "clean" ELSE "use")
  /\ aged' = aged \ {TreeOf[p]}
  /\ UNCHANGED <<mirror, size, lastUsed, idle, active, passVars, budgetVars>>

\* What a failing `worktree add` wrote stays until the janitor finds it.
AddFails(p) ==
  /\ pc[p] = "add" /\ Fault
  /\ \E rest \in {"none", "broken"} : tree' = [tree EXCEPT ![TreeOf[p]] = rest]
  /\ aged' = aged \ {TreeOf[p]}
  /\ GoTo(p, "failed")
  /\ UNCHANGED <<mirror, size, lastUsed, idle, active, passVars>>

\* The deferred end of a PrepareRevision that failed: the lock is free by now.
PrepareFails(p) ==
  /\ pc[p] = "failed"
  /\ markIncidentActive(RepoOf(p), -1)
  /\ GoTo(p, "idle")
  /\ UNCHANGED <<diskVars, passVars, budgetVars>>

-----------------------------------------------------------------------------
(* CleanupRevision. *)

ProcessReturns(p) ==
  /\ pc[p] = "use"
  /\ GoTo(p, "clean")
  /\ UNCHANGED <<diskVars, active, passVars, budgetVars>>

\* cleanWorktree and the touch, under the lock; a directory that cannot be
\* removed stays.
CleanupRevision(p) ==
  LET r == RepoOf(p) IN
  /\ pc[p] = "clean" /\ LockFree(r)
  /\ \/ tree' = [tree EXCEPT ![TreeOf[p]] = "none"] /\ UNCHANGED budgetVars
     \/ Fault /\ tree' = [tree EXCEPT ![TreeOf[p]] = "broken"]
  /\ IF mirror[r] # "none" THEN touchIncidentCache(r) ELSE UNCHANGED <<lastUsed, idle>>
  /\ aged' = aged \ {TreeOf[p]}
  /\ GoTo(p, "unmark")
  /\ UNCHANGED <<mirror, size, active, passVars>>

\* After the unlock: the mark goes, and a last pass starts.
Unmark(p) ==
  /\ pc[p] = "unmark"
  /\ markIncidentActive(RepoOf(p), -1)
  /\ GoTo(p, "idle")
  /\ StartPass(p)
  /\ UNCHANGED <<diskVars, budgetVars>>

-----------------------------------------------------------------------------
(* pruneIncidentCache: a pass, of a run or of the janitor. *)

\* Mutant: a scan that does not look at the time of the last use.
EntryUnread(r) == [repo |-> r, size |-> size[r], lastUsed |-> lastUsed[r]]

Entry(r) == [repo |-> r, idle |-> r \in idle, size |-> size[r], lastUsed |-> lastUsed[r]]

\* scanIncidentCaches: without a lock, the snapshot the pass works on.
Scan(p) ==
  /\ at[p] = "scan"
  /\ at' = [at EXCEPT ![p] = "entries"]
  /\ todo' = [todo EXCEPT ![p] = {Entry(r) : r \in Mirrors}]
  /\ counted' = [counted EXCEPT ![p] = {Entry(r) : r \in Mirrors}]
  /\ UNCHANGED <<diskVars, active, pc, dirs, doomed, budgetVars>>

\* The order of the pass: what was used least recently when it scanned.
First(p, e) == e \in todo[p] /\ \A o \in todo[p] : e.lastUsed <= o.lastUsed

TotalSize(entries) == SumFunctionOnSet([e \in entries |-> e.size], entries)

OverLimit(p) == Cardinality(counted[p]) > MaxRepos \/ TotalSize(counted[p]) > MaxBytes

\* Entries that may stay, or are in use, are passed over.
PassOver(p) ==
  /\ at[p] = "entries"
  /\ \E e \in todo[p] :
       /\ First(p, e)
       /\ \/ ~e.idle /\ ~OverLimit(p) /\ FALSE \in Disk
          \/ active[e.repo] > 0
       /\ todo' = [todo EXCEPT ![p] = todo[p] \ {e}]
  /\ UNCHANGED <<diskVars, active, pc, at, counted, dirs, doomed, budgetVars>>

Choose(p) ==
  /\ at[p] = "entries"
  /\ \E e \in todo[p] :
       /\ First(p, e) /\ active[e.repo] = 0
       /\ e.idle \/ OverLimit(p) \/ TRUE \in Disk
  /\ at' = [at EXCEPT ![p] = "evict"]
  /\ UNCHANGED <<diskVars, active, pc, todo, counted, dirs, doomed, budgetVars>>

\* Mutant: what was read before the lock is trusted.
UnusedBefore(r) == r \in Repos

\* Under the lock the marks are read again.
StillUnused(r) == active[r] = 0

\* The entry no longer counts, removed or not.
Evict(p) ==
  /\ at[p] = "evict"
  /\ \E e \in todo[p] :
       /\ First(p, e) /\ LockFree(e.repo)
       /\ IF StillUnused(e.repo) THEN removeIncidentMirror(e.repo)
          ELSE UNCHANGED <<mirror, size, lastUsed, idle, tree>>
       /\ todo' = [todo EXCEPT ![p] = todo[p] \ {e}]
       /\ counted' = [counted EXCEPT ![p] = counted[p] \ {e}]
  /\ at' = [at EXCEPT ![p] = "entries"]
  /\ UNCHANGED <<aged, active, pc, dirs, doomed, budgetVars>>

PassEnds(p) ==
  /\ at[p] = "entries" /\ todo[p] = {}
  /\ EndPass(p)
  /\ UNCHANGED <<diskVars, active, pc, budgetVars>>

\* A scan meets a directory that vanishes, a removal fails, the context is done.
PassFails(p) ==
  /\ at[p] # "off" /\ Fault
  /\ EndPass(p)
  /\ UNCHANGED <<diskVars, active, pc>>

PassStep(p) == Scan(p) \/ PassOver(p) \/ Choose(p) \/ Evict(p) \/ PassEnds(p) \/ PassFails(p)

-----------------------------------------------------------------------------
(* RunIncidentJanitor: a pass that first looks at the worktrees. *)

JanitorWakes ==
  /\ at[Janitor] = "off"
  /\ at' = [at EXCEPT ![Janitor] = "trees"]
  /\ dirs' = {d \in Trees : tree[d] # "none"}
  /\ UNCHANGED <<diskVars, active, pc, todo, counted, doomed, budgetVars>>

\* Mutant: what has no mirror it could be removed from is kept, too.
KeepsOrphans(d) ==
  \/ active[RepoOfTree[d]] > 0 \/ mirror[RepoOfTree[d]] = "none"
  \/ tree[d] # "none" /\ d \notin aged

\* In use, or too young.
Keeps(d) == active[RepoOfTree[d]] > 0 \/ (tree[d] # "none" /\ d \notin aged)

PassOverTree ==
  /\ at[Janitor] = "trees"
  /\ \E d \in dirs : Keeps(d) /\ dirs' = dirs \ {d}
  /\ UNCHANGED <<diskVars, active, pc, at, todo, counted, doomed, budgetVars>>

\* A directory removed since the listing ends the pass, with its error.
TreeVanished ==
  /\ at[Janitor] = "trees"
  /\ \E d \in dirs : ~Keeps(d) /\ tree[d] = "none"
  /\ EndPass(Janitor)
  /\ UNCHANGED <<diskVars, active, pc, budgetVars>>

ChooseTree ==
  /\ at[Janitor] = "trees"
  /\ \E d \in dirs : ~Keeps(d) /\ tree[d] # "none" /\ doomed' = d /\ dirs' = dirs \ {d}
  /\ at' = [at EXCEPT ![Janitor] = "tree"]
  /\ UNCHANGED <<diskVars, active, pc, todo, counted, budgetVars>>

CleanTree ==
  /\ at[Janitor] = "tree" /\ LockFree(RepoOfTree[doomed])
  /\ IF StillUnused(RepoOfTree[doomed])
     THEN tree' = [tree EXCEPT ![doomed] = "none"] /\ aged' = aged \ {doomed}
     ELSE UNCHANGED <<tree, aged>>
  /\ at' = [at EXCEPT ![Janitor] = "trees"]
  /\ doomed' = None
  /\ UNCHANGED <<mirror, size, lastUsed, idle, active, pc, todo, counted, dirs, budgetVars>>

TreesDone ==
  /\ at[Janitor] = "trees" /\ dirs = {}
  /\ StartPass(Janitor)
  /\ UNCHANGED <<diskVars, active, pc, budgetVars>>

JanitorStep == JanitorWakes \/ PassOverTree \/ TreeVanished \/ ChooseTree \/ CleanTree \/ TreesDone

-----------------------------------------------------------------------------
(* Time and the process. *)

TreeAges(d) ==
  /\ tree[d] # "none" /\ d \notin aged
  /\ aged' = aged \cup {d}
  /\ UNCHANGED <<mirror, size, lastUsed, idle, tree, active, pc, passVars, budgetVars>>

MirrorIdles(r) ==
  /\ mirror[r] # "none" /\ r \notin idle
  /\ idle' = idle \cup {r}
  /\ UNCHANGED <<mirror, size, lastUsed, tree, aged, active, pc, passVars, budgetVars>>

\* The process dies and the next one starts: only the directories are left.
Crash ==
  /\ crashes < MaxCrashes
  /\ crashes' = crashes + 1
  /\ active' = [r \in Repos |-> 0]
  /\ pc' = [p \in Runs |-> "idle"]
  /\ at' = [p \in Pruners |-> "off"]
  /\ todo' = [p \in Pruners |-> {}] /\ counted' = [p \in Pruners |-> {}]
  /\ dirs' = {} /\ doomed' = None
  /\ UNCHANGED <<diskVars, starts, faults>>

Progress(p) ==
  \/ CheckSpace(p) \/ prepareIncidentBareRepo(p) \/ CheckSize(p)
  \/ PrepareFails(p) \/ ProcessReturns(p) \/ CleanupRevision(p) \/ Unmark(p)

\* Git over the network, under the lock of the repository.
Remote(p) == Fetch(p) \/ AddWorktree(p)

RunStep(p) == Progress(p) \/ Remote(p) \/ BareRepoFails(p) \/ FetchFails(p) \/ AddFails(p)

Next ==
  \/ \E p \in Runs : Start(p) \/ RunStep(p)
  \/ \E p \in Pruners : PassStep(p)
  \/ JanitorStep
  \/ \E d \in Trees : TreeAges(d)
  \/ \E r \in Repos : MirrorIdles(r)
  \/ Crash

Spec == Init /\ [][Next]_vars

\* Agents have timeouts, local commands end, the loops go on, the janitor's timer
\* fires, directories get older. That Git comes back from the network is not among
\* it: runGit has no limit and the context of a task no deadline.
Fairness ==
  /\ \A p \in Runs : WF_vars(Progress(p))
  /\ \A p \in Pruners : WF_vars(PassStep(p))
  /\ WF_vars(JanitorStep)
  /\ \A d \in Trees : WF_vars(TreeAges(d))
  /\ \A r \in Repos : WF_vars(MirrorIdles(r))

FairSpec == Spec /\ Fairness

-----------------------------------------------------------------------------
(* Properties. *)

Entries == [repo : Repos, idle : BOOLEAN, size : Nat, lastUsed : Nat]

DiskType ==
  /\ mirror \in [Repos -> {"none", "unversioned", "ready"}]
  /\ size \in [Repos -> Nat]
  /\ lastUsed \in [Repos -> Nat]
  /\ idle \subseteq Repos
  /\ tree \in [Trees -> {"none", "linked", "broken"}]
  /\ aged \subseteq Trees

RunType ==
  /\ active \in [Repos -> Nat]
  /\ pc \in [Runs -> {"idle", "prune", "lock", "fetch", "size", "add", "failed", "use", "clean", "unmark"}]

PassType ==
  /\ at \in [Pruners -> {"off", "scan", "entries", "evict", "trees", "tree"}]
  /\ todo \in [Pruners -> SUBSET Entries] /\ counted \in [Pruners -> SUBSET Entries]
  /\ dirs \subseteq Trees /\ doomed \in Trees \cup {None}

TypeOK ==
  /\ DiskType /\ RunType /\ PassType
  /\ starts \in Nat /\ crashes \in Nat /\ faults \in Nat

\* No pass removes a mirror between the moment a run made it ready and the
\* moment the run takes its worktree from it, though passes scan without the
\* lock and wait for it with what they scanned.
MirrorHeld == \A p \in Runs : pc[p] \in Locked => mirror[RepoOf(p)] = "ready"

\* The runs that count as users of a repository, and the counter of them: one too
\* many keeps it for good, one too few lets a pass take it from a task.
Users(r) == {p \in Runs : RepoOf(p) = r /\ pc[p] # "idle"}
ActiveCounts == \A r \in Repos : active[r] = Cardinality(Users(r))

\* The analysis of a task reads its worktree, with the mirror behind it.
InUse(p) == p \in Runs \ Tests /\ pc[p] = "use"

\* "CleanupRevision ... then makes the bare cache eligible for quota/LRU
\* eviction": until then no pass of anyone takes the mirror or the worktree from
\* a task. Only another run of its repository does, in CheckSize.
KeepsUsed ==
  \A p \in Runs :
    InUse(p) /\ InUse(p)' /\ tree[TreeOf[p]] = "linked" /\ tree'[TreeOf[p]] # "linked"
      => \E q \in Runs : RepoOf(q) = RepoOf(p) /\ pc[q] = "size" /\ pc'[q] = "failed"
UsedKept == [][KeepsUsed]_vars

\* No fetch lasts forever. Nothing in the code ensures it: one that hangs keeps the
\* lock of its repository and the mark until the process ends.
RemoteComesBack == \A p \in Runs : []<>(pc[p] \notin {"fetch", "add"})

\* README: "a janitor removes crash leftovers after one hour" and the cache is
\* bounded by idleness: if Git comes back and no alert comes, the disk is empty in
\* the end, whatever failed before.
Drained ==
  RemoteComesBack =>
    <>[]((\A r \in Repos : mirror[r] = "none") /\ (\A d \in Trees : tree[d] = "none"))
=============================================================================
