------------------------ MODULE IncidentCacheProofs -------------------------
(***************************************************************************)
(* Theorems about IncidentCache, for any number of repositories, worktrees *)
(* and runs, any limits and any bounds.                                    *)
(***************************************************************************)
EXTENDS IncidentCache, FiniteSetTheorems, TLAPS

-----------------------------------------------------------------------------
(* Types. *)

LEMMA RepoType == \A p \in Runs : TreeOf[p] \in Trees /\ RepoOf(p) \in Repos
BY CacheAssumption DEF RepoOf

LEMMA TypeInit == Init => TypeOK
<1> SUFFICES ASSUME Init PROVE TypeOK
  OBVIOUS
<1>1. Cardinality(Legacy) \in Nat
  BY CacheAssumption, FS_Subset, FS_CardinalityType
<1>2. DiskType
  BY <1>1, CacheAssumption DEF Init, DiskType, EmptySize
<1>3. RunType /\ PassType
  BY DEF Init, RunType, PassType
<1> QED BY <1>2, <1>3 DEF Init, TypeOK

\* The three ways a step changes what is known of a mirror.
LEMMA MirrorTypes ==
  ASSUME DiskType, NEW r \in Repos
  PROVE  /\ removeIncidentMirror(r) /\ UNCHANGED aged => DiskType'
         /\ touchIncidentCache(r) => lastUsed' \in [Repos -> Nat] /\ idle' \subseteq Repos
         /\ Unlinked(r) \in [Trees -> {"none", "linked", "broken"}]
<1>1. Closed(r) \in [Repos -> Nat]
  BY DEF DiskType, Closed
<1>2. Cardinality(Mirrors \cup {r}) \in Nat
  <2>1. Mirrors \cup {r} \subseteq Repos
    BY DEF Mirrors
  <2> QED BY <2>1, CacheAssumption, FS_Subset, FS_CardinalityType
<1>3. Unlinked(r) \in [Trees -> {"none", "linked", "broken"}]
  BY DEF DiskType, Unlinked
<1>4. ASSUME removeIncidentMirror(r), UNCHANGED aged PROVE DiskType'
  BY <1>1, <1>3, <1>4 DEF removeIncidentMirror, DiskType
<1>5. ASSUME touchIncidentCache(r) PROVE lastUsed' \in [Repos -> Nat] /\ idle' \subseteq Repos
  BY <1>1, <1>2, <1>5 DEF touchIncidentCache, DiskType
<1> QED BY <1>3, <1>4, <1>5

LEMMA TypeKept ==
  ASSUME TypeOK
  PROVE  /\ UNCHANGED diskVars => DiskType'
         /\ UNCHANGED <<active, pc>> => RunType'
         /\ UNCHANGED passVars => PassType'
         /\ UNCHANGED budgetVars \/ Fault => starts' \in Nat /\ crashes' \in Nat /\ faults' \in Nat
<1>1. UNCHANGED diskVars => DiskType'
  BY DEF TypeOK, DiskType, diskVars
<1>2. UNCHANGED <<active, pc>> => RunType'
  BY DEF TypeOK, RunType
<1>3. UNCHANGED passVars => PassType'
  BY DEF TypeOK, PassType, passVars
<1>4. UNCHANGED budgetVars \/ Fault => starts' \in Nat /\ crashes' \in Nat /\ faults' \in Nat
  BY DEF TypeOK, budgetVars, Fault
<1> QED BY <1>1, <1>2, <1>3, <1>4

LEMMA PassTypes ==
  ASSUME TypeOK, NEW p \in Pruners
  PROVE  (StartPass(p) \/ EndPass(p)) => PassType'
BY DEF TypeOK, PassType, StartPass, EndPass

LEMMA MarkTypes ==
  ASSUME TypeOK, NEW r \in Repos
  PROVE  (markIncidentActive(r, 1) \/ markIncidentActive(r, -1)) => active' \in [Repos -> Nat]
BY DEF TypeOK, RunType, markIncidentActive

\* Where a run may go.
Places == {"idle", "prune", "lock", "fetch", "size", "add", "failed", "use", "clean", "unmark"}

LEMMA GoToType ==
  ASSUME TypeOK, NEW p \in Runs, NEW w \in Places, GoTo(p, w)
  PROVE  pc' \in [Runs -> Places]
BY DEF TypeOK, RunType, GoTo, Places

LEMMA TypeRun ==
  ASSUME TypeOK, NEW p \in Runs, Start(p) \/ RunStep(p)
  PROVE  TypeOK'
<1> DEFINE r == RepoOf(p)
<1>0. r \in Repos /\ TreeOf[p] \in Trees /\ DiskType /\ p \in Pruners
  BY RepoType DEF TypeOK, Pruners
<1>1. pc' \in [Runs -> Places]
  BY GoToType DEF Places, Start, RunStep, Progress, Remote, CheckSpace, prepareIncidentBareRepo, Fetch, CheckSize,
         AddWorktree, PrepareFails, ProcessReturns, CleanupRevision, Unmark, BareRepoFails, FetchFails, AddFails
<1>2. CASE Start(p)
  BY <1>0, <1>1, <1>2, MarkTypes, PassTypes, TypeKept DEF Start, TypeOK, RunType, Places
<1>3. CASE CheckSpace(p) \/ ProcessReturns(p)
  BY <1>1, <1>3, TypeKept DEF CheckSpace, ProcessReturns, TypeOK, RunType, Places
<1>4. CASE PrepareFails(p) \/ Unmark(p)
  BY <1>0, <1>1, <1>4, MarkTypes, PassTypes, TypeKept DEF PrepareFails, Unmark, TypeOK, RunType, Places
<1>5. ASSUME DiskType', UNCHANGED <<active, passVars>>, UNCHANGED budgetVars \/ Fault PROVE TypeOK'
  BY <1>1, <1>5, TypeKept DEF TypeOK, RunType, Places
<1>6. CASE prepareIncidentBareRepo(p)
  <2>1. CASE mirror[r] = "ready"
    BY <1>5, <1>6, <2>1, TypeKept DEF prepareIncidentBareRepo, diskVars
  <2>2. CASE mirror[r] # "ready"
    <3>1. lastUsed' \in [Repos -> Nat] /\ idle' \subseteq Repos /\ tree' \in [Trees -> {"none", "linked", "broken"}]
      BY <1>0, <1>6, <2>2, MirrorTypes DEF prepareIncidentBareRepo
    <3>2. mirror' \in [Repos -> {"none", "unversioned", "ready"}] /\ size' \in [Repos -> Nat] /\ aged' \subseteq Trees
      BY <1>0, <1>6, <2>2 DEF prepareIncidentBareRepo, DiskType, EmptySize
    <3>3. DiskType'
      BY <3>1, <3>2 DEF DiskType
    <3> QED BY <1>5, <1>6, <3>3 DEF prepareIncidentBareRepo
  <2> QED BY <2>1, <2>2
<1>7. CASE BareRepoFails(p)
  <2>1. CASE UNCHANGED <<mirror, size, lastUsed, idle, tree>>
    BY <1>5, <1>7, <2>1, TypeKept DEF BareRepoFails, diskVars
  <2>2. CASE removeIncidentMirror(r)
    BY <1>0, <1>5, <1>7, <2>2, MirrorTypes DEF BareRepoFails
  <2>3. CASE /\ mirror' = [mirror EXCEPT ![r] = "unversioned"]
             /\ size' = [size EXCEPT ![r] = EmptySize]
             /\ touchIncidentCache(r)
             /\ tree' = Unlinked(r)
    <3>1. DiskType'
      BY <1>0, <1>7, <2>3, MirrorTypes DEF BareRepoFails, DiskType, EmptySize
    <3> QED BY <1>5, <1>7, <3>1 DEF BareRepoFails
  <2> QED BY <1>7, <2>1, <2>2, <2>3 DEF BareRepoFails
<1>8. CASE Fetch(p) \/ FetchFails(p)
  <2>1. DiskType'
    BY <1>0, <1>8, MirrorTypes, CacheAssumption DEF Fetch, FetchFails, DiskType
  <2> QED BY <1>5, <1>8, <2>1 DEF Fetch, FetchFails
<1>9. CASE CheckSize(p)
  <2>1. CASE removeIncidentMirror(r)
    BY <1>0, <1>5, <1>9, <2>1, MirrorTypes DEF CheckSize
  <2>2. CASE UNCHANGED <<mirror, size, lastUsed, idle, tree>>
    BY <1>5, <1>9, <2>2, TypeKept DEF CheckSize, diskVars
  <2> QED BY <1>9, <2>1, <2>2 DEF CheckSize
<1>10. CASE AddWorktree(p) \/ AddFails(p)
  <2>1. DiskType'
    BY <1>0, <1>10 DEF AddWorktree, AddFails, DiskType
  <2> QED BY <1>5, <1>10, <2>1 DEF AddWorktree, AddFails
<1>11. CASE CleanupRevision(p)
  <2>1. tree' \in [Trees -> {"none", "linked", "broken"}] /\ aged' \subseteq Trees /\ UNCHANGED <<mirror, size>>
    BY <1>0, <1>11 DEF CleanupRevision, DiskType
  <2>2. lastUsed' \in [Repos -> Nat] /\ idle' \subseteq Repos
    BY <1>0, <1>11, MirrorTypes DEF CleanupRevision, DiskType
  <2>3. DiskType'
    BY <1>0, <2>1, <2>2 DEF DiskType
  <2> QED BY <1>5, <1>11, <2>3 DEF CleanupRevision
<1> QED BY <1>2, <1>3, <1>4, <1>6, <1>7, <1>8, <1>9, <1>10, <1>11 DEF RunStep, Progress, Remote

LEMMA TypePass ==
  ASSUME TypeOK, NEW p \in Pruners, PassStep(p)
  PROVE  TypeOK'
<1>0. DiskType /\ PassType
  BY DEF TypeOK
<1>1. ASSUME DiskType', PassType', UNCHANGED <<active, pc>>, UNCHANGED budgetVars \/ Fault PROVE TypeOK'
  BY <1>1, TypeKept DEF TypeOK
<1>2. CASE Scan(p)
  <2>1. {Entry(r) : r \in Mirrors} \in SUBSET Entries
    <3>1. ASSUME NEW i \in Mirrors PROVE Entry(i) \in Entries
      <4> DEFINE unused == i \in idle
      <4>1. unused \in BOOLEAN
        OBVIOUS
      <4>2. i \in Repos /\ size[i] \in Nat /\ lastUsed[i] \in Nat
        BY <1>0 DEF Mirrors, DiskType
      <4>3. Entry(i) = [repo |-> i, idle |-> unused, size |-> size[i], lastUsed |-> lastUsed[i]]
        BY Zenon DEF Entry
      <4> HIDE DEF unused
      <4> QED BY <4>1, <4>2, <4>3 DEF Entries
    <3> QED BY <3>1
  <2>2. PassType'
    BY <1>0, <1>2, <2>1 DEF Scan, PassType
  <2> QED BY <1>1, <1>2, <2>2, TypeKept DEF Scan
<1>3. CASE PassOver(p) \/ Choose(p)
  <2>1. PassType'
    BY <1>0, <1>3 DEF PassOver, Choose, PassType
  <2> QED BY <1>1, <1>3, <2>1, TypeKept DEF PassOver, Choose
<1>4. CASE Evict(p)
  <2>1. PICK e \in todo[p] :
          /\ IF StillUnused(e.repo) THEN removeIncidentMirror(e.repo)
             ELSE UNCHANGED <<mirror, size, lastUsed, idle, tree>>
          /\ todo' = [todo EXCEPT ![p] = todo[p] \ {e}]
          /\ counted' = [counted EXCEPT ![p] = counted[p] \ {e}]
    BY <1>4 DEF Evict
  <2>2. PassType'
    BY <1>0, <1>4, <2>1 DEF Evict, PassType
  <2>3. e.repo \in Repos
    BY <1>0, <2>1 DEF PassType, Entries
  <2>4. DiskType'
    BY <1>0, <1>4, <2>1, <2>3, MirrorTypes, TypeKept DEF Evict, diskVars
  <2> QED BY <1>1, <1>4, <2>2, <2>4 DEF Evict
<1>5. CASE PassEnds(p) \/ PassFails(p)
  BY <1>1, <1>5, PassTypes, TypeKept DEF PassEnds, PassFails
<1> QED BY <1>2, <1>3, <1>4, <1>5 DEF PassStep

LEMMA TypeJanitor ==
  ASSUME TypeOK, JanitorStep
  PROVE  TypeOK'
<1>0. DiskType /\ PassType /\ Janitor \in Pruners
  BY DEF TypeOK, Pruners
<1>1. UNCHANGED <<active, pc, budgetVars>>
  BY DEF JanitorStep, JanitorWakes, PassOverTree, TreeVanished, ChooseTree, CleanTree, TreesDone
<1>2. DiskType'
  <2>1. CASE CleanTree
    BY <1>0, <2>1 DEF CleanTree, DiskType
  <2>2. CASE ~CleanTree
    BY <2>2, TypeKept DEF JanitorStep, JanitorWakes, PassOverTree, TreeVanished, ChooseTree, TreesDone
  <2> QED BY <2>1, <2>2
<1>3. PassType'
  <2>1. CASE JanitorWakes \/ PassOverTree \/ ChooseTree \/ CleanTree
    BY <1>0, <2>1 DEF JanitorWakes, PassOverTree, ChooseTree, CleanTree, PassType
  <2>2. CASE TreeVanished \/ TreesDone
    BY <1>0, <2>2, PassTypes DEF TreeVanished, TreesDone
  <2> QED BY <2>1, <2>2 DEF JanitorStep
<1> QED BY <1>1, <1>2, <1>3, TypeKept DEF TypeOK

LEMMA TypeTime ==
  ASSUME TypeOK, (\E d \in Trees : TreeAges(d)) \/ (\E r \in Repos : MirrorIdles(r)) \/ Crash
  PROVE  TypeOK'
<1>1. CASE \E d \in Trees : TreeAges(d)
  <2>1. DiskType'
    BY <1>1 DEF TreeAges, TypeOK, DiskType
  <2> QED BY <1>1, <2>1, TypeKept DEF TreeAges, TypeOK
<1>2. CASE \E r \in Repos : MirrorIdles(r)
  <2>1. DiskType'
    BY <1>2 DEF MirrorIdles, TypeOK, DiskType
  <2> QED BY <1>2, <2>1, TypeKept DEF MirrorIdles, TypeOK
<1>3. CASE Crash
  <2>1. RunType' /\ PassType'
    BY <1>3 DEF Crash, RunType, PassType
  <2>2. starts' \in Nat /\ crashes' \in Nat /\ faults' \in Nat
    BY <1>3 DEF Crash, TypeOK
  <2> QED BY <1>3, <2>1, <2>2, TypeKept DEF Crash, TypeOK
<1> QED BY <1>1, <1>2, <1>3

LEMMA TypeNext == TypeOK /\ [Next]_vars => TypeOK'
<1> SUFFICES ASSUME TypeOK, [Next]_vars PROVE TypeOK'
  OBVIOUS
<1>1. CASE UNCHANGED vars
  BY <1>1, TypeKept DEF vars, TypeOK
<1> QED BY <1>1, TypeRun, TypePass, TypeJanitor, TypeTime DEF Next

\* The variables keep their types.
THEOREM TypeCorrect == Spec => []TypeOK
BY TypeInit, TypeNext, PTL DEF Spec

-----------------------------------------------------------------------------
(* The counts of users. *)

LEMMA UsersFinite == \A r \in Repos : IsFiniteSet(Users(r))
<1>1. \A r \in Repos : Users(r) \subseteq Runs
  BY DEF Users
<1> QED BY <1>1, CacheAssumption, FS_Subset

\* A run that is a user keeps the count of its repository above zero.
LEMMA UserCounted ==
  ASSUME TypeOK, ActiveCounts, NEW p \in Runs, pc[p] # "idle"
  PROVE  active[RepoOf(p)] > 0
<1> DEFINE r == RepoOf(p)
<1>1. r \in Repos /\ p \in Users(r)
  BY RepoType DEF Users
<1>2. Cardinality(Users(r)) \in Nat /\ Cardinality(Users(r)) # 0
  BY <1>1, UsersFinite, FS_CardinalityType, FS_EmptySet
<1> QED BY <1>1, <1>2 DEF ActiveCounts

LEMMA SameUsers ==
  ASSUME ActiveCounts, UNCHANGED active, \A p \in Runs : pc'[p] = "idle" <=> pc[p] = "idle"
  PROVE  ActiveCounts'
<1>1. \A r \in Repos : Users(r)' = Users(r)
  BY DEF Users, RepoOf
<1> QED BY <1>1 DEF ActiveCounts

LEMMA CountsInit == Init => ActiveCounts
<1> SUFFICES ASSUME Init, NEW r \in Repos PROVE active[r] = Cardinality(Users(r))
  BY DEF ActiveCounts
<1>1. Users(r) = {}
  BY DEF Init, Users
<1> QED BY <1>1, FS_EmptySet DEF Init

LEMMA CountsRun ==
  ASSUME TypeOK, ActiveCounts, NEW p \in Runs, Start(p) \/ RunStep(p)
  PROVE  ActiveCounts'
<1> DEFINE r == RepoOf(p)
<1>0. r \in Repos /\ RunType
  BY RepoType DEF TypeOK
<1>1. CASE Start(p)
  <2>1. Users(r)' = Users(r) \cup {p} /\ p \notin Users(r)
    BY <1>0, <1>1 DEF Start, GoTo, Users, RunType, RepoOf
  <2>2. \A i \in Repos \ {r} : Users(i)' = Users(i)
    BY <1>0, <1>1 DEF Start, GoTo, Users, RunType, RepoOf
  <2>3. Cardinality(Users(r)') = Cardinality(Users(r)) + 1
    BY <1>0, <2>1, UsersFinite, FS_AddElement
  <2>4. active[r] + 1 > 0
    BY <1>0 DEF RunType
  <2>5. active' = [active EXCEPT ![r] = active[r] + 1]
    BY <1>1, <2>4 DEF Start, markIncidentActive
  <2> QED BY <1>0, <2>2, <2>3, <2>5 DEF ActiveCounts, RunType
<1>2. CASE PrepareFails(p) \/ Unmark(p)
  <2>1. Users(r)' = Users(r) \ {p} /\ p \in Users(r)
    BY <1>0, <1>2 DEF PrepareFails, Unmark, GoTo, Users, RunType, RepoOf
  <2>2. \A i \in Repos \ {r} : Users(i)' = Users(i)
    BY <1>0, <1>2 DEF PrepareFails, Unmark, GoTo, Users, RunType, RepoOf
  <2>3. Cardinality(Users(r)') = Cardinality(Users(r)) - 1
    BY <1>0, <2>1, UsersFinite, FS_RemoveElement
  <2>4. pc[p] # "idle"
    BY <1>2 DEF PrepareFails, Unmark
  <2>5. active[r] > 0
    BY <2>4, UserCounted
  <2>6. active' = [active EXCEPT ![r] = active[r] - 1]
    BY <1>0, <1>2, <2>5 DEF PrepareFails, Unmark, markIncidentActive, RunType
  <2> QED BY <1>0, <2>2, <2>3, <2>6 DEF ActiveCounts, RunType
<1>3. CASE ~(Start(p) \/ PrepareFails(p) \/ Unmark(p))
  <2>1. UNCHANGED active
    BY <1>3 DEF RunStep, Progress, Remote, CheckSpace, prepareIncidentBareRepo, Fetch, CheckSize, AddWorktree,
           ProcessReturns, CleanupRevision, BareRepoFails, FetchFails, AddFails
  <2>2. \A q \in Runs : pc'[q] = "idle" <=> pc[q] = "idle"
    BY <1>0, <1>3 DEF RunStep, Progress, Remote, CheckSpace, prepareIncidentBareRepo, Fetch, CheckSize, AddWorktree,
           ProcessReturns, CleanupRevision, BareRepoFails, FetchFails, AddFails, GoTo, RunType
  <2> QED BY <2>1, <2>2, SameUsers
<1> QED BY <1>1, <1>2, <1>3

LEMMA CountsCrash ==
  ASSUME Crash
  PROVE  ActiveCounts'
<1>1. \A r \in Repos : Users(r)' = {} /\ active'[r] = 0
  BY DEF Crash, Users
<1> QED BY <1>1, FS_EmptySet DEF ActiveCounts

\* What passes, the janitor and time leave alone.
LEMMA RunsStay ==
  ASSUME \/ \E p \in Pruners : PassStep(p)
         \/ JanitorStep
         \/ \E d \in Trees : TreeAges(d)
         \/ \E r \in Repos : MirrorIdles(r)
         \/ UNCHANGED vars
  PROVE  UNCHANGED <<active, pc>>
BY DEF PassStep, Scan, PassOver, Choose, Evict, PassEnds, PassFails, JanitorStep, JanitorWakes, PassOverTree,
       TreeVanished, ChooseTree, CleanTree, TreesDone, TreeAges, MirrorIdles, vars

LEMMA CountsNext == TypeOK /\ ActiveCounts /\ [Next]_vars => ActiveCounts'
<1> SUFFICES ASSUME TypeOK, ActiveCounts, [Next]_vars PROVE ActiveCounts'
  OBVIOUS
<1>1. CASE \E p \in Runs : Start(p) \/ RunStep(p)
  BY <1>1, CountsRun
<1>2. CASE Crash
  BY <1>2, CountsCrash
<1>3. CASE UNCHANGED <<active, pc>>
  BY <1>3, SameUsers
<1> QED BY <1>1, <1>2, <1>3, RunsStay DEF Next

\* The counter of a repository is the number of the runs that use it.
THEOREM CountsCorrect == Spec => []ActiveCounts
<1>1. Init => TypeOK /\ ActiveCounts
  BY TypeInit, CountsInit
<1>2. TypeOK /\ ActiveCounts /\ [Next]_vars => (TypeOK /\ ActiveCounts)'
  BY TypeNext, CountsNext
<1> QED BY <1>1, <1>2, PTL DEF Spec

-----------------------------------------------------------------------------
(* The lock and the mirror. *)

\* The lock of a repository admits one run.
LockedAlone ==
  \A p, q \in Runs : RepoOf(p) = RepoOf(q) /\ pc[p] \in Locked /\ pc[q] \in Locked => p = q

\* A worktree is linked to a mirror that has everything it needs.
Linked == \A d \in Trees : tree[d] = "linked" => mirror[RepoOfTree[d]] = "ready"

CacheInv == TypeOK /\ ActiveCounts /\ LockedAlone /\ MirrorHeld /\ Linked

LEMMA CacheInit == Init => CacheInv
<1>1. Init => LockedAlone /\ MirrorHeld /\ Linked
  BY CacheAssumption DEF Init, LockedAlone, MirrorHeld, Linked, Locked
<1> QED BY <1>1, TypeInit, CountsInit DEF CacheInv

LEMMA AloneRun ==
  ASSUME TypeOK, LockedAlone, NEW p \in Runs, Start(p) \/ RunStep(p)
  PROVE  LockedAlone'
<1>0. pc \in [Runs -> Places]
  BY DEF TypeOK, RunType, Places
<1>1. \A q \in Runs \ {p} : pc'[q] = pc[q]
  BY <1>0 DEF Start, RunStep, Progress, Remote, CheckSpace, prepareIncidentBareRepo, Fetch, CheckSize, AddWorktree,
         PrepareFails, ProcessReturns, CleanupRevision, Unmark, BareRepoFails, FetchFails, AddFails, GoTo
<1>2. CASE prepareIncidentBareRepo(p)
  <2>1. \A q \in Runs : RepoOf(q) = RepoOf(p) => pc[q] \notin Locked
    BY <1>2 DEF prepareIncidentBareRepo, LockFree
  <2> QED BY <1>1, <2>1 DEF LockedAlone, RepoOf
<1>3. CASE ~prepareIncidentBareRepo(p)
  <2>1. pc'[p] \in Locked => pc[p] \in Locked
    BY <1>0, <1>3 DEF Start, RunStep, Progress, Remote, CheckSpace, Fetch, CheckSize, AddWorktree, PrepareFails,
           ProcessReturns, CleanupRevision, Unmark, BareRepoFails, FetchFails, AddFails, GoTo, Locked
  <2> QED BY <1>1, <2>1 DEF LockedAlone, RepoOf
<1> QED BY <1>2, <1>3

LEMMA AloneNext == TypeOK /\ LockedAlone /\ [Next]_vars => LockedAlone'
<1> SUFFICES ASSUME TypeOK, LockedAlone, [Next]_vars PROVE LockedAlone'
  OBVIOUS
<1>1. CASE Crash
  BY <1>1 DEF Crash, LockedAlone, Locked
<1>2. CASE UNCHANGED <<active, pc>>
  BY <1>2 DEF LockedAlone, RepoOf
<1> QED BY <1>1, <1>2, AloneRun, RunsStay DEF Next

\* What a step may do to the mirrors: nothing, or something to one whose
\* lock no run holds afterwards, or make it ready.
LEMMA MirrorStep ==
  ASSUME CacheInv, [Next]_vars, NEW i \in Repos
  PROVE  \/ mirror'[i] = mirror[i]
         \/ mirror'[i] = "ready"
         \/ \A q \in Runs : RepoOf(q) = i => pc'[q] \notin Locked
<1>0. /\ mirror \in [Repos -> {"none", "unversioned", "ready"}] /\ pc \in [Runs -> Places]
      /\ PassType /\ LockedAlone
  BY DEF CacheInv, TypeOK, DiskType, RunType, Places
<1>1. ASSUME NEW p \in Runs, prepareIncidentBareRepo(p) PROVE mirror'[i] = mirror[i] \/ mirror'[i] = "ready"
  BY <1>0, <1>1, RepoType DEF prepareIncidentBareRepo
<1>2. ASSUME NEW p \in Runs, BareRepoFails(p), mirror'[i] # mirror[i]
      PROVE  \A q \in Runs : RepoOf(q) = i => pc'[q] \notin Locked
  <2>1. i = RepoOf(p)
    BY <1>0, <1>2, RepoType DEF BareRepoFails, removeIncidentMirror
  <2> QED BY <1>0, <1>2, <2>1 DEF BareRepoFails, GoTo, LockFree, Locked
<1>3. ASSUME NEW p \in Runs, CheckSize(p), mirror'[i] # mirror[i]
      PROVE  \A q \in Runs : RepoOf(q) = i => pc'[q] \notin Locked
  <2>1. i = RepoOf(p) /\ pc' = [pc EXCEPT ![p] = "failed"] /\ pc[p] = "size"
    BY <1>0, <1>3, RepoType DEF CheckSize, removeIncidentMirror, GoTo
  <2>2. \A q \in Runs : RepoOf(q) = i /\ pc[q] \in Locked => q = p
    BY <1>0, <2>1 DEF LockedAlone, Locked
  <2> QED BY <1>0, <2>1, <2>2 DEF Locked
<1>4. ASSUME NEW p \in Pruners, Evict(p), mirror'[i] # mirror[i]
      PROVE  \A q \in Runs : RepoOf(q) = i => pc'[q] \notin Locked
  <2>1. PICK e \in todo[p] : LockFree(e.repo) /\ removeIncidentMirror(e.repo)
    BY <1>4 DEF Evict
  <2>2. i = e.repo
    BY <1>0, <1>4, <2>1 DEF removeIncidentMirror
  <2> QED BY <1>4, <2>1, <2>2 DEF Evict, LockFree
<1>5. ASSUME \/ \E p \in Runs : \/ Start(p) \/ CheckSpace(p) \/ Fetch(p) \/ AddWorktree(p) \/ PrepareFails(p)
                               \/ ProcessReturns(p) \/ CleanupRevision(p) \/ Unmark(p) \/ FetchFails(p)
                               \/ AddFails(p)
             \/ \E p \in Pruners : Scan(p) \/ PassOver(p) \/ Choose(p) \/ PassEnds(p) \/ PassFails(p)
             \/ JanitorStep \/ (\E d \in Trees : TreeAges(d)) \/ (\E r \in Repos : MirrorIdles(r)) \/ Crash
             \/ UNCHANGED vars
      PROVE  UNCHANGED mirror
  BY <1>5 DEF Start, CheckSpace, Fetch, AddWorktree, PrepareFails, ProcessReturns, CleanupRevision, Unmark,
         FetchFails, AddFails, Scan, PassOver, Choose, PassEnds, PassFails, JanitorStep, JanitorWakes,
         PassOverTree, TreeVanished, ChooseTree, CleanTree, TreesDone, TreeAges, MirrorIdles, Crash, vars, diskVars
<1> QED BY <1>1, <1>2, <1>3, <1>4, <1>5 DEF Next, RunStep, Progress, Remote, PassStep

LEMMA HeldNext == CacheInv /\ [Next]_vars => MirrorHeld'
<1> SUFFICES ASSUME CacheInv, [Next]_vars, NEW q \in Runs, pc'[q] \in Locked
             PROVE  mirror'[RepoOf(q)] = "ready"
  BY DEF MirrorHeld, RepoOf
<1> DEFINE i == RepoOf(q)
<1>0. i \in Repos /\ pc \in [Runs -> Places] /\ mirror \in [Repos -> {"none", "unversioned", "ready"}]
  BY RepoType DEF CacheInv, TypeOK, DiskType, RunType, Places
<1>1. pc[q] \in Locked \/ prepareIncidentBareRepo(q)
  <2>1. CASE \E p \in Runs : Start(p) \/ RunStep(p)
    <3>1. PICK p \in Runs : Start(p) \/ RunStep(p)
      BY <2>1
    <3> QED BY <1>0, <3>1 DEF Start, RunStep, Progress, Remote, CheckSpace, prepareIncidentBareRepo, Fetch, CheckSize,
               AddWorktree, PrepareFails, ProcessReturns, CleanupRevision, Unmark, BareRepoFails, FetchFails,
               AddFails, GoTo, Locked
  <2>2. CASE Crash
    BY <2>2 DEF Crash, Locked
  <2> QED BY <2>1, <2>2, RunsStay DEF Next
<1>2. CASE prepareIncidentBareRepo(q)
  BY <1>0, <1>2 DEF prepareIncidentBareRepo
<1>3. CASE pc[q] \in Locked
  <2>1. mirror[i] = "ready"
    BY <1>3 DEF CacheInv, MirrorHeld
  <2>2. mirror'[i] = mirror[i] \/ mirror'[i] = "ready" \/ \A p \in Runs : RepoOf(p) = i => pc'[p] \notin Locked
    BY <1>0, MirrorStep
  <2> QED BY <2>1, <2>2
<1> QED BY <1>1, <1>2, <1>3

\* A step links a worktree only to a ready mirror, and unlinks those of a
\* mirror it changes.
LEMMA TreeStep ==
  ASSUME CacheInv, [Next]_vars, NEW d \in Trees, tree'[d] = "linked"
  PROVE  /\ mirror'[RepoOfTree[d]] = mirror[RepoOfTree[d]]
         /\ tree[d] = "linked" \/ mirror[RepoOfTree[d]] = "ready"
<1> DEFINE i == RepoOfTree[d]
<1>0. /\ mirror \in [Repos -> {"none", "unversioned", "ready"}] /\ PassType /\ i \in Repos
      /\ tree \in [Trees -> {"none", "linked", "broken"}]
  BY CacheAssumption DEF CacheInv, TypeOK, DiskType
<1>1. ASSUME NEW r \in Repos, tree' = Unlinked(r), \A j \in Repos \ {r} : mirror'[j] = mirror[j]
      PROVE  tree[d] = "linked" /\ mirror'[i] = mirror[i]
  BY <1>0, <1>1 DEF Unlinked
<1>2. ASSUME NEW r \in Repos, removeIncidentMirror(r) PROVE tree[d] = "linked" /\ mirror'[i] = mirror[i]
  <2>1. \A j \in Repos \ {r} : mirror'[j] = mirror[j]
    BY <1>0, <1>2 DEF removeIncidentMirror
  <2> QED BY <1>1, <1>2, <2>1 DEF removeIncidentMirror
<1>3. ASSUME NEW p \in Runs, prepareIncidentBareRepo(p) \/ BareRepoFails(p) \/ CheckSize(p),
             ~UNCHANGED <<mirror, tree>>
      PROVE  tree[d] = "linked" /\ mirror'[i] = mirror[i]
  <2>1. RepoOf(p) \in Repos
    BY RepoType
  <2>2. CASE removeIncidentMirror(RepoOf(p))
    BY <1>2, <2>1, <2>2
  <2>3. CASE ~removeIncidentMirror(RepoOf(p))
    <3>1. tree' = Unlinked(RepoOf(p)) /\ \A j \in Repos \ {RepoOf(p)} : mirror'[j] = mirror[j]
      BY <1>0, <1>3, <2>3 DEF prepareIncidentBareRepo, BareRepoFails, CheckSize
    <3> QED BY <1>1, <2>1, <3>1
  <2> QED BY <2>2, <2>3
<1>4. ASSUME NEW p \in Pruners, Evict(p), ~UNCHANGED <<mirror, tree>>
      PROVE  tree[d] = "linked" /\ mirror'[i] = mirror[i]
  <2>1. PICK e \in todo[p] : removeIncidentMirror(e.repo)
    BY <1>4 DEF Evict
  <2>2. e.repo \in Repos
    BY <1>0, <1>4, <2>1 DEF PassType, Entries
  <2> QED BY <1>2, <2>1, <2>2
<1>5. ASSUME NEW p \in Runs, AddWorktree(p) \/ AddFails(p) \/ CleanupRevision(p)
      PROVE  mirror'[i] = mirror[i] /\ (tree[d] = "linked" \/ mirror[i] = "ready")
  <2>1. UNCHANGED mirror
    BY <1>5 DEF AddWorktree, AddFails, CleanupRevision
  <2>2. CASE tree'[d] = tree[d]
    BY <2>1, <2>2
  <2>3. CASE tree'[d] # tree[d]
    <3>1. AddWorktree(p) /\ d = TreeOf[p]
      BY <1>0, <1>5, <2>3, RepoType DEF AddWorktree, AddFails, CleanupRevision
    <3>2. i = RepoOf(p) /\ pc[p] \in Locked
      BY <3>1 DEF AddWorktree, RepoOf, Locked
    <3> QED BY <2>1, <3>2 DEF CacheInv, MirrorHeld
  <2> QED BY <2>2, <2>3
<1>6. ASSUME CleanTree PROVE mirror'[i] = mirror[i] /\ tree[d] = "linked"
  BY <1>0, <1>6 DEF CleanTree
<1>7. CASE UNCHANGED <<mirror, tree>>
  BY <1>7
<1>8. ASSUME \/ \E p \in Runs : \/ Start(p) \/ CheckSpace(p) \/ Fetch(p) \/ PrepareFails(p)
                               \/ ProcessReturns(p) \/ Unmark(p) \/ FetchFails(p)
             \/ \E p \in Pruners : Scan(p) \/ PassOver(p) \/ Choose(p) \/ PassEnds(p) \/ PassFails(p)
             \/ JanitorWakes \/ PassOverTree \/ TreeVanished \/ ChooseTree \/ TreesDone
             \/ (\E e \in Trees : TreeAges(e)) \/ (\E r \in Repos : MirrorIdles(r)) \/ Crash
             \/ UNCHANGED vars
      PROVE  UNCHANGED <<mirror, tree>>
  BY <1>8 DEF Start, CheckSpace, Fetch, PrepareFails, ProcessReturns, Unmark, FetchFails, Scan, PassOver, Choose,
         PassEnds, PassFails, JanitorWakes, PassOverTree, TreeVanished, ChooseTree, TreesDone, TreeAges,
         MirrorIdles, Crash, vars, diskVars
<1> QED BY <1>3, <1>4, <1>5, <1>6, <1>7, <1>8 DEF Next, RunStep, Progress, Remote, PassStep, JanitorStep

LEMMA LinkedNext == CacheInv /\ [Next]_vars => Linked'
<1> SUFFICES ASSUME CacheInv, [Next]_vars, NEW d \in Trees, tree'[d] = "linked"
             PROVE  mirror'[RepoOfTree[d]] = "ready"
  BY DEF Linked
<1>1. mirror'[RepoOfTree[d]] = mirror[RepoOfTree[d]] /\ (tree[d] = "linked" \/ mirror[RepoOfTree[d]] = "ready")
  BY TreeStep
<1> QED BY <1>1 DEF CacheInv, Linked

LEMMA CacheNext == CacheInv /\ [Next]_vars => CacheInv'
BY TypeNext, CountsNext, AloneNext, HeldNext, LinkedNext DEF CacheInv

THEOREM CacheInvariant == Spec => []CacheInv
BY CacheInit, CacheNext, PTL DEF Spec

\* From the moment a run made the mirror ready until it has its worktree
\* nobody takes the mirror from it.
THEOREM MirrorIsHeld == Spec => []MirrorHeld
<1>1. CacheInv => MirrorHeld
  BY DEF CacheInv
<1> QED BY <1>1, CacheInvariant, PTL

-----------------------------------------------------------------------------
(* The worktree of a task in use. *)

\* A mirror whose worktrees are linked is ready, so no run replaces it; one
\* that is in use is counted, so no pass and no janitor takes it or its trees.
LEMMA UsedStep == CacheInv /\ [Next]_vars => KeepsUsed
<1> SUFFICES ASSUME CacheInv, [Next]_vars, NEW p \in Runs, InUse(p), InUse(p)',
                    tree[TreeOf[p]] = "linked", tree'[TreeOf[p]] # "linked",
                    \A q \in Runs : RepoOf(q) = RepoOf(p) /\ pc[q] = "size" => pc'[q] # "failed"
             PROVE  FALSE
  BY DEF KeepsUsed
<1> DEFINE d == TreeOf[p]
           i == RepoOf(p)
<1>0. /\ d \in Trees /\ i \in Repos /\ RepoOfTree[d] = i /\ PassType
      /\ tree \in [Trees -> {"none", "linked", "broken"}] /\ pc \in [Runs -> Places]
      /\ mirror[i] = "ready" /\ pc[p] = "use" /\ pc'[p] = "use" /\ p \in Runs \ Tests
  BY RepoType DEF CacheInv, TypeOK, DiskType, RunType, Places, Linked, InUse, RepoOf
<1>1. active[i] > 0
  BY <1>0, UserCounted DEF CacheInv
<1>2. ASSUME NEW r \in Repos, removeIncidentMirror(r) PROVE r = i
  BY <1>0, <1>2 DEF removeIncidentMirror, Unlinked
<1>3. ASSUME NEW q \in Runs, prepareIncidentBareRepo(q) \/ BareRepoFails(q) PROVE FALSE
  <2>1. RepoOf(q) \in Repos
    BY RepoType
  <2>2. RepoOf(q) = i
    <3>1. CASE removeIncidentMirror(RepoOf(q))
      BY <1>2, <2>1, <3>1
    <3>2. CASE tree' = Unlinked(RepoOf(q))
      BY <1>0, <3>2 DEF Unlinked
    <3> QED BY <1>0, <1>3, <3>1, <3>2 DEF prepareIncidentBareRepo, BareRepoFails
  <2> QED BY <1>0, <1>3, <2>2 DEF prepareIncidentBareRepo, BareRepoFails
<1>4. ASSUME NEW q \in Runs, CheckSize(q) PROVE FALSE
  <2>1. removeIncidentMirror(RepoOf(q)) /\ pc[q] = "size" /\ GoTo(q, "failed")
    BY <1>0, <1>4 DEF CheckSize
  <2>2. RepoOf(q) = i
    BY <1>2, <2>1, RepoType
  <2>3. pc'[q] = "failed"
    BY <1>0, <2>1 DEF GoTo
  <2> QED BY <2>1, <2>2, <2>3
<1>5. ASSUME NEW q \in Pruners, Evict(q) PROVE FALSE
  <2>1. PICK e \in todo[q] : StillUnused(e.repo) /\ removeIncidentMirror(e.repo)
    BY <1>0, <1>5 DEF Evict
  <2>2. e.repo = i
    BY <1>0, <1>2, <2>1 DEF PassType, Entries
  <2> QED BY <1>1, <2>1, <2>2 DEF StillUnused
<1>6. ASSUME NEW q \in Runs, AddWorktree(q) \/ AddFails(q) \/ CleanupRevision(q) PROVE FALSE
  <2>1. TreeOf[q] = d
    BY <1>0, <1>6, RepoType DEF AddWorktree, AddFails, CleanupRevision
  <2>2. q = p
    BY <1>0, <2>1, CacheAssumption
  <2> QED BY <1>0, <1>6, <2>2 DEF AddWorktree, AddFails, CleanupRevision
<1>7. ASSUME CleanTree PROVE FALSE
  <2>1. StillUnused(RepoOfTree[doomed]) /\ tree' = [tree EXCEPT ![doomed] = "none"]
    BY <1>0, <1>7 DEF CleanTree
  <2>2. doomed = d
    BY <1>0, <2>1
  <2> QED BY <1>0, <1>1, <2>1, <2>2 DEF StillUnused
<1>8. ASSUME \/ \E q \in Runs : \/ Start(q) \/ CheckSpace(q) \/ Fetch(q) \/ PrepareFails(q)
                               \/ ProcessReturns(q) \/ Unmark(q) \/ FetchFails(q)
             \/ \E q \in Pruners : Scan(q) \/ PassOver(q) \/ Choose(q) \/ PassEnds(q) \/ PassFails(q)
             \/ JanitorWakes \/ PassOverTree \/ TreeVanished \/ ChooseTree \/ TreesDone
             \/ (\E e \in Trees : TreeAges(e)) \/ (\E r \in Repos : MirrorIdles(r)) \/ Crash
             \/ UNCHANGED vars
      PROVE  UNCHANGED tree
  BY <1>8 DEF Start, CheckSpace, Fetch, PrepareFails, ProcessReturns, Unmark, FetchFails, Scan, PassOver, Choose,
         PassEnds, PassFails, JanitorWakes, PassOverTree, TreeVanished, ChooseTree, TreesDone, TreeAges,
         MirrorIdles, Crash, vars, diskVars
<1> QED BY <1>0, <1>3, <1>4, <1>5, <1>6, <1>7, <1>8 DEF Next, RunStep, Progress, Remote, PassStep, JanitorStep

\* Only another run of its repository that finds it over the limit takes the
\* mirror or the worktree from a task in use.
THEOREM UsedIsKept == Spec => UsedKept
BY CacheInvariant, UsedStep, PTL DEF Spec, UsedKept
=============================================================================
