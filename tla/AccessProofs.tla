---------------------------- MODULE AccessProofs ----------------------------
(***************************************************************************)
(* Theorems about Access, for any users, requests, roles, permissions and  *)
(* grants, and any number of changes.                                      *)
(***************************************************************************)
EXTENDS Access, TLAPS

----------------------------------------------------------------------------
(* The inductive invariant                                                 *)

\* A request under way is of some user.
RequestsHaveUsers ==
  \A r \in Requests : reqs[r].pc # "idle" => reqs[r].user \in Users

\* The history has every permission the tables grant.
HistoryIsComplete ==
  \A u \in Users : Permissions(u) \subseteq ever[u]

\* What the guards go by, in Redis or in the memory of a request, was granted
\* to that user at some time.
SeenWereGranted ==
  /\ \A u \in Users : cache[u] # None => cache[u] \subseteq ever[u]
  /\ \A r \in Requests : reqs[r].pc = "set" =>
       reqs[r].seen \subseteq ever[reqs[r].user]

IInv == /\ TypeOK
        /\ RequestsHaveUsers
        /\ HistoryIsComplete
        /\ SeenWereGranted
        /\ ServedWereGranted

----------------------------------------------------------------------------
(* Operators                                                               *)

\* What roles grant are permissions that are told apart.
LEMMA GrantedType ==
  ASSUME NEW p \in [Roles -> {None} \cup PermissionSets],
         NEW h \in [Users -> SUBSET Roles], NEW u \in Users
  PROVE  Granted(p, h, u) \in PermissionSets
<1>1. \A o \in h[u] : p[o] # None => p[o] \subseteq Watched
  BY DEF PermissionSets
<1> QED
  BY <1>1 DEF Granted, PermissionSets

\* Having more permissions never closes a route.
LEMMA AdmitsMore ==
  ASSUME NEW a, NEW b, a \subseteq b, NEW needs, Admits(a, needs)
  PROVE  Admits(b, needs)
BY DEF Admits

\* A request with nothing to do is a request.
LEMMA IdleType == Idle \in Request
BY DEF Idle, Request, PermissionSets

----------------------------------------------------------------------------
(* What a step does                                                        *)

\* A handler of request r leaves the tables in a new state and ends.
Commits(r) ==
  /\ reqs[r].pc = "run"
  /\ perms' \in [Roles -> {None} \cup PermissionSets]
  /\ life' \in [Users -> {"active", "inactive", "deleted"}]
  /\ has' \in [Users -> SUBSET Roles]
  /\ \A u \in Users : \A o \in has'[u] : perms'[o] # None
  /\ changes' \in 0..MaxChanges
  /\ ever' = [u \in Users |-> ever[u] \cup Granted(perms', has', u)]
  /\ reqs' = [reqs EXCEPT ![r] = Idle]
  /\ UNCHANGED cache

\* Every operation on users and roles commits well-typed tables.
LEMMA HandlersCommit ==
  ASSUME TypeOK, NEW r \in Requests, HandlerStep(r)
  PROVE  Commits(r)
<1> USE AccessAssumption DEF TypeOK
<1>0. \A g \in Grants : g \in PermissionSets /\ g # None
  BY DEF PermissionSets
<1>a. ASSUME NEW p, NEW l, NEW h, Commit(r, p, l, h), reqs[r].pc = "run",
             p \in [Roles -> {None} \cup PermissionSets],
             l \in [Users -> {"active", "inactive", "deleted"}],
             h \in [Users -> SUBSET Roles],
             \A u \in Users : \A o \in h[u] : p[o] # None
      PROVE  Commits(r)
  <2>1. changes' \in 0..MaxChanges
    BY <1>a DEF Commit
  <2> QED
    BY <1>a, <2>1 DEF Commit, Commits
<1>1. ASSUME NEW o \in Roles, NEW g \in Grants,
             CreateRole(r, o, g) \/ UpdateRole(r, o, g)
               \/ UpdateAdminRole(r, o, g)
      PROVE  Commits(r)
  <2> DEFINE p == [perms EXCEPT ![o] = g]
  <2>1. Commit(r, p, life, has) /\ reqs[r].pc = "run"
    BY <1>1 DEF CreateRole, UpdateRole, UpdateAdminRole, Runs
  <2>2. p \in [Roles -> {None} \cup PermissionSets]
    BY <1>0
  <2>3. \A u \in Users : \A x \in has[u] : p[x] # None
    BY <1>0
  <2> HIDE DEF p
  <2> QED
    BY <1>a, <2>1, <2>2, <2>3
<1>2. ASSUME NEW o \in Roles, RemoveRole(r, o)
      PROVE  Commits(r)
  <2> DEFINE p == [perms EXCEPT ![o] = None]
             h == [u \in Users |-> has[u] \ {o}]
  <2>1. Commit(r, p, life, h) /\ reqs[r].pc = "run"
    BY <1>2 DEF RemoveRole, Runs
  <2>2. /\ p \in [Roles -> {None} \cup PermissionSets]
        /\ h \in [Users -> SUBSET Roles]
    OBVIOUS
  <2>3. \A u \in Users : \A x \in h[u] : p[x] # None
    OBVIOUS
  <2> HIDE DEF p, h
  <2> QED
    BY <1>a, <2>1, <2>2, <2>3
<1>3. ASSUME NEW u \in Users, NEW os \in SUBSET Roles, UpdateTeamUser(r, u, os)
      PROVE  Commits(r)
  <2> DEFINE h == [has EXCEPT ![u] = os]
  <2>1. /\ Commit(r, perms, life, h) /\ reqs[r].pc = "run"
        /\ \A o \in os : perms[o] # None
    BY <1>3 DEF UpdateTeamUser, Runs, Exists
  <2>2. h \in [Users -> SUBSET Roles]
    OBVIOUS
  <2>3. \A v \in Users : \A o \in h[v] : perms[o] # None
    BY <2>1
  <2> HIDE DEF h
  <2> QED
    BY <1>a, <2>1, <2>2, <2>3
<1>4. ASSUME NEW u \in Users, DeleteUser(r, u)
      PROVE  Commits(r)
  <2> DEFINE l == [life EXCEPT ![u] = "deleted"]
             h == [has EXCEPT ![u] = {}]
  <2>1. Commit(r, perms, l, h) /\ reqs[r].pc = "run"
    BY <1>4 DEF DeleteUser, Runs
  <2>2. /\ l \in [Users -> {"active", "inactive", "deleted"}]
        /\ h \in [Users -> SUBSET Roles]
    OBVIOUS
  <2>3. \A v \in Users : \A o \in h[v] : perms[o] # None
    OBVIOUS
  <2> HIDE DEF l, h
  <2> QED
    BY <1>a, <2>1, <2>2, <2>3
<1>5. ASSUME NEW u \in Users, UpdateUser(r, u)
      PROVE  Commits(r)
  <2> DEFINE l == [life EXCEPT ![u] = IF @ = "active" THEN "inactive"
                                      ELSE "active"]
  <2>1. Commit(r, perms, l, has) /\ reqs[r].pc = "run"
    BY <1>5 DEF UpdateUser, Runs
  <2>2. l \in [Users -> {"active", "inactive", "deleted"}]
    OBVIOUS
  <2> HIDE DEF l
  <2> QED
    BY <1>a, <2>1, <2>2
<1> QED
  BY <1>1, <1>2, <1>3, <1>4, <1>5 DEF HandlerStep

----------------------------------------------------------------------------
(* Each step keeps the invariant                                           *)

\* The invariant holds after seedRbac.
LEMMA InitIInv == Init => IInv
<1> SUFFICES ASSUME Init PROVE IInv
  OBVIOUS
<1> USE AccessAssumption
<1>1. perms \in [Roles -> {None} \cup PermissionSets]
  BY DEF Init, PermissionSets
<1>2. has \in [Users -> SUBSET Roles]
  BY DEF Init, SystemRoles
<1>3. \A u \in Users : \A o \in has[u] : perms[o] # None
  BY DEF Init, SystemRoles
<1>4. ever \in [Users -> PermissionSets]
  BY <1>1, <1>2, GrantedType DEF Init
<1>5. \A r \in Requests : reqs[r].pc = "idle"
  BY DEF Init, Idle
<1>6. TypeOK
  BY <1>1, <1>2, <1>3, <1>4, IdleType DEF Init, TypeOK
<1>7. HistoryIsComplete
  BY DEF Init, HistoryIsComplete, Permissions
<1> QED
  BY <1>5, <1>6, <1>7
  DEF Init, IInv, RequestsHaveUsers, SeenWereGranted, ServedWereGranted

\* A commit only adds to the history, by which the others are judged.
LEMMA CommitKeeps ==
  ASSUME IInv, NEW r \in Requests, Commits(r)
  PROVE  IInv'
<1>0. /\ reqs \in [Requests -> Request] /\ ever \in [Users -> PermissionSets]
      /\ reqs' = [reqs EXCEPT ![r] = Idle] /\ cache' = cache
  BY DEF Commits, IInv, TypeOK
<1>1. \A u \in Users : ever'[u] = ever[u] \cup Granted(perms', has', u)
  BY DEF Commits
<1>2. \A u \in Users : Granted(perms', has', u) \in PermissionSets
  BY GrantedType DEF Commits
<1>3. ever' \in [Users -> PermissionSets]
  BY <1>0, <1>1, <1>2 DEF Commits, PermissionSets
<1>4. TypeOK'
  BY <1>0, <1>3, IdleType DEF Commits, IInv, TypeOK
<1>5. \A q \in Requests : reqs'[q].pc = "idle" \/ reqs'[q] = reqs[q]
  BY <1>0 DEF Idle
<1>6. RequestsHaveUsers'
  BY <1>5 DEF IInv, RequestsHaveUsers
<1>7. HistoryIsComplete'
  BY <1>1 DEF HistoryIsComplete, Permissions
<1>8. SeenWereGranted'
  BY <1>0, <1>1, <1>5 DEF IInv, SeenWereGranted, RequestsHaveUsers
<1>9. ServedWereGranted'
  <2> SUFFICES ASSUME NEW q \in Requests, reqs'[q].pc = "run"
               PROVE  Admits(ever'[reqs'[q].user], reqs'[q].needs)
    BY DEF ServedWereGranted
  <2>1. reqs'[q] = reqs[q] /\ reqs[q].pc = "run" /\ reqs[q].user \in Users
    BY <1>5 DEF IInv, RequestsHaveUsers
  <2>2. Admits(ever[reqs[q].user], reqs[q].needs)
    BY <2>1 DEF IInv, ServedWereGranted
  <2>3. ever[reqs[q].user] \subseteq ever'[reqs[q].user]
    BY <1>1, <2>1
  <2> QED
    BY <2>1, <2>2, <2>3, AdmitsMore
<1> QED
  BY <1>4, <1>6, <1>7, <1>8, <1>9 DEF IInv

\* Any other step replaces at most one request and one key of Redis.
LEMMA QuietKeeps ==
  ASSUME IInv, UNCHANGED tables, NEW r \in Requests, NEW new,
         reqs' = [reqs EXCEPT ![r] = new], new \in Request,
         new.pc # "idle" => new.user \in Users,
         new.pc = "set" => new.seen \subseteq ever[new.user],
         new.pc = "run" => Admits(ever[new.user], new.needs),
         \A u \in Users : \/ cache'[u] = cache[u]
                          \/ cache'[u] = None
                          \/ /\ cache'[u] \in PermissionSets
                             /\ cache'[u] \subseteq ever[u],
         cache' = [u \in Users |-> cache'[u]]
  PROVE  IInv'
<1>0. reqs \in [Requests -> Request]
  BY DEF IInv, TypeOK
<1>1. \A q \in Requests : reqs'[q] = reqs[q] \/ reqs'[q] = new
  BY <1>0
<1>2. perms' = perms /\ life' = life /\ has' = has /\ ever' = ever
  BY DEF tables
<1>3. cache' \in [Users -> {None} \cup PermissionSets]
  BY DEF IInv, TypeOK
<1>4. TypeOK'
  BY <1>0, <1>3 DEF IInv, TypeOK, tables
<1>5. RequestsHaveUsers'
  BY <1>1 DEF IInv, RequestsHaveUsers
<1>6. HistoryIsComplete'
  BY <1>2 DEF IInv, HistoryIsComplete, Permissions
<1>7. SeenWereGranted'
  BY <1>1, <1>2 DEF IInv, SeenWereGranted
<1>8. ServedWereGranted'
  BY <1>1, <1>2 DEF IInv, ServedWereGranted
<1> QED
  BY <1>4, <1>5, <1>6, <1>7, <1>8 DEF IInv

\* The verdict of PermissionsGuard on permissions the user has had.
LEMMA JudgeKeeps ==
  ASSUME IInv, NEW r \in Requests, reqs[r].pc \in {"get", "set"},
         NEW seen, seen \subseteq ever[reqs[r].user],
         Judge(r, seen), UNCHANGED tables,
         \A u \in Users : \/ cache'[u] = cache[u]
                          \/ cache'[u] = None
                          \/ /\ cache'[u] \in PermissionSets
                             /\ cache'[u] \subseteq ever[u],
         cache' = [u \in Users |-> cache'[u]]
  PROVE  IInv'
<1> DEFINE old == reqs[r]
           run == [old EXCEPT !.pc = "run", !.seen = {}]
           new == IF Admits(seen, old.needs) THEN run ELSE Idle
<1>1. old \in Request /\ old.user \in Users
  BY DEF IInv, TypeOK, RequestsHaveUsers
<1>2. run \in Request /\ run.pc = "run" /\ run.user = old.user
      /\ run.needs = old.needs
  BY <1>1 DEF Request, PermissionSets
<1>3. Admits(seen, old.needs) => Admits(ever[run.user], run.needs)
  BY <1>2, AdmitsMore
<1>4. reqs' = [reqs EXCEPT ![r] = new]
  BY DEF Judge
<1>5. Idle.pc = "idle"
  BY DEF Idle
<1> HIDE DEF old, run
<1>6. new \in Request
  BY <1>2, IdleType
<1>7. /\ new.pc # "idle" => new.user \in Users
      /\ new.pc = "set" => new.seen \subseteq ever[new.user]
      /\ new.pc = "run" => Admits(ever[new.user], new.needs)
  BY <1>1, <1>2, <1>3, <1>5
<1> HIDE DEF new
<1> QED
  BY <1>4, <1>6, <1>7, QuietKeeps

\* Every step of a guard, of a handler and of the cache keeps the invariant.
LEMMA NextIInv == IInv /\ [Next]_vars => IInv'
<1> SUFFICES ASSUME IInv, [Next]_vars PROVE IInv'
  OBVIOUS
<1>0. /\ reqs \in [Requests -> Request]
      /\ cache \in [Users -> {None} \cup PermissionSets]
  BY DEF IInv, TypeOK
<1>a. cache' = cache => /\ cache' = [u \in Users |-> cache'[u]]
                        /\ \A u \in Users : cache'[u] = cache[u]
  BY <1>0
<1>1. ASSUME NEW r \in Requests, GetCached(r)
      PROVE  IInv'
  <2>0. reqs[r].pc = "get" /\ UNCHANGED <<tables, cache>>
    BY <1>1 DEF GetCached
  <2>1. reqs[r] \in Request /\ reqs[r].user \in Users
    BY <1>0, <2>0 DEF IInv, RequestsHaveUsers
  <2>2. CASE /\ cache[reqs[r].user] # None
             /\ Judge(r, cache[reqs[r].user])
    <3>1. cache[reqs[r].user] \subseteq ever[reqs[r].user]
      BY <2>1, <2>2 DEF IInv, SeenWereGranted
    <3> QED
      BY <1>a, <2>0, <2>2, <3>1, JudgeKeeps
  <2>3. CASE reqs' = [reqs EXCEPT ![r].pc = "load"]
    <3> DEFINE new == [reqs[r] EXCEPT !.pc = "load"]
    <3>1. new \in Request /\ new.pc = "load" /\ new.user = reqs[r].user
      BY <2>1 DEF Request
    <3>2. reqs' = [reqs EXCEPT ![r] = new]
      BY <1>0, <2>3
    <3> HIDE DEF new
    <3> QED
      BY <1>a, <2>0, <2>1, <3>1, <3>2, QuietKeeps
  <2> QED
    BY <1>1, <2>2, <2>3 DEF GetCached
<1>2. ASSUME NEW r \in Requests, LoadPermissions(r)
      PROVE  IInv'
  <2>0. reqs[r].pc = "load" /\ UNCHANGED <<tables, cache>>
    BY <1>2 DEF LoadPermissions
  <2>1. reqs[r] \in Request /\ reqs[r].user \in Users
    BY <1>0, <2>0 DEF IInv, RequestsHaveUsers
  <2>2. CASE reqs' = [reqs EXCEPT ![r] = Idle]
    <3>1. Idle.pc = "idle"
      BY DEF Idle
    <3> QED
      BY <1>a, <2>0, <2>2, <3>1, IdleType, QuietKeeps
  <2>3. CASE reqs' = [reqs EXCEPT ![r].pc = "set",
                                  ![r].seen = Permissions(reqs[r].user)]
    <3> DEFINE s == Permissions(reqs[r].user)
               new == [reqs[r] EXCEPT !.pc = "set", !.seen = s]
    <3>1. s \in PermissionSets /\ s \subseteq ever[reqs[r].user]
      BY <2>1, GrantedType DEF Permissions, IInv, TypeOK, HistoryIsComplete
    <3>2. reqs' = [reqs EXCEPT ![r] = new]
      BY <1>0, <2>3
    <3> HIDE DEF s
    <3>3. /\ new \in Request /\ new.pc = "set" /\ new.seen = s
          /\ new.user = reqs[r].user
      BY <2>1, <3>1 DEF Request
    <3> HIDE DEF new
    <3> QED
      BY <1>a, <2>0, <2>1, <3>1, <3>2, <3>3, QuietKeeps
  <2> QED
    BY <1>2, <2>2, <2>3 DEF LoadPermissions
<1>3. ASSUME NEW r \in Requests, SetCached(r)
      PROVE  IInv'
  <2> DEFINE s == reqs[r].seen
  <2>0. /\ reqs[r].pc = "set" /\ UNCHANGED tables /\ Judge(r, s)
        /\ \/ cache' = [cache EXCEPT ![reqs[r].user] = s]
           \/ UNCHANGED cache
    BY <1>3 DEF SetCached
  <2>1. reqs[r].user \in Users /\ s \in PermissionSets
        /\ s \subseteq ever[reqs[r].user]
    BY <1>0, <2>0 DEF IInv, RequestsHaveUsers, SeenWereGranted, Request
  <2> HIDE DEF s
  <2>2. /\ cache' = [u \in Users |-> cache'[u]]
        /\ \A u \in Users : \/ cache'[u] = cache[u]
                            \/ /\ cache'[u] \in PermissionSets
                               /\ cache'[u] \subseteq ever[u]
    BY <1>0, <2>0, <2>1
  <2> QED
    BY <2>0, <2>1, <2>2, JudgeKeeps
<1>4. ASSUME NEW r \in Requests, Return(r)
      PROVE  IInv'
  <2>1. Idle.pc = "idle"
    BY DEF Idle
  <2> QED
    BY <1>4, <1>a, <2>1, IdleType, QuietKeeps DEF Return
<1>5. ASSUME NEW r \in Requests, NEW u \in Users, NEW needs \in Needed,
             Authenticate(r, u, needs)
      PROVE  IInv'
  <2> DEFINE new == [Idle EXCEPT !.pc = "get", !.user = u, !.needs = needs]
  <2>1. needs \in PermissionSets
    BY DEF Needed, PermissionSets
  <2>2. new \in Request /\ new.pc = "get" /\ new.user = u
    BY <2>1 DEF Request, Idle, PermissionSets
  <2>3. reqs' = [reqs EXCEPT ![r] = new] /\ UNCHANGED <<tables, cache>>
    BY <1>5 DEF Authenticate
  <2> HIDE DEF new
  <2> QED
    BY <1>a, <2>2, <2>3, QuietKeeps
<1>6. ASSUME NEW u \in Users, CacheExpires(u)
      PROVE  IInv'
  <2>1. cache' = [cache EXCEPT ![u] = None] /\ UNCHANGED <<tables, reqs>>
    BY <1>6 DEF CacheExpires
  <2>2. cache' \in [Users -> {None} \cup PermissionSets]
    BY <1>0, <2>1
  <2>3. \A v \in Users : cache'[v] # None => cache'[v] = cache[v]
    BY <1>0, <2>1
  <2>4. TypeOK'
    BY <2>1, <2>2 DEF IInv, TypeOK, tables
  <2> QED
    BY <2>1, <2>3, <2>4
    DEF IInv, tables, RequestsHaveUsers, HistoryIsComplete, Permissions,
        SeenWereGranted, ServedWereGranted
<1>7. CASE UNCHANGED vars
  BY <1>7
  DEF vars, IInv, TypeOK, RequestsHaveUsers, HistoryIsComplete, Permissions,
      SeenWereGranted, ServedWereGranted
<1>8. ASSUME NEW r \in Requests, HandlerStep(r)
      PROVE  IInv'
  BY <1>8, HandlersCommit, CommitKeeps DEF IInv
<1> QED
  BY <1>1, <1>2, <1>3, <1>4, <1>5, <1>6, <1>7, <1>8 DEF Next, GuardStep

----------------------------------------------------------------------------
(* Theorems                                                                *)

\* The invariant holds in every reachable state.
THEOREM Invariance == Spec => []IInv
BY InitIInv, NextIInv, PTL DEF Spec

\* The types hold, and user_roles names only roles that exist (its foreign key
\* and the cascade of roles.remove).
THEOREM TypeCorrect == Spec => []TypeOK
<1>1. IInv => TypeOK
  BY DEF IInv
<1> QED
  BY <1>1, Invariance, PTL

\* PermissionsGuard lets a handler run only for a user who has had what the
\* route needs, with any number of requests, roles and changes, whatever the
\* cache holds, loses or refuses to store.
THEOREM ServedHadPermission == Spec => []ServedWereGranted
<1>1. IInv => ServedWereGranted
  BY DEF IInv
<1> QED
  BY <1>1, Invariance, PTL

----------------------------------------------------------------------------
(* Organisations                                                           *)

\* What TenantsAreIsolated asks of the change of x.
Entitled(x) ==
  \/ OnBehalfOf(x)
  \/ \E o \in CustomRoles :
       Exists(o) /\ perms'[o] = None /\ TakesOnly(o, x) /\ OnBehalfOf(o)

\* A handler changes a user or a custom role of its own organisation, or has
\* manage:all, or removes a role of its own organisation from those who have it.
LEMMA HandlersAreEntitled ==
  ASSUME TypeOK, NEW r \in Requests, HandlerStep(r),
         NEW x \in Users \cup CustomRoles, Changes(x)
  PROVE  Entitled(x)
<1>0. /\ perms \in [Roles -> {None} \cup PermissionSets]
      /\ life \in [Users -> {"active", "inactive", "deleted"}]
      /\ has \in [Users -> SUBSET Roles]
  BY DEF TypeOK
<1>1. reqs[r].pc = "run" /\ reqs'[r] = Idle
  BY HandlersCommit DEF Commits, TypeOK
<1>2. ASSUME NEW y, Runs(r, "manage:all") \/ SameOrg(r, y)
      PROVE  OnBehalfOf(y)
  BY <1>1, <1>2 DEF OnBehalfOf
<1>3. ASSUME NEW o \in Roles, NEW g \in Grants,
             CreateRole(r, o, g) \/ UpdateRole(r, o, g)
               \/ UpdateAdminRole(r, o, g)
      PROVE  Entitled(x)
  <2>1. /\ perms' = [perms EXCEPT ![o] = g] /\ life' = life /\ has' = has
        /\ Runs(r, "manage:all") \/ SameOrg(r, o)
    BY <1>3 DEF CreateRole, UpdateRole, UpdateAdminRole, Commit
  <2>2. x = o
    BY <1>0, <2>1 DEF Changes, CustomRoles
  <2> QED
    BY <1>2, <2>1, <2>2 DEF Entitled
<1>4. ASSUME NEW o \in Roles, RemoveRole(r, o)
      PROVE  Entitled(x)
  <2>1. /\ perms' = [perms EXCEPT ![o] = None] /\ life' = life
        /\ has' = [u \in Users |-> has[u] \ {o}]
        /\ Runs(r, "manage:all") \/ SameOrg(r, o)
        /\ o \in CustomRoles /\ Exists(o)
    BY <1>4 DEF RemoveRole, Commit
  <2>2. CASE x \in Users
    <3>1. o \in has[x] /\ has'[x] = has[x] \ {o} /\ life'[x] = life[x]
      BY <1>0, <2>1, <2>2 DEF Changes
    <3>2. perms'[o] = None /\ TakesOnly(o, x)
      BY <1>0, <2>1, <2>2, <3>1 DEF TakesOnly
    <3> QED
      BY <1>2, <2>1, <3>2 DEF Entitled
  <2>3. CASE x \notin Users
    <3>1. x = o
      BY <1>0, <2>1, <2>3 DEF Changes, CustomRoles
    <3> QED
      BY <1>2, <2>1, <3>1 DEF Entitled
  <2> QED
    BY <2>2, <2>3
<1>5. ASSUME NEW u \in Users, NEW os \in SUBSET Roles, UpdateTeamUser(r, u, os)
      PROVE  Entitled(x)
  <2>1. /\ perms' = perms /\ life' = life /\ has' = [has EXCEPT ![u] = os]
        /\ SameOrg(r, u)
    BY <1>5 DEF UpdateTeamUser, Commit
  <2>2. x = u
    BY <1>0, <2>1 DEF Changes
  <2> QED
    BY <1>2, <2>1, <2>2 DEF Entitled
<1>6. ASSUME NEW u \in Users, DeleteUser(r, u)
      PROVE  Entitled(x)
  <2>1. /\ perms' = perms /\ life' = [life EXCEPT ![u] = "deleted"]
        /\ has' = [has EXCEPT ![u] = {}]
        /\ Runs(r, "manage:all") \/ SameOrg(r, u)
    BY <1>6 DEF DeleteUser, Commit
  <2>2. x = u
    BY <1>0, <2>1 DEF Changes
  <2> QED
    BY <1>2, <2>1, <2>2 DEF Entitled
<1>7. ASSUME NEW u \in Users, UpdateUser(r, u)
      PROVE  Entitled(x)
  BY <1>2, <1>7 DEF UpdateUser, Entitled
<1> QED
  BY <1>3, <1>4, <1>5, <1>6, <1>7 DEF HandlerStep

\* Users and custom roles are changed only from within their organisation or
\* through the back office (roles.service.ts, users.service.ts: the handlers
\* compare organizationId); when an organisation deletes a role of its own,
\* users of others lose that role and nothing else.
THEOREM TenantsStayIsolated == Spec => TenantsAreIsolated
<1>1. ASSUME IInv, Next, NEW x \in Users \cup CustomRoles, Changes(x)
      PROVE  Entitled(x)
  <2>1. ASSUME UNCHANGED tables PROVE FALSE
    BY <1>1, <2>1 DEF tables, Changes
  <2>2. PICK r \in Requests : HandlerStep(r)
    BY <1>1, <2>1
    DEF Next, GuardStep, GetCached, LoadPermissions, SetCached, Return,
        Authenticate, CacheExpires
  <2> QED
    BY <1>1, <2>2, HandlersAreEntitled DEF IInv
<1>2. IInv /\ [Next]_vars =>
        [\A x \in Users \cup CustomRoles : Changes(x) =>
           \/ OnBehalfOf(x)
           \/ \E o \in CustomRoles : Exists(o) /\ perms'[o] = None
                /\ TakesOnly(o, x) /\ OnBehalfOf(o)]_vars
  BY <1>1 DEF Entitled
<1> QED
  BY <1>2, Invariance, PTL DEF Spec, TenantsAreIsolated

============================================================================
