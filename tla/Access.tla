------------------------------- MODULE Access -------------------------------
(***************************************************************************)
(* Who may do what: JwtStrategy, TenantGuard and PermissionsGuard with its *)
(* five-minute cache in Redis, in front of the operations that change      *)
(* roles and the users who have them (RolesService, UsersController, the   *)
(* role and user operations of AdminService).  A change is made by a       *)
(* request that passed the guards itself.                                  *)
(*                                                                         *)
(* A handler reads the row it is about to change and checks its            *)
(* organisation and isSystem, which never change, so that reading and      *)
(* writing is one action.                                                  *)
(***************************************************************************)
EXTENDS Routes, FiniteSets

CONSTANTS
  Users, Requests,
  Roles,       \* names of roles; those of DEFAULT_ROLES are system roles
  Watched,     \* the permissions that are told apart
  Grants,      \* sets of permissions a role may be given
  Org,         \* Org[x]: the organisation of user or custom role x
  Start,       \* Start[u]: the system roles user u was created with
  MaxChanges,  \* bound: changes of users and roles
  None

SystemRoles == Roles \cap DOMAIN DEFAULT_ROLES
CustomRoles == Roles \ SystemRoles

ASSUME AccessAssumption ==
  /\ "manage:all" \in Watched
  /\ Grants \subseteq SUBSET Watched
  /\ DOMAIN Org = Users \cup CustomRoles
  /\ Start \in [Users -> SUBSET SystemRoles]
  /\ MaxChanges \in Nat
  /\ \A g \in SUBSET Watched : g # None

VARIABLES
  perms,    \* perms[o]: table role_permissions of role o; None: no such role
  life,     \* "active", "inactive" or "deleted", per user
  has,      \* table user_roles
  cache,    \* the Redis keys perms:<user>; None: no key
  reqs,     \* requests under way
  changes,  \* changes so far
  ever      \* history: permissions each user has had

vars == <<perms, life, has, cache, reqs, changes, ever>>
tables == <<perms, life, has, changes, ever>>

PermissionSets == SUBSET Watched

\* needs: what the route asks of PermissionsGuard.  seen: the permissions it
\* goes by.
Request == [pc : {"idle", "get", "load", "set", "run"},
            user : Users \cup {None}, needs : PermissionSets,
            seen : PermissionSets]
Idle == [pc |-> "idle", user |-> None, needs |-> {}, seen |-> {}]

TypeOK ==
  /\ perms \in [Roles -> {None} \cup PermissionSets]
  /\ life \in [Users -> {"active", "inactive", "deleted"}]
  /\ has \in [Users -> SUBSET Roles]
  /\ \A u \in Users : \A o \in has[u] : perms[o] # None
  /\ cache \in [Users -> {None} \cup PermissionSets]
  /\ reqs \in [Requests -> Request]
  /\ changes \in 0..MaxChanges
  /\ ever \in [Users -> PermissionSets]

\* The permissions of all roles of user u, in given tables.
Granted(p, h, u) == UNION {p[o] : o \in {x \in h[u] : p[x] # None}}

\* After seedRbac.
Init ==
  /\ perms = [o \in Roles |-> IF o \in SystemRoles
                              THEN DEFAULT_ROLES[o] \cap Watched ELSE None]
  /\ life = [u \in Users |-> "active"]
  /\ has = Start
  /\ cache = [u \in Users |-> None]
  /\ reqs = [r \in Requests |-> Idle]
  /\ changes = 0
  /\ ever = [u \in Users |-> Granted(perms, has, u)]

\* findByIdSafe.
Permissions(u) == Granted(perms, has, u)

----------------------------------------------------------------------------
(* The guards                                                              *)

\* What the routes ask of PermissionsGuard, as far as it is watched.
Needed == {n \in {route.needs : route \in AllRoutes} :
             n # {} /\ n \subseteq Watched}

\* JwtAuthGuard and TenantGuard: the user exists and is active; every user
\* has an organisation.  Routes that need no permission are served here, or
\* refused for what JwtStrategy loaded.
Authenticate(r, u, needs) ==
  /\ reqs[r] = Idle /\ life[u] = "active"
  /\ reqs' = [reqs EXCEPT ![r] = [Idle EXCEPT !.pc = "get", !.user = u,
                                              !.needs = needs]]
  /\ UNCHANGED <<tables, cache>>

\* manage:all admits to everything; else every permission is needed.
Admits(seen, needs) == "manage:all" \in seen \/ needs \subseteq seen

\* The verdict ends the request or lets the handler run.
Judge(r, seen) ==
  reqs' = [reqs EXCEPT ![r] =
             IF Admits(seen, @.needs) THEN [@ EXCEPT !.pc = "run", !.seen = {}]
             ELSE Idle]

\* Mutant: a hit is stored again, with a new time to live.
GetCachedSliding(r) ==
  /\ reqs[r].pc = "get"
  /\ \/ /\ cache[reqs[r].user] # None
        /\ reqs' = [reqs EXCEPT ![r].pc = "set",
                                ![r].seen = cache[reqs[r].user]]
     \/ reqs' = [reqs EXCEPT ![r].pc = "load"]
  /\ UNCHANGED <<tables, cache>>

\* A hit is judged at once.  A miss, or a Redis that does not answer, goes
\* to the database.
GetCached(r) ==
  /\ reqs[r].pc = "get"
  /\ \/ cache[reqs[r].user] # None /\ Judge(r, cache[reqs[r].user])
     \/ reqs' = [reqs EXCEPT ![r].pc = "load"]
  /\ UNCHANGED <<tables, cache>>

\* Mutant: a user who is gone has nothing to check.
LoadWithoutUser(r) ==
  /\ reqs[r].pc = "load"
  /\ reqs' = IF life[reqs[r].user] = "deleted"
               THEN [reqs EXCEPT ![r].pc = "set", ![r].seen = {"manage:all"}]
               ELSE [reqs EXCEPT ![r].pc = "set",
                                 ![r].seen = Permissions(reqs[r].user)]
  /\ UNCHANGED <<tables, cache>>

LoadPermissions(r) ==
  /\ reqs[r].pc = "load"
  /\ reqs' = IF life[reqs[r].user] = "deleted"
               THEN [reqs EXCEPT ![r] = Idle]
               ELSE [reqs EXCEPT ![r].pc = "set",
                                 ![r].seen = Permissions(reqs[r].user)]
  /\ UNCHANGED <<tables, cache>>

\* SET EX, which may fail.
SetCached(r) ==
  /\ reqs[r].pc = "set"
  /\ \/ cache' = [cache EXCEPT ![reqs[r].user] = reqs[r].seen]
     \/ UNCHANGED cache
  /\ Judge(r, reqs[r].seen)
  /\ UNCHANGED tables

CacheExpires(u) ==
  /\ cache[u] # None
  /\ cache' = [cache EXCEPT ![u] = None]
  /\ UNCHANGED <<tables, reqs>>

----------------------------------------------------------------------------
(* The handlers                                                            *)

Runs(r, need) == reqs[r].pc = "run" /\ reqs[r].needs = {need}

\* A handler ends; with or without a change.
Return(r) ==
  /\ reqs[r].pc = "run"
  /\ reqs' = [reqs EXCEPT ![r] = Idle]
  /\ UNCHANGED <<tables, cache>>

\* The request leaves the tables in a new state.
Commit(r, p, l, h) ==
  /\ changes < MaxChanges
  /\ perms' = p /\ life' = l /\ has' = h
  /\ changes' = changes + 1
  /\ ever' = [u \in Users |-> ever[u] \cup Granted(p, h, u)]
  /\ reqs' = [reqs EXCEPT ![r] = Idle]
  /\ UNCHANGED cache

Exists(o) == perms[o] # None
SameOrg(r, x) == Org[x] = Org[reqs[r].user]

\* roles.create and createRoleForOrg, whose organisation is the caller's or
\* chosen by the administrator.  Any permission may be granted.
CreateRole(r, o, g) ==
  /\ o \in CustomRoles /\ ~Exists(o)
  /\ \/ Runs(r, "manage:roles") /\ SameOrg(r, o)
     \/ Runs(r, "manage:all")
  /\ Commit(r, [perms EXCEPT ![o] = g], life, has)

\* Mutant: the organisation of the role is not compared.
UpdateAnyRole(r, o, g) ==
  /\ Runs(r, "manage:roles")
  /\ o \in CustomRoles /\ Exists(o)
  /\ Commit(r, [perms EXCEPT ![o] = g], life, has)

\* roles.update: the permissions are replaced.
UpdateRole(r, o, g) ==
  /\ Runs(r, "manage:roles")
  /\ o \in CustomRoles /\ Exists(o) /\ SameOrg(r, o)
  /\ Commit(r, [perms EXCEPT ![o] = g], life, has)

\* updateAdminRole: also those of a system role.
UpdateAdminRole(r, o, g) ==
  /\ Runs(r, "manage:all") /\ Exists(o)
  /\ Commit(r, [perms EXCEPT ![o] = g], life, has)

\* roles.remove and deleteAdminRole; user_roles goes with it.
RemoveRole(r, o) ==
  /\ o \in CustomRoles /\ Exists(o)
  /\ \/ Runs(r, "manage:roles") /\ SameOrg(r, o)
     \/ Runs(r, "manage:all")
  /\ Commit(r, [perms EXCEPT ![o] = None], life,
            [u \in Users |-> has[u] \ {o}])

\* updateTeamUser: the roles are replaced, the caller's own too.
UpdateTeamUser(r, u, os) ==
  /\ Runs(r, "manage:users")
  /\ life[u] # "deleted" /\ SameOrg(r, u) /\ \A o \in os : Exists(o)
  /\ Commit(r, perms, life, [has EXCEPT ![u] = os])

\* deleteTeamUser, never oneself, and the administrator's deleteUser.
DeleteUser(r, u) ==
  /\ life[u] # "deleted"
  /\ \/ Runs(r, "manage:users") /\ SameOrg(r, u) /\ u # reqs[r].user
     \/ Runs(r, "manage:all")
  /\ Commit(r, perms, [life EXCEPT ![u] = "deleted"], [has EXCEPT ![u] = {}])

\* updateUser: isActive.
UpdateUser(r, u) ==
  /\ Runs(r, "manage:all") /\ life[u] # "deleted"
  /\ Commit(r, perms, [life EXCEPT ![u] = IF @ = "active" THEN "inactive"
                                          ELSE "active"], has)

----------------------------------------------------------------------------

GuardStep(r) ==
  \/ GetCached(r) \/ LoadPermissions(r) \/ SetCached(r) \/ Return(r)

HandlerStep(r) ==
  \/ \E o \in Roles : RemoveRole(r, o) \/ \E g \in Grants :
       CreateRole(r, o, g) \/ UpdateRole(r, o, g) \/ UpdateAdminRole(r, o, g)
  \/ \E u \in Users : DeleteUser(r, u) \/ UpdateUser(r, u)
       \/ \E os \in SUBSET Roles : UpdateTeamUser(r, u, os)

Next ==
  \/ \E r \in Requests : GuardStep(r) \/ HandlerStep(r)
       \/ \E u \in Users, needs \in Needed : Authenticate(r, u, needs)
  \/ \E u \in Users : CacheExpires(u)

Spec == Init /\ [][Next]_vars

\* Requests come to an end and keys with a time to live expire.
Fairness ==
  /\ \A r \in Requests : WF_vars(GuardStep(r))
  /\ \A u \in Users : WF_vars(CacheExpires(u))

FairSpec == Spec /\ Fairness

----------------------------------------------------------------------------
(* Properties                                                              *)

\* PermissionsGuard: a handler only runs for a user who has had what the
\* route needs, whatever the cache, lost users and lost keys.
ServedWereGranted ==
  \A r \in Requests : reqs[r].pc = "run" =>
    Admits(ever[reqs[r].user], reqs[r].needs)

\* A step changes user or custom role x.
Changes(x) ==
  IF x \in Users THEN <<life[x], has[x]>> # <<life'[x], has'[x]>>
                 ELSE perms[x] # perms'[x]

\* A step is the end of a request of the organisation of x, or of the back
\* office (manage:all).
OnBehalfOf(x) ==
  \E r \in Requests : /\ reqs[r].pc = "run" /\ reqs'[r] = Idle
                      /\ Runs(r, "manage:all") \/ SameOrg(r, x)

\* A step takes role o from user x, and nothing else of the user.
TakesOnly(o, x) ==
  x \in Users /\ o \in has[x] /\ <<life'[x], has'[x]>> = <<life[x], has[x] \ {o}>>

\* Users and custom roles of an organisation are only changed by its own
\* members or through the back office, also while roles change under the feet
\* of the requests.  Only a role that its own organisation deletes is taken
\* from users of others too, by the cascade on user_roles, which leaves them
\* all the rest.
TenantsAreIsolated ==
  [][\A x \in Users \cup CustomRoles : Changes(x) =>
       \/ OnBehalfOf(x)
       \/ \E o \in CustomRoles :
            Exists(o) /\ perms'[o] = None /\ TakesOnly(o, x) /\ OnBehalfOf(o)]_vars

\* A permission that was taken away for good is, once the keys have expired
\* and the requests of the time have ended, never gone by again: the cache
\* does not feed itself.
RevocationTakesEffect ==
  \A u \in Users, p \in Watched :
    <>[](p \notin Permissions(u)) =>
      <>[](cache[u] = None \/ p \notin cache[u])

============================================================================
