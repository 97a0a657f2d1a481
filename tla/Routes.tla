------------------------------- MODULE Routes -------------------------------
(***************************************************************************)
(* The HTTP surface: which guard stands before each handler, as the        *)
(* decorators of the controllers say, and the permissions the seed gives   *)
(* to the system roles.  A handler only passes its arguments on to the     *)
(* service of the same name; what the services do is in the other modules. *)
(***************************************************************************)
EXTENDS Naturals

\* by: who must stand behind the request.  needs: what PermissionsGuard asks
\* for.  loaded: permissions or roles of which JwtStrategy must have loaded
\* one, for RolesGuard or the service.  feature: what SubscriptionGuard asks
\* of the plan.
Route(c, by, needs, loaded, feature, ops) ==
  {[in |-> c, op |-> o, by |-> by, needs |-> needs, loaded |-> loaded,
    feature |-> feature] : o \in ops}

Public(c, ops) == Route(c, "anyone", {}, {}, "", ops)
Agent(c, ops) == Route(c, "agent", {}, {}, "", ops)
SignedIn(c, ops) == Route(c, "user", {}, {}, "", ops)
Needs(c, perm, ops) == Route(c, "user", {perm}, {}, "", ops)

----------------------------------------------------------------------------
(* Accounts, organisations, roles                                          *)

AuthRoutes ==
  Public("auth", {"getInvitationInfo", "register", "signup", "login",
                  "forgotPassword", "resetPassword", "verifyResetToken"})
  \cup Route("auth", "refresh", {}, {}, "", {"refreshTokens"})
  \cup SignedIn("auth", {"logout", "changePassword"})
  \cup Needs("auth", "manage:users", {"inviteUser"})

UserRoutes ==
  SignedIn("users", {"getProfile", "updateProfile"})
  \cup Needs("users", "read:users", {"getTeamUsers", "getTeamUser"})
  \cup Needs("users", "manage:users", {"updateTeamUser", "deleteTeamUser"})

RoleRoutes ==
  Needs("roles", "read:roles", {"findAllPermissions", "findAll", "findOne"})
  \cup Needs("roles", "manage:roles", {"create", "update", "remove"})

OrganizationRoutes ==
  SignedIn("organizations", {"getMyOrganization", "updateMyOrganization"})

PublicRoutes == Public("public", {"contact"})

PlanRoutes == Public("subscriptions", {"getPlans"})

OnboardingRoutes ==
  SignedIn("onboarding", {"getStatus", "step1", "step2", "step3",
                          "getAgentReleases", "linkAgent", "getProfiles",
                          "step4", "step5"})

DatasourceRoutes == SignedIn("datasource", {"testConnection", "discover"})

BillingRoutes ==
  Needs("billing", "read:billing", {"getSubscription", "getInvoices"})
  \cup Needs("billing", "manage:billing", {"createCheckout",
                                           "cancelSubscription"})
  \cup Public("billing", {"handleWebhook"})  \* signed by the provider

----------------------------------------------------------------------------
(* Agents and data                                                         *)

AgentRoutes ==
  Public("agents", {"registerAgent", "heartbeat"})  \* the token is in the body
  \cup Needs("agents", "manage:agents", {"generateToken", "regenerateToken",
                                         "revokeToken"})
  \cup Needs("agents", "read:agents", {"getAgentStatus", "getAgent",
                       "testConnection", "getJobStats", "getAgentLogs",
                       "getAgentJobs"})
  \cup Needs("agents", "manage:dashboards", {"executeQuery"})
  \cup Needs("agents", "read:dashboards", {"getJobStatus"})

AgentV1Routes ==
  Public("v1/agent", {"validate"})
  \cup Agent("v1/agent", {"ingest", "getConfig", "heartbeat", "checkUpdate"})
  \cup Needs("v1/agent", "manage:agents", {"sendCommand"})
  \cup Needs("v1/agent", "read:agents", {"getSyncBatches"})
  \cup Needs("v1/agent", "read:dashboards", {"getSnapshot"})

DataRoutes ==
  Route("data", "user", {}, {"read:data", "manage:all"}, "",
        {"query", "getJob", "cancel"})
  \cup Route("data", "user", {}, {"execute:data_certification"}, "",
             {"certify"})

NlqRoutes ==
  Route("nlq", "user", {"read:dashboards"}, {}, "hasNlq",
        {"getHistory", "query", "getFavorites", "addFavorite",
         "removeFavorite"})
  \cup Route("nlq", "user", {"write:dashboards"}, {}, "hasNlq",
             {"addToDashboard"})

----------------------------------------------------------------------------
(* Dashboards, widget store, targets, bugs, logs, health                   *)

DashboardRoutes ==
  Needs("dashboards", "read:dashboards", {"getKpiPacks", "findMine",
                                          "findAll", "findOne"})
  \cup Needs("dashboards", "write:dashboards", {"create", "update",
                       "addWidget", "updateWidget", "removeWidget"})
  \cup Needs("dashboards", "delete:dashboards", {"remove"})

WidgetRoutes ==
  Needs("widget-store", "read:widgets", {"getStore"})
  \cup Needs("widget-store", "write:widgets",
             {"createKpiDefinition", "updateKpiDefinition",
              "toggleKpiDefinition", "createWidgetTemplate",
              "updateWidgetTemplate", "toggleWidgetTemplate",
              "createKpiPack", "updateKpiPack", "toggleKpiPack"})

TargetRoutes ==
  Needs("targets", "read:targets", {"findAll", "findOne"})
  \cup Needs("targets", "manage:targets", {"create", "update", "remove"})

\* RolesGuard stands before assign.
BugRoutes ==
  SignedIn("v1/bugs", {"uploadFile", "create", "findAll", "getStats",
                       "getRecentComments", "findOne", "updateStatus",
                       "addComment"})
  \cup Route("v1/bugs", "user", {}, {"superadmin"}, "", {"assign"})

LogRoutes == Needs("logs", "read:logs", {"getAuditLogs", "getEventTypes",
                                         "getAuditLogById"})

HealthRoutes ==
  Public("health", {"check", "checkDb"}) \cup SignedIn("health", {"getJobs"})

----------------------------------------------------------------------------
(* The back office: manage:all on the class                                *)

AdminAccountRoutes ==
  Needs("admin", "manage:all",
        {"getDashboardStats", "createClient", "findAllOrganizations",
         "findOrganizationById", "updateOrganization", "deleteOrganization",
         "findAllUsers", "findUserById", "updateUser", "createUser",
         "resendSetupEmail", "deleteUser", "findAllAuditLogs",
         "findAllInvitations"})

AdminPlanRoutes ==
  Needs("admin", "manage:all",
        {"findAllSubscriptionPlans", "findSubscriptionPlanById",
         "createSubscriptionPlan", "updateSubscriptionPlan",
         "deactivateSubscriptionPlan", "findAllBillingSubscriptions",
         "findBillingSubscriptionByOrg"})

AdminStoreRoutes ==
  Needs("admin", "manage:all",
        {"findAllKpiDefinitions", "findKpiDefinitionById",
         "createKpiDefinition", "updateKpiDefinition", "toggleKpiDefinition",
         "findAllWidgetTemplates", "findWidgetTemplateById",
         "createWidgetTemplate", "updateWidgetTemplate",
         "toggleWidgetTemplate", "findAllKpiPacks", "findKpiPackById",
         "createKpiPack", "updateKpiPack", "toggleKpiPack"})

AdminNlqRoutes ==
  Needs("admin", "manage:all",
        {"findAllNlqIntents", "findNlqIntentById", "findAllNlqTemplates",
         "findNlqTemplateById", "toggleNlqTemplate", "createKpiFull",
         "updateKpiFull", "createNlqIntent", "updateNlqIntent",
         "deleteNlqIntent", "createNlqTemplate", "updateNlqTemplate",
         "deleteNlqTemplate", "findAllNlqSessions", "findNlqSessionById",
         "findAllDashboards", "findDashboardById", "deleteDashboard"})

AdminAgentRoutes ==
  Needs("admin", "manage:all",
        {"listAllAgents", "generateAgentToken", "getAgentById",
         "getAgentLogs", "getAgentJobs", "getAgentJobStats",
         "revokeAgentToken", "regenerateAgentToken", "testAgentConnection",
         "deleteAgent", "getAuditLogById"})

AdminSystemRoutes ==
  Needs("admin", "manage:all",
        {"listAllRoles", "getRoleById", "createRole", "updateRole",
         "deleteRole", "getOnboardingOverview", "getKpiHealthStats",
         "getKpiHealthDetail", "getSystemConfig", "updateSystemConfig",
         "getLocalLlmModels", "getStorageMigrationStatus",
         "migrateLocalToMinio", "updateStoragePublicUrl",
         "getDemoRequestsStats", "getRecentDemoNotes", "addDemoRequestNote",
         "getDemoRequests", "getDemoRequest", "updateDemoRequest",
         "deleteDemoRequest"})

ReleaseRoutes ==
  Needs("admin/agent-releases", "manage:all",
        {"uploadRelease", "getPresignedUpload", "confirmRelease",
         "listReleases", "setLatest", "deleteRelease"})

AllRoutes ==
  AuthRoutes \cup UserRoutes \cup RoleRoutes \cup OrganizationRoutes
  \cup PublicRoutes \cup PlanRoutes \cup OnboardingRoutes
  \cup DatasourceRoutes \cup BillingRoutes \cup AgentRoutes
  \cup AgentV1Routes \cup DataRoutes \cup NlqRoutes \cup DashboardRoutes
  \cup WidgetRoutes \cup TargetRoutes \cup BugRoutes \cup LogRoutes
  \cup HealthRoutes \cup AdminAccountRoutes \cup AdminPlanRoutes
  \cup AdminStoreRoutes \cup AdminNlqRoutes \cup AdminAgentRoutes
  \cup AdminSystemRoutes \cup ReleaseRoutes

----------------------------------------------------------------------------
(* The seed                                                                *)

DEFAULT_PERMISSIONS ==
  {"read:dashboards", "write:dashboards", "delete:dashboards",
   "read:widgets", "write:widgets", "read:users", "manage:users",
   "read:roles", "manage:roles", "read:agents", "read:data",
   "execute:data_certification", "manage:agents", "read:nlq", "write:nlq",
   "read:logs", "manage:organization", "read:targets", "manage:targets",
   "read:billing", "manage:billing", "manage:all"}

AnalystPermissions == {"read:dashboards", "read:widgets", "read:nlq",
                       "read:targets"}

ControllerPermissions ==
  AnalystPermissions \cup {"read:users", "read:roles", "read:agents",
    "write:dashboards", "write:widgets", "write:nlq", "manage:targets"}

DafPermissions ==
  AnalystPermissions \cup {"manage:organization", "manage:users",
    "manage:roles", "manage:agents", "read:agents", "read:data",
    "write:dashboards", "delete:dashboards", "write:widgets", "write:nlq",
    "read:logs", "manage:targets", "read:billing"}

DEFAULT_ROLES ==
  [superadmin |-> {"manage:all"},
   owner |-> DafPermissions \cup {"manage:billing"},
   daf |-> DafPermissions,
   controller |-> ControllerPermissions,
   analyst |-> AnalystPermissions]

============================================================================
