# A TLA+ model of the InsightSage backend

InsightSage is a NestJS API that lets the customers of an ERP query their own
data through *agents* installed on their premises. The backend runs as several
workers (PM2 cluster) over one PostgreSQL database (Prisma) and one Redis. An
agent holds a WebSocket to one worker and a token issued by the backend; payments
go through Flutterwave.

Almost nothing in this code is a transaction. A handler reads a row, awaits,
decides on what it read, and updates a row by id. Two requests, a scheduled
sweep, a socket event or the death of a worker fit between any two awaits. That
is what the modules model: **one action is one statement (or one run of
synchronous code) together with the code up to the next `await`**, and every
module has a crash action that drops what lives in a worker's memory.

Paths below are relative to the repository.

## 1. Inventory

| Component | State | Operations | Hard behaviour | What makes it correct |
|---|---|---|---|---|
| Data Engine V2 (`src/data-engine/data.service.ts`, `jobs/`, `cache/`) | tables `data_jobs_v2`, `data_query_cache_v2`; per worker the dispatcher's pending map | `runQuery`, `createOrGet`, `transition`, `complete`, `execute`, `cancelJob`, sweeps | duplicates, version checks on stale reads, late and repeated answers, a 30 s timer, workers that die with promises | one claimant per job, terminal states are final, a result answers its query, every call returns, results are erased |
| Agent gateway (`src/agents/agents.gateway.ts`) | per worker `activeAgents`, socket data | connect, disconnect, hello, acknowledgement, results, config, token push | two sockets of one agent, abandoned handshakes, emission to a dead socket | routes and pending entries agree with the sockets |
| Real-time SQL jobs V1 (`agents.service.ts`) | table `agent_jobs`, Redis counter, presence set | `executeRealTimeQuery`, `updateJobResult`, `generateAndStoreInsight`, clean-up | the send loop against answers, disconnections and clean-up | a finished job stays as it is, insights describe the stored rows, every job ends |
| Agent registry (`agents.service.ts`, token guard, `admin.service.ts`) | table `agents`, Redis cool-downs | generate, revoke, regenerate, renew, register, heartbeats, commands, delete | overlapping writers of one row, renewal that crosses the network | a retired token stays out, silent agents go offline, connected tokens are renewed |
| Billing (`src/billing`) | `billing_subscriptions`, `billing_invoices`, `Organization.planId` | checkout, cancel, webhook events | at-least-once, unordered events, failures between provider and row | access is invoiced, charges are invoiced, cancellations settle |
| Onboarding (`src/onboarding`) | `onboarding_status` and the data of each step | five steps, skip, invite later, the agent's own step | lost updates, crash between data and step | the row is consistent, completed steps are backed by data |
| Invitations and seats (`auth.service.ts`, `license-guardian.service.ts`) | `invitations`, `users` | invite, register, create, delete | check-then-act over several awaits | members were invited, seats are respected |
| Sessions and passwords (`auth.service.ts`, strategies) | `users` (hash of the refresh token, link), Redis counters | login, refresh, logout, forgotten and reset password, signup, account administration | counters in several Redis commands that may fail, refresh against logout, one column for every kind of link | guesses are bounded, a used link stays dead, a logout holds |
| Roles and permissions (controllers, `roles`, guards) | `roles`, `role_permissions`, `user_roles`, Redis cache | every guarded route; changes of roles, assignments, users | a cache that outlives the change, requests past their guard | only the granted are served, tenants are isolated, a revocation takes effect |
| Dashboards, widgets, targets (`dashboards`, `targets`) | their tables | create, update, remove | "only one default", count then insert, partial updates of stale rows | one default, widgets within the plan, targets with a reference |
| Natural-language queries (`nlq`) and their administration | `nlq_sessions`, `nlq_intents`, `nlq_templates` | ask, add to dashboard, edit intents and templates | seconds pass between template, execution and record | a session's text, filled in, is what its job ran |
| Bug tracker (`bugs`, `storage`) | `bugs`, files | file, assign, set status | numbers from text order, files moved before the row exists | attachments stay with their bug, a lone report is stored |
| Agent releases (`admin/agent-releases`, `storage`) | `agent_releases`, files | upload, confirm, set latest, delete | row and file in two steps, "only one latest" | listed releases have their file, one latest |
| Planner and semantic registry (`data-engine/planner`, `results`) | none (pure) | period resolution, validation, compilation, result policy | boundaries of periods | not modelled, section 7 |
| Certification campaigns | none (a filter before `runQuery`) | | | its effect on the cache is in DataJobV2 |
| Notifications, health, job registry | cool-downs in each worker's memory | | | not modelled, section 7; section 4 says what they may miss |
| Audit, logs, mail, bootstrap | append-only or wiring | | | not modelled: nothing in the system decides on it |

How they interact: an HTTP call of the data engine claims a job and asks the
gateway for the organisation's agent; the dispatcher emits to its socket and
keeps a promise in the worker's memory; the gateway's handlers settle it. The
registry's tokens decide who may connect; its sweeps and the job sweeps run on
the scheduler leader. The gateway also completes the wizard's step 3 through
`applyAgentConfig`, step 5 sends the invitations of Membership, and billing sets
the plan whose limits Membership and Workspace check. Every route passes the
guards of Access; a question in natural language runs as a V1 job and may become
a widget of Workspace.

`PROJECT.json` lists every component with its status, and under `hazards` every
place where this code is hard to test.

## 2. Modules

| Module | Models | Actors |
|---|---|---|
| `JobLifecycleV2` | what the V2 engine promises about a job (abstract) | - |
| `DataJobV2` | Data Engine V2 with the V2 half of the gateway | API calls, sockets, handlers, cancel requests, sweeps, workers |
| `AgentJobV1` | `executeRealTimeQuery` with the V1 half of the gateway, rate limit and insights | calls, sockets, background insights, sweeps, workers |
| `AgentRegistry` | agent rows, tokens, heartbeats, commands, renewal | administrators, the agent, the leader's sweeps, workers |
| `Billing` | checkout, cancellation, webhooks | the client, the provider, its event deliveries, workers |
| `Onboarding` | the wizard's row | requests, the agent's config event, workers |
| `Membership` | invitations, registration, seats | requests, the administrator, the clock |
| `Sessions` | the account behind one address: lock-out, sessions, links, creation and deletion | logins, refreshes, links, administrators, Redis failures, workers |
| `Routes` | every route with what its guards ask for; the seeded permissions and roles (constant tables) | - |
| `Access` | guards with the permission cache, before the operations that change roles and users; extends `Routes` | users of any organisation, administrators, cache expiry |
| `Workspace` | dashboards, widgets, targets, questions, intents and templates | users, the administrator, workers |
| `Support` | bugs and agent releases with their files | staff, the object store, the calendar, workers |
| `MC<Module>` | small instances for TLC | |
| `<Module>Proofs` | theorems; those of Billing, Onboarding and Membership are in `OrganisationProofs` | |

`map` in `PROJECT.json` gives the lines behind each definition. The correspondence
in general: a variable per table or in-memory map; a record per row with only
the columns a decision reads; a `pc` or `kind` field per request that names the
await it is at; the values a request keeps across an await are fields of its
record. Dates become what the code compares them for (`due`, `late`, `fresh`,
`soon`, `stale`) and an action that lets each of them pass. Definitions whose
comment starts with *Mutant* are plausible mistakes in the definition that
follows; no specification uses them, they show that the properties can fail.

Points of each model worth knowing:

* **DataJobV2.** `transition()` and `complete()` are two actions each, the
  `findFirst` and the conditional `updateMany` (`Matches` is its WHERE, `Moved`
  its SET). A call's own job is named after the call. A message carries the
  agent, job, query id and sequence; a result remembers which messages produced
  it, so that "this is the answer to that query" can be said. The continuation
  between the first and the second execution of a compared query is a step of
  its own, which the event loop would run without interruption: the model allows
  slightly more. Failures of database statements, undecryptable cache rows, the
  test simulator and environment switches are left out.
* **AgentJobV1.** The presence set (`present`) is written by the socket handlers
  and read by the registry's renewal only. The retry loop of 15 s is a
  nondeterministic number of rounds.
* **AgentRegistry.** Tokens are numbered in the order of generation. `held` is
  what is installed on premise; `shown` what the portal displayed; `retired` is
  history: tokens that were replaced, revoked, deleted or expired, and those a
  request generated and never stored. One socket at a time; requests of other
  organisations are refused and left out.
* **Billing.** The provider is external and modelled from how the webhook uses
  it: it may deliver any outstanding event next, more than once, and a charge may
  lack its `subscription_id`, or all of its `meta`, which the handler answers with
  200 and forgets. A plan chosen without paying (the wizard's step 1, the back
  office) is `SelectPlan`, so `planId` is not what shows that something was paid;
  the invoices are. `charge.failed`, mails and reminders are left out.
* **Onboarding.** `saved` stands for the data of each step; `acked` is history:
  the steps some request reported complete while no other request was between its
  read and its write. Steps 2 and 5 may complete without data: a step 2 with an
  empty body saves nothing, and step 5 catches the invitations that fail.
  `linkAgent` with a token writes only the audit log.
* **Membership.** One organisation; `direct` and `overlap` are history. An
  organisation without a plan, or with a plan without a limit, is not checked at
  all (`license-guardian.service.ts:22`, `:27`); that, and changes of the plan, are
  left out.
* **Sessions.** One address, whose account may be deleted and created again. A
  refresh token is hashed with bcrypt, which reads 72 bytes; the tokens of a user
  share them, so a session is one bit. The window of the lock-out is what the two
  Redis keys make of it; every command may fail (`safeRedis`), which `blind`
  records.
* **Routes and Access.** `Routes` is a table, one line per guard and set of
  handlers, so that Access draws the permission of a request from the routes that
  exist and not from what one would expect. Handlers that check a column which
  never changes (organisation, `isSystem`) and write by id are one action.
  `RolesGuard`, which only `PATCH /bugs/:id/assign` uses, is left out.
* **Workspace.** Four kinds of data share one module because they share the
  request slots, the plan's limit and the removal of dashboards. `placed` and
  `asked` count widgets per dashboard; `Nowhere` holds those whose dashboard is
  gone (ON DELETE SET NULL). The language model and the agent's answer are choices. A
  template's text may hold placeholders `{{key}}`, which are filled from the
  `sageConfig` of the organisation before the job is created: `Filled[t][c]` is the
  text `t` with the values `c`. No code under `src/src` writes `sageConfig`, so any value may
  be found. A deletion drops the intent of its name, where the code drops it by id.
  A plan without a limit of widgets (`dashboards.service.ts:187`) and changes of the
  plan are left out.
* **Support.** Bug numbers are compared as text of at least `Width` digits in base
  `Base`, so that the overflow that takes 1000 bugs a day is within three. A store
  operation may succeed, fail, or leave the file where it was. A report has one
  attachment at most: that the move of several fails midway and the first keep their
  old names in no row (`storage.service.ts:147`, `bugs.service.ts:46`) is left out.
* **JobLifecycleV2.** The moves of the transition table of ADR-003
  (`docs/architecture/ADR-003-job-engine.md:39-51`) and one more, PENDING to FAILED,
  which the code makes and the table does not have (section 4). Only a RUNNING job
  can be answered.

## 3. Runs

| Run | Bounds (distinct states) | Shows |
|---|---|---|
| `MCDataJobV2_safety` | 2 calls, an ordinary query and a certified compared one, 1 worker, 2 sockets, no handler write in flight (1.4 M) | `SingleClaimant`, `AwaitingIsPending`, `ResultsAnswerTheirQuery` |
| `MCDataJobV2_liveness` | 2 workers, 2 calls, 1 query, 1 socket, 1 handler write in flight (0.2 M) | `TypeOK`, `TerminalIsFinal`, `ImplementsLifecycle` (refinement of `JobLifecycleV2`), `CallsReturn`, `ResultsAreErased` |
| `MCAgentJobV1_safety` | 2 calls, 2 queries, 2 answers, 1 socket, limit 1 (1.0 M) | `InsightIsOfResult`, `RepliesAnswerTheirQuery`, `TerminalIsFinal` |
| `MCAgentJobV1_liveness` | 1 call, 2 sockets (63 k) | `JobsEnd`, `CallsReturn` |
| `MCAgentRegistry_tokens` | 1 agent, 2 requests, 3 tokens, overlap until the second, 1 command (0.2 M) | `RetiredTokensStayOut`, `SilentAgentsGoOffline`, `ConnectedTokensAreRenewed` |
| `MCBilling_events` | 2 subscriptions, 2 charges, 2 plans, 1 cancellation (0.4 M) | `AccessIsInvoiced`, `ChargesAreInvoiced`, `CancellationSettles` |
| `MCOnboarding_overlap` | 2 requests (8.3 M) | `StatusIsConsistent`, `CompletedStepsAreSaved`, `AckedStepsStay` |
| `MCMembership_overlap` | 3 addresses, 2 requests, 2 seats (45 k) | `MembersWereInvited`, `SeatsAreRespected` |
| `MCSessions_account` | 2 requests, 2 attempts, 2 accounts one after the other, 2 links (2.1 M) | `GuessesAreBounded`, `UsedLinksStayDead`, `LogoutHolds` |
| `MCAccess_revocation` | an owner in one organisation, an administrator in another, a custom role in each, 2 requests, 2 changes, 3 permissions (0.9 M) | `ServedWereGranted`, `TenantsAreIsolated`, `RevocationTakesEffect` |
| `MCWorkspace_overlap` | 2 users, 3 dashboards, 2 targets, 2 requests at once of 4, a plan of 1 widget, 3 texts of which one has a placeholder (1.1 M) | `OneDefaultDashboard`, `WidgetsWithinPlan`, `TargetsHaveReferences`, `JobsRanTheRecordedText` |
| `MCSupport_files` | 2 days, numbers of 1 digit in base 3, 2 file names, 2 releases, 2 requests at once of 5 (3.2 M) | `AttachmentsAreTheirs`, `LoneReportsAreStored`, `ReleasesHaveFiles`, `OneLatestRelease` |

Several properties hold only outside an overlap the code does not handle. They
then say exactly which one (`alone`, `raced`, `overlap`, `blind`, `torn` are
history that records it), and section 4 says what happens inside it: a property
that excluded more than that would be weaker than the code.

Why these bounds are enough to be interesting. Two calls are what a claim, a
duplicate, an adopted job and a reused result need; the third would only repeat
one of the two roles. Two sockets of one agent give every order of an old
disconnection and a new connection. A compared query is the only case in which
two executions share a job id. Acknowledgements and cancellations between their
read and their write are in the other run: one instance with all of it has more
than 14 million states. What they endanger is the order of the states, which does
not depend on which socket or which of two queries it was. There the second call is
on a worker without the agent: it reads a stored result, leaves the job to the
first call, or ends it in its `catch`; the theorem `FinishedJobsStay` has no such
bounds. Three tokens are the first, its renewal, and a second renewal after the
cool-down of the first; every request that began before the second token goes on
beside those that follow. Two overlapping requests are what a lost update or a
check-then-act needs. Two seats and three addresses put the limit between "one more
fits" and "does not fit". An account created twice with two links is what a link of
the wrong account needs; two changes of roles are a grant and its withdrawal, or a
change by somebody whose own permission was withdrawn. Three numbers in a day reach
past one digit in base 3. Three texts are a template with a placeholder, the text
it becomes once filled in, and an unrelated one: a job cached for one question can
then answer another. The invariants that matter most are proved without bounds
(section 5). Symmetry is used only in runs without temporal properties, over values
that are only compared.

Bounds that are not part of the code: `MaxWrites` (acknowledgements and
cancellations between their read and their update), `MaxTokens` and `MaxShared` (in
AgentRegistry, the tokens after which a request starts only when no other is under
way), `MaxAccounts`, `MaxLinks`, `MaxChanges`, `MaxDashboards`, `MaxTargets`,
`MaxDays`, `MaxReleases`, `MaxRequests`, the finite sets of row ids, charges and
requests.

Deadlock is checked in every run but `MCAccess_revocation`, where nothing is left
to do once both users have been deleted. `Done` in Workspace and Support is the
rest after the last request of the bound.

### Fairness

* DataJobV2: weak fairness for the steps of a call (awaited statements end, and
  the dispatcher's timer bounds the only other await), for clocks, for
  `expireDueJobs` (10 s interval) and `purgeExpired` (60 s). Agents, users and
  connections owe nothing; workers may die at any time.
* AgentJobV1: the same for calls and `cleanupStaleJobs`; strong fairness that the
  retry loop reaches its deadline, since it cannot find the socket missing for
  ever within 15 s.
* AgentRegistry: statements end; the two sweeps run on an interval and compete
  with other requests only in the model's two slots, hence strong fairness;
  cool-downs end (`EX`); restarts do not cut off every sweep before it writes.
* Billing: an outstanding event is delivered until it is acknowledged, and the
  handler does not fail after its commit for ever; a cancellation under way goes
  on.
* Access: the guard's awaits end and Redis keys expire (`EX 300`). Handlers owe
  nothing.
* Onboarding, Membership, Sessions, Workspace, Support: safety only, no fairness.

## 4. Observations

Behaviours the models reach, or that reading the code for them showed, which the
code does nothing to prevent. No property is stated that would deny them; where a
property comes close, it says which of them it leaves out.

Data engine and gateway
* The `catch` of `runQuery` fails a job from any open state whoever throws; a
  duplicate on a worker without agent ends the job another worker is executing
  (`data.service.ts:141`).
* `execute` reads the connected agent again instead of the agent the job was bound
  to when claimed (`data-job-v2.dispatcher.ts:41`; ADR-004 says each job is bound).
* The disconnection of an old socket clears the organisation's presence although
  the route of the new socket is kept (`agents.gateway.ts:98`).
* The same `catch` takes a job from PENDING to FAILED when no agent is connected.
  ADR-003 has no such line: a PENDING job is dispatched, timed out or cancelled
  (`docs/architecture/ADR-003-job-engine.md:41-43`).
* `runQuery` moves a job to RUNNING itself when its result comes without an
  acknowledgement (`data.service.ts:112`). The table of ADR-003 makes it RUNNING by a
  valid `query_acknowledged` only (`:44`); for an early result the ADR asks for one
  transaction that never leaves the job RUNNING (`:53`), where the code writes RUNNING
  and COMPLETED in two statements: after a crash in between only the deadline sweep
  ends the job. In the model the first is `Advance` of the life cycle like any other.
* A crash between INCR and EXPIRE leaves a rate-limit counter without expiry
  (`agents.service.ts:139`).

Registry
* Renewal stores the new token before it is pushed, and the push is not repeated;
  a crash in between locks the agent out (`agents.service.ts:664`).
* A remote command stored between the two statements of `heartbeatV1` is erased
  without having been sent (`agents.service.ts:1203`), and the offline sweep may
  hit an agent that was seen between its own two statements (`:595`).

Billing, onboarding, membership
* The successful charge of a plan whose event lacks its `meta` is answered with 200
  and never invoiced (`flutterwave-webhook.service.ts:103`). `ChargesAreInvoiced`
  speaks of the charges whose event names its organisation.
* Steps 2 and 5 are reported complete without data: an empty body
  (`onboarding.service.ts:136`), invitations that failed (`:297-325`).
* The first charge delivered twice takes the update branch of the upsert and ends
  the trial (`flutterwave-webhook.service.ts:144`).
* A charge delivered after the cancellation of its subscription reactivates it
  (`flutterwave-webhook.service.ts:159`); a monthly charge lifts a scheduled
  cancellation (`:162`); an immediate cancellation without a provider id is only
  scheduled (`billing.service.ts:219`); the row is written by organisation after
  the provider's answer, so a subscription paid meanwhile is marked cancelled
  (`billing.service.ts:227`).
* `completeStep` writes a whole array computed from an older read; of two
  overlapping requests that both report success one step can be lost
  (`onboarding.service.ts:52`).
* Two overlapping invitations can both take the last seat
  (`license-guardian.service.ts:76`); a crash in `register` leaves an invitation
  used without a user (`auth.service.ts:112`); an expired invitation refuses a new
  one for the same address (`auth.service.ts:521`).

Sessions
* All refresh tokens of a user agree in the 72 bytes bcrypt reads: any unexpired
  one opens whatever session is stored. A refresh past its comparison opens the
  session again after a logout; a password reset closes no session.
* A right password compared before the lock-out but handled after it removes the
  lock (`auth.service.ts:313`).
* `createClientAccount` stores the setup token as it is while `resetPassword` looks
  for its hash: that link never opens.
* `login` looks the address up in lower case; `signup`, `register` and `createUser`
  store it as typed.

Roles and permissions
* `POST /agents/query` asks for `manage:dashboards`, which the seed does not define
  (`docs/backend/modules/roles.md:77`, `docs/guides/users.md:202` name it); owner
  and daf lack `read:users` and `read:roles` (`roles.md:73`); `read:nlq` and
  `write:nlq` are seeded and asked for by no route.
* The patterns of the audit interceptor lack the global prefix `api`
  (`main.ts:179`) and match no request (`docs/backend/security.md:600`).
* `updateTeamUser` lets an owner drop the own roles.

Workspace
* A session stores the text of its template as it is (`nlq.service.ts:272`), its job
  the text with the placeholders filled (`agents.service.ts:845-907`). Nobody can tell
  from the session which database was asked, and a placeholder whose key
  `sageConfig` lacks is sent to the agent as `{{key}}`
  (`docs/backend/modules/nlq.md:25` shows `{{database_name}}`).
* Two requests for a default dashboard at once leave two; `addToDashboard` ignores
  `maxWidgets`; the widgets of a removed dashboard still count and cannot be
  removed; of two toggles of a template at once one is lost.
* `update({deltaReference: null})` on a target in percent stores null, because `??`
  takes the old reference for the check and the column gets the new one.
* A crash during a question leaves its session `pending`; the status `disabled` is
  written although the schema's comment does not list it.

Support
* Bug ids are ordered as text. Once a day reaches number 1000, the last id remains
  999: every further report is given 1000, overwrites its attachment and fails on
  the unique id. Two reports at once are given one number as well.
* `assign(null)` is accepted for a resolved bug; accepted between the check and the
  write of `updateStatus` (`bugs.service.ts:185`) it leaves a resolved bug without
  assignee.
* `setLatest` resets the releases of every architecture of the platform; deleting
  one of two releases with one file name removes the file of the other;
  `confirmRelease` does not look whether the file is there;
  `migrateLocalToMinio` rewrites addresses without moving files.

Notifications and health
* The alert that the database is down is stored in the database. Cool-downs (15
  minutes for an outage, an hour for a recovery) are kept per worker in memory:
  after a short outage a lasting one can stay silent, and several workers each
  send their own.

## 5. Proofs

TLAPS proves, for every value of the constants:

| Theorem | Statement | Inductive invariant beyond the type |
|---|---|---|
| `DataJobV2Proofs!ClaimIsExclusive` | `[]SingleClaimant` | a call that works on a job names it; a row is inserted once, by its call; an owned job is past PENDING. With these, the conditional update from PENDING can succeed only when nobody owns the job |
| `DataJobV2Proofs!PromisesAreKept` | `[]AwaitingIsPending` | the same, with `SingleClaimant`: a second entry for the job would need a second owner |
| `DataJobV2Proofs!FinishedJobsStay` | `TerminalIsFinal` | every write of the table is `Moved` under `Matches`, the insert, or the sweep of open rows |
| `AgentRegistryProofs!RetirementIsFinal` | `[]RetiredTokensStayOut` | every token in use was generated; a token waiting to be stored is in no row, in no other request and not retired (one that is never stored is retired when its request ends); no two rows share a token. Needed because a request stores a token it generated several steps before |
| `OrganisationProofs!AcknowledgedStepsStay` | `[]AckedStepsStay` | every snapshot held by a request contains the acknowledged steps. A request's step goes on record only when no other request holds a snapshot, which is what makes this inductive: no older snapshot is left that could write the row back |
| `OrganisationProofs!StatusStaysConsistent`, `CompletedStepsAreBacked` | `[]StatusIsConsistent`, `[]CompletedStepsAreSaved` | every snapshot held by a request is as good as the row was, and what backs a step (1, 3 or 4; steps 2 and 5 need nothing) never goes away |
| `OrganisationProofs!OnlyTheInvitedJoin` | `[]MembersWereInvited` | a registration about to create its user has marked its invitation, and nothing un-marks one |
| `OrganisationProofs!SeatsFitThePlan` | `[]SeatsAreRespected` | without overlap one request is under way at most; the users it counted are not fewer than there are, the seat it is about to take is free, or is already its own. Deletion, expiry and crashes between its statements only free seats |
| `OrganisationProofs!AccessStaysInvoiced` | `[]AccessIsInvoiced` | a charge event on its way is of a charge that was made; without a subscription nothing is known of one and nothing is invoiced; a cancellation under way began with a subscription, and calls the provider for one it knows; what the provider sold has a plan. Events may be repeated and overtake one another, so a charge reaches a row it need not have been made for |
| `WorkspaceProofs!DefaultsStaySingle` | `[]OneDefaultDashboard` | a request that chooses a default and is alone is the only one of its user, and finds no other default once it has reset them; it chooses a dashboard of its user; a dashboard keeps its owner; a free row is left for every insert under way |
| `WorkspaceProofs!WidgetsStayWithinPlan` | `[]WidgetsWithinPlan` | a count: the widgets of `addWidget` and the requests that have counted but not inserted are together at most the plan and one less than the requests. Removing a dashboard moves its widgets, which is shown with a surjection between the rows of the two tables |
| `WorkspaceProofs!TargetsKeepReferences` | `[]TargetsHaveReferences` | what an update checked still holds of the row it read, so it holds of the row it writes when nobody changed that row |
| `WorkspaceProofs!RecordedTextsRan` | `[]JobsRanTheRecordedText` | questions under way have sessions of their own, without text so far; the job a question was answered by ran a filling of the text that is about to be recorded; jobs are never changed |
| `DataJobV2Proofs!ResultsAreAnswers` | `[]ResultsAnswerTheirQuery` | a job keeps its query; the rows a call has received were sent for its job and the execution it waits for; what is on its way or pending carries the same job, query and sequence |
| `DataJobV2Proofs!LifecycleSafety` | `Lifecycle!Safe` | the refinement: each write of the job table is a step of `JobLifecycleV2`, or changes nothing it sees. Uses the type invariant, that a row is inserted once, and that a job whose call has gone on to complete it is no longer DISPATCHED, because the version the call read of it before it made it RUNNING was current |
| `AgentJobV1Proofs!InsightsAreOfResults`, `RepliesAreAnswers` | `[]InsightIsOfResult`, `[]RepliesAnswerTheirQuery` | rows are inserted once; a completed job was sent to an agent; a reply keeps the SQL and the job it was made from |
| `AgentJobV1Proofs!FinishedJobsStay` | `TerminalIsFinal` | every update is conditional on an open status |
| `SessionsProofs!LinksAreUsedOnce` | `[]UsedLinksStayDead` | links are numbered in the order of issue, the one on file and those in the hands of a request were issued for the account they name, and a used one is not on file |
| `SessionsProofs!LogoutIsFinal` | `[]LogoutHolds` | while the logout holds, no request is at a statement that opens a session |
| `SessionsProofs!GuessesBounded` | `[]GuessesAreBounded` | a count: the wrong passwords of the window are those the counter has, those of requests that have not counted theirs, and no more than the requests allow once the lock has fallen |
| `AccessProofs!ServedHadPermission` | `[]ServedWereGranted` | the history contains what every user has now, what the cache holds and what a guard has read |
| `AccessProofs!TenantsStayIsolated` | `TenantsAreIsolated` | from the same invariant: the writer is past its guard, and the handler's own check or the back office's permission ties it to the row. The deletion of a role is the one step that reaches users of another organisation, by the cascade on their links: it takes that role from them and nothing else, and is made by the role's own organisation or the back office |
| `SupportProofs!AttachmentsStay`, `LoneNumbersAreFree` | `[]AttachmentsAreTheirs`, `[]LoneReportsAreStored` | a lone report is the only one being filed; while numbers have `Width` digits the number after the last id, in the order of texts, is not taken; nobody files under the id of a bug that was filed alone; what a lone report moved is where it moved it; numbers do not run ahead of the reports |
| `SupportProofs!FilesStay` | `[]ReleasesHaveFiles` | a file name used once is that of one row or of one upload under way, never both; a file is erased after its row, stored before it; a free row is left for every upload under way |
| `SupportProofs!LatestStaysUnique` | `[]OneLatestRelease` | a choice that is alone is the only one, and finds no latest release when it comes to mark its own |
| `...!TypeCorrect` of every component | `[]TypeOK`, `[]BillingTypeOK`, `[]WizardTypeOK` | |

Each proof has the shape `Init => IInv`, `IInv /\ [Next]_vars => IInv'`,
`IInv => Inv`, with one step or one lemma per action; the invariants were checked
with TLC on the instances of section 3 before they were proved. Where many actions
touch one part of the state, a lemma first says what a step can do to that part
(`TableKeeps`, `LinkMoves`, `BugsAreLeft`, `SeatsAreLeft`, and the three frames of
Workspace, whose parts share only the request slots), and the invariant is
proved from that. What Support needs of numbers (a bounded set has a greatest
element, hence some id is the last one) rests on the library's well-foundedness of
the naturals.

The assumptions are the named ones in the modules: the constants have the right
kinds, and null is not one of their values (`DataJobAssumption`, `NoneAssumption`,
`AgentJobAssumption`, `RegistryAssumption`, `MembershipAssumption`,
`BillingAssumption`, `SessionsAssumption`, `AccessAssumption`, `SupportAssumption`,
`NoBugAssumption`, `WorkspaceAssumption`). Where something is counted it is finite:
the addresses of Membership, the requests of Sessions, Support and Workspace. TLC evaluates them in the runs.

Every safety property of the runs has its theorem. Only model-checked are liveness
and everything under fairness, which the proof system does not reach:
`CallsReturn`, `JobsEnd`, `ResultsAreErased`, `SilentAgentsGoOffline`,
`ConnectedTokensAreRenewed`, `ChargesAreInvoiced`, `CancellationSettles`,
`RevocationTakesEffect`, and the liveness part of `ImplementsLifecycle`.

Sums are counted as sets so that they can be proved about: `Total` of Workspace is
the number of rows of a table of widgets. A fold over the dashboards would need an
induction over data, which the provers do not do.

## 6. How the project grew

In this order, because a wrong answer or a stuck query is the worst the system can
do: DataJobV2 with its abstract specification and proofs, AgentJobV1, AgentRegistry
and proofs, Billing, Onboarding and proofs, Membership and proofs; then Sessions,
Routes and Access, Workspace, Support; then the proofs of AgentJobV1, Sessions,
Access, Support, of the answers and the lifecycle of the data engine, and of the
seats; last those of Billing and Workspace.

What would come next is more of the model: the cool-downs of the notifications, and
a cancellation that meets a new subscription (`billing.service.ts:227`).

## 7. Not modelled

* The query planner, the semantic registry and the result policy: functions from a
  request to SQL text and from rows to rows, over dates and strings. DataJobV2 sees
  a plan as a fingerprint with one or two executions; a model of the text would be
  the code again.
* Notifications, health monitor and job registry: they report what others do, and
  no decision of the system reads them back.
* Audit, logs, mail and its templates, statistics and reports: output. Audit and
  mail that follow a handler's last write are left out of its action.
* Single-statement administration without a constraint across rows: plans, the
  catalogues of KPIs, packs and widget templates, demo requests, comments of bugs.
* Encryption of results, the content of rows and insights, wording of errors, HTTP
  validation and rate limits of the HTTP layer, seeding beyond roles, migrations.

## 8. Running

    tlc -workers 2 -config MCDataJobV2_safety.cfg MCDataJobV2
    tlapm DataJobV2Proofs.tla
