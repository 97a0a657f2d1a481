----------------------------- MODULE Workspace -----------------------------
(***************************************************************************)
(* What the users of one organisation arrange for themselves: dashboards   *)
(* and their widgets (DashboardsService), targets (TargetsService) and     *)
(* questions in natural language (NlqService), whose answers become        *)
(* widgets, beside the administrator who edits the SQL template behind the *)
(* questions (AdminService).                                               *)
(*                                                                         *)
(* None of these handlers is a transaction.  One action is one statement   *)
(* with the code up to the next await; a read and a write by id that       *)
(* nothing can come between to change the outcome are one action.          *)
(* Names, layouts, positions and values are left out, and so is what only  *)
(* those change (updateWidget, the rest of update).                        *)
(***************************************************************************)
EXTENDS Naturals, Sequences, FiniteSets, FiniteSetsExt

CONSTANTS
  Users, Requests,
  Years,          \* years of the targets of one KPI, period and scenario
  Sql,            \* texts of a template
  Placeholder,    \* the text that starts with "--"
  Configs,        \* values of sageConfig, null included
  Filled,         \* Filled[t][c]: text t with every {{key}} of c replaced
  PlanWidgets,    \* maxWidgets of the organisation's plan
  MaxDashboards,  \* bound: dashboards created
  MaxTargets,     \* bound: targets created
  MaxRequests,    \* bound: requests made
  None

ASSUME WorkspaceAssumption ==
  /\ Placeholder \in Sql /\ DOMAIN Filled = Sql
  /\ None \notin Sql /\ None \notin Users /\ None \notin Years
  /\ None \notin {"given", "null", "ABSOLUTE", "DELTA_PERCENT"}
  /\ IsFiniteSet(Requests) /\ Requests # {}
  /\ {PlanWidgets, MaxDashboards, MaxTargets, MaxRequests} \subseteq Nat

VARIABLES
  dash,      \* table dashboards
  placed,    \* placed[d]: widgets of addWidget on dashboard d, or Nowhere
  asked,     \* asked[d]: widgets of addToDashboard, likewise
  targets,   \* table targets
  intent,    \* the intent of the questions exists
  template,  \* its template for the organisation's Sage
  sessions,  \* table nlq_sessions
  jobs,      \* SQL of the jobs that were executed: finalSql
  reqs,      \* requests under way
  made,      \* requests made so far
  raced      \* history: users whose last choice of a default was disturbed

board == <<dash, placed, asked, raced>>
nlq == <<intent, template, sessions, jobs>>
vars == <<board, targets, nlq, reqs, made>>

Dashboards == 1..MaxDashboards
Nowhere == 0     \* dashboardId null: the dashboard is gone
Lives == {"none", "here", "gone"}

Dashboard == [life : Lives, owner : Users \cup {None}, isDefault : BOOLEAN]
\* ref: deltaReference is not null.  torn: history, see WriteTarget.
Target == [life : Lives, year : Years \cup {None},
           type : {"ABSOLUTE", "DELTA_PERCENT"}, ref : BOOLEAN,
           torn : BOOLEAN]
Template == [id : Nat, sql : Sql, active : BOOLEAN]
FinalSql == {Filled[t][c] : t \in Sql, c \in Configs}
Session == [status : {"pending", "no_intent", "disabled", "success", "error"},
            sql : Sql \cup {None}, job : Nat]
\* What an update of a target asks for: no field is required, and the
\* reference may be null.
TargetDto == [type : {"ABSOLUTE", "DELTA_PERCENT", None},
              ref : {"given", "null", None}, year : Years \cup {None}]

Idle == [pc |-> "idle"]
Request ==
  {Idle}
  \cup [pc : {"insert"}, user : Users, alone : BOOLEAN]
  \cup [pc : {"reset", "mark"}, user : Users, alone : BOOLEAN, id : Dashboards]
  \cup [pc : {"add"}, id : Dashboards]
  \cup [pc : {"target"}, id : 1..MaxTargets, dto : TargetDto, seen : Target]
  \cup [pc : {"classify"}, seen : BOOLEAN]
  \cup [pc : {"check", "get"}, id : Nat]
  \cup [pc : {"run"}, id : Nat, sql : Sql]
  \cup [pc : {"record"}, id : Nat, sql : Sql, job : Nat]
  \cup [pc : {"toggle"}, id : Nat, to : BOOLEAN]
  \cup [pc : {"drop"}]

TypeOK ==
  /\ dash \in [Dashboards -> Dashboard]
  /\ {placed, asked} \subseteq [Dashboards \cup {Nowhere} -> Nat]
  /\ \A d \in Dashboards : dash[d].life # "here" => placed[d] + asked[d] = 0
  /\ targets \in [1..MaxTargets -> Target]
  /\ intent \in BOOLEAN
  /\ template \in Template \cup {None}
  /\ template # None => intent
  /\ sessions \in Seq(Session)
  /\ jobs \in Seq(FinalSql)
  /\ reqs \in [Requests -> Request]
  /\ made \in 0..MaxRequests
  /\ raced \subseteq Users

NoTarget == [life |-> "none", year |-> None, type |-> "ABSOLUTE",
             ref |-> FALSE, torn |-> FALSE]

\* Somebody has a dashboard, and the intent has a template.
Init ==
  /\ \E u \in Users :
       dash = [d \in Dashboards |->
                 [life |-> IF d = 1 THEN "here" ELSE "none", isDefault |-> FALSE,
                  owner |-> IF d = 1 THEN u ELSE None]]
  /\ placed = [d \in Dashboards \cup {Nowhere} |-> 0]
  /\ asked = placed
  /\ targets = [t \in 1..MaxTargets |-> NoTarget]
  /\ intent = TRUE
  /\ template \in [id : {0}, sql : Sql, active : {TRUE}]
  /\ sessions = <<>> /\ jobs = <<>>
  /\ reqs = [r \in Requests |-> Idle]
  /\ made = 0
  /\ raced = {}

Here(t) == {i \in DOMAIN t : t[i].life = "here"}
Free(t) == {i \in DOMAIN t : t[i].life = "none"}

\* A request is made, within the bound.
Count == made < MaxRequests /\ made' = made + 1
Begin(r, locals) ==
  Count /\ reqs[r] = Idle /\ reqs' = [reqs EXCEPT ![r] = locals]
Goto(r, pc) == reqs' = [reqs EXCEPT ![r].pc = pc] /\ UNCHANGED made
Finish(r) == reqs' = [reqs EXCEPT ![r] = Idle] /\ UNCHANGED made

----------------------------------------------------------------------------
(* Dashboards                                                              *)

\* The requests that are about to give user u a default dashboard.
Choosing(u) == {r \in Requests : /\ reqs[r].pc \in {"insert", "reset", "mark"}
                                 /\ reqs[r].user = u}
\* Such a request begins; the others of the user are no longer alone.
BeginChoice(r, u, locals) ==
  /\ Count /\ reqs[r] = Idle
  /\ reqs' = [q \in Requests |->
                CASE q = r -> locals
                  [] q \in Choosing(u) -> [reqs[q] EXCEPT !.alone = FALSE]
                  [] OTHER -> reqs[q]]
\* It has made its choice.
Chosen(r) == raced' = IF reqs[r].alone THEN raced \ {reqs[r].user}
                      ELSE raced \cup {reqs[r].user}

\* updateMany: the dashboards of u except those in keep are no default.
ResetDefaults(u, keep) ==
  dash' = [d \in Dashboards |->
             IF dash[d].owner = u /\ d \notin keep
               THEN [dash[d] EXCEPT !.isDefault = FALSE] ELSE dash[d]]

NewDashboard(u, default) ==
  [dash EXCEPT ![Min(Free(dash))] =
     [life |-> "here", owner |-> u, isDefault |-> default]]
Room == Cardinality(Free(dash))
          > Cardinality({r \in Requests : reqs[r].pc = "insert"})

\* create without isDefault is one insert.
Create(u) ==
  /\ Count /\ Room
  /\ dash' = NewDashboard(u, FALSE)
  /\ UNCHANGED <<placed, asked, raced, targets, nlq, reqs>>

\* With isDefault the other dashboards of the user are reset first ...
CreateDefault(r, u) ==
  /\ Room
  /\ BeginChoice(r, u, [pc |-> "insert", user |-> u,
                        alone |-> Choosing(u) = {}])
  /\ ResetDefaults(u, {})
  /\ UNCHANGED <<placed, asked, raced, targets, nlq>>

\* ... and the new one is inserted.
Insert(r) ==
  /\ reqs[r].pc = "insert"
  /\ dash' = NewDashboard(reqs[r].user, TRUE)
  /\ Chosen(r) /\ Finish(r)
  /\ UNCHANGED <<placed, asked, targets, nlq>>

\* Mutant: the other dashboards are not reset.
UpdateDefaultOnly(r, d) ==
  LET u == dash[d].owner IN
  /\ dash[d].life = "here"
  /\ BeginChoice(r, u, [pc |-> "mark", user |-> u, id |-> d,
                        alone |-> Choosing(u) = {}])
  /\ UNCHANGED <<board, targets, nlq>>

\* update with isDefault reads the dashboard, which must be the user's ...
UpdateDefault(r, d) ==
  LET u == dash[d].owner IN
  /\ dash[d].life = "here"
  /\ BeginChoice(r, u, [pc |-> "reset", user |-> u, id |-> d,
                        alone |-> Choosing(u) = {}])
  /\ UNCHANGED <<board, targets, nlq>>

\* ... resets the others ...
Reset(r) ==
  /\ reqs[r].pc = "reset"
  /\ ResetDefaults(reqs[r].user, {reqs[r].id})
  /\ Goto(r, "mark")
  /\ UNCHANGED <<placed, asked, raced, targets, nlq>>

\* ... and updates by id, which fails if the dashboard was removed.
Mark(r) ==
  /\ reqs[r].pc = "mark"
  /\ IF dash[reqs[r].id].life = "here"
       THEN /\ dash' = [dash EXCEPT ![reqs[r].id].isDefault = TRUE]
            /\ Chosen(r)
       ELSE UNCHANGED <<dash, raced>>
  /\ Finish(r)
  /\ UNCHANGED <<placed, asked, targets, nlq>>

\* isDefault false.
UpdateOrdinary(d) ==
  /\ Count /\ dash[d].isDefault
  /\ dash' = [dash EXCEPT ![d].isDefault = FALSE]
  /\ UNCHANGED <<placed, asked, raced, targets, nlq, reqs>>

\* By its owner, or by an administrator (deleteDashboard).  The widgets
\* stay: their foreign key is ON DELETE SET NULL.
Remove(d) ==
  /\ Count /\ dash[d].life = "here"
  /\ dash' = [dash EXCEPT ![d].life = "gone", ![d].isDefault = FALSE]
  /\ placed' = [placed EXCEPT ![Nowhere] = @ + placed[d], ![d] = 0]
  /\ asked' = [asked EXCEPT ![Nowhere] = @ + asked[d], ![d] = 0]
  /\ UNCHANGED <<raced, targets, nlq, reqs>>

----------------------------------------------------------------------------
(* Widgets                                                                 *)

\* The rows of a table of widgets: the k-th one of each dashboard.
WidgetRows(w) == UNION {{d} \X (1..w[d]) : d \in DOMAIN w}
Total(w) == Cardinality(WidgetRows(w))

\* Mutant: the limit is compared as if it could be exceeded by one.
AddWidgetOffByOne(r, d) ==
  /\ dash[d].life = "here"
  /\ Total(placed) + Total(asked) <= PlanWidgets
  /\ Begin(r, [pc |-> "add", id |-> d])
  /\ UNCHANGED <<board, targets, nlq>>

\* All widgets of the organisation are counted, also those of removed
\* dashboards; at the limit the request is refused.
AddWidget(r, d) ==
  /\ dash[d].life = "here"
  /\ Total(placed) + Total(asked) < PlanWidgets
  /\ Begin(r, [pc |-> "add", id |-> d])
  /\ UNCHANGED <<board, targets, nlq>>

\* The foreign key refuses a dashboard that is gone by now.
CreateWidget(r) ==
  /\ reqs[r].pc = "add"
  /\ placed' = IF dash[reqs[r].id].life = "here"
                 THEN [placed EXCEPT ![reqs[r].id] = @ + 1] ELSE placed
  /\ Finish(r)
  /\ UNCHANGED <<dash, asked, raced, targets, nlq>>

\* Found only by the dashboard it is on.
RemoveWidget(d) ==
  /\ Count
  /\ \/ /\ placed[d] > 0
        /\ placed' = [placed EXCEPT ![d] = @ - 1] /\ UNCHANGED asked
     \/ /\ asked[d] > 0
        /\ asked' = [asked EXCEPT ![d] = @ - 1] /\ UNCHANGED placed
  /\ UNCHANGED <<dash, raced, targets, nlq, reqs>>

\* A session that executed SQL becomes a widget, whatever the plan says.
AddToDashboard(s, d) ==
  /\ Count
  /\ sessions[s].status = "success" /\ sessions[s].sql # None
  /\ dash[d].life = "here"
  /\ asked' = [asked EXCEPT ![d] = @ + 1]
  /\ UNCHANGED <<dash, placed, raced, targets, nlq, reqs>>

----------------------------------------------------------------------------
(* Targets                                                                 *)

\* The upsert of create, keyed by the year (organisation, KPI, period and
\* scenario being given).
CreateTarget(year, type, ref) ==
  /\ Count
  /\ type = "DELTA_PERCENT" => ref
  /\ LET old == {t \in Here(targets) : targets[t].year = year}
         new == [life |-> "here", year |-> year, type |-> type, ref |-> ref,
                 torn |-> FALSE]
     IN /\ old # {} \/ Free(targets) # {}
        /\ targets' = [targets EXCEPT
             ![IF old # {} THEN Min(old) ELSE Min(Free(targets))] = new]
  /\ UNCHANGED <<board, nlq, reqs>>

\* dto.x ?? target.x, and what the update then writes.
NewType(dto, row) == IF dto.type = None THEN row.type ELSE dto.type
NewReference(dto, row) == dto.ref = "given" \/ row.ref
Written(dto, row) ==
  [row EXCEPT !.type = NewType(dto, row),
              !.ref = IF dto.ref = None THEN @ ELSE dto.ref = "given",
              !.year = IF dto.year = None THEN @ ELSE dto.year]

\* Mutant: the type the row had is checked, not the one it will have.
UpdateTargetOldType(r, t, dto) ==
  /\ targets[t].life = "here"
  /\ targets[t].type = "DELTA_PERCENT" => NewReference(dto, targets[t])
  /\ Begin(r, [pc |-> "target", id |-> t, dto |-> dto, seen |-> targets[t]])
  /\ UNCHANGED <<board, targets, nlq>>

\* update checks the row it read together with the request ...
UpdateTarget(r, t, dto) ==
  /\ targets[t].life = "here"
  /\ NewType(dto, targets[t]) = "DELTA_PERCENT" => NewReference(dto, targets[t])
  /\ Begin(r, [pc |-> "target", id |-> t, dto |-> dto, seen |-> targets[t]])
  /\ UNCHANGED <<board, targets, nlq>>

\* ... and writes the fields of the request, unless the row is gone or its
\* new year is taken.  torn: the row had changed since, or the reference
\* was set to null.
WriteTarget(r) ==
  LET q == reqs[r] IN
  /\ q.pc = "target"
  /\ LET row == targets[q.id]
         new == [Written(q.dto, row) EXCEPT
                   !.torn = q.dto.ref = "null" \/ row # q.seen]
     IN targets' =
          IF /\ row.life = "here"
             /\ \A t \in Here(targets) \ {q.id} : targets[t].year # new.year
            THEN [targets EXCEPT ![q.id] = new] ELSE targets
  /\ Finish(r)
  /\ UNCHANGED <<board, nlq>>

RemoveTarget(t) ==
  /\ Count /\ targets[t].life = "here"
  /\ targets' = [targets EXCEPT ![t] = [NoTarget EXCEPT !.life = "gone"]]
  /\ UNCHANGED <<board, nlq, reqs>>

----------------------------------------------------------------------------
(* Questions                                                               *)

\* processQuery reads the intents and asks the language model ...
ProcessQuery(r) ==
  /\ Begin(r, [pc |-> "classify", seen |-> intent])
  /\ UNCHANGED <<board, targets, nlq>>

NewSession(status) ==
  sessions' = Append(sessions, [status |-> status, sql |-> None, job |-> 0])

\* ... which, or else the keywords, find the intent or nothing.  An intent
\* deleted meanwhile violates the session's foreign key.
CreateSession(r) ==
  /\ reqs[r].pc = "classify"
  /\ \/ NewSession("no_intent") /\ Finish(r)
     \/ /\ reqs[r].seen /\ intent
        /\ NewSession("pending")
        /\ reqs' = [reqs EXCEPT ![r] = [pc |-> "check",
                                        id |-> Len(sessions) + 1]]
        /\ UNCHANGED made
     \/ reqs[r].seen /\ ~intent /\ Finish(r) /\ UNCHANGED sessions
  /\ UNCHANGED <<board, targets, intent, template, jobs>>

\* The request ends with its session in the given status.
Settle(r, status) ==
  /\ sessions' = [sessions EXCEPT ![reqs[r].id].status = status]
  /\ Finish(r)

\* A disabled template and a placeholder settle the session at once.
CheckTemplate(r) ==
  /\ reqs[r].pc = "check"
  /\ IF template # None /\ ~template.active THEN Settle(r, "disabled")
     ELSE IF template # None /\ template.sql = Placeholder
       THEN Settle(r, "success")
     ELSE Goto(r, "get") /\ UNCHANGED sessions
  /\ UNCHANGED <<board, targets, intent, template, jobs>>

\* The template is read again, and must still be there and active.
GetTemplate(r) ==
  /\ reqs[r].pc = "get"
  /\ IF template = None \/ ~template.active THEN Settle(r, "error")
     ELSE /\ reqs' = [reqs EXCEPT ![r] = [pc |-> "run", id |-> reqs[r].id,
                                          sql |-> template.sql]]
          /\ UNCHANGED <<sessions, made>>
  /\ UNCHANGED <<board, targets, intent, template, jobs>>

Recording(r, job) ==
  /\ reqs' = [reqs EXCEPT ![r] = [pc |-> "record", id |-> @.id, sql |-> @.sql,
                                  job |-> job]]
  /\ UNCHANGED <<sessions, made>>

\* With the values of c filled in, the job of an earlier query for the same
\* SQL is returned, or one is executed.
ReturnJob(r, c) ==
  LET finalSql == Filled[reqs[r].sql][c] IN
  \/ /\ \E j \in DOMAIN jobs : jobs[j] = finalSql /\ Recording(r, j)
     /\ UNCHANGED jobs
  \/ jobs' = Append(jobs, finalSql) /\ Recording(r, Len(jobs) + 1)

\* executeRealTimeQuery (module AgentJobV1) throws, or returns a job.  No code
\* here writes sageConfig: it may be any at any time.
Execute(r) ==
  /\ reqs[r].pc = "run"
  /\ (Settle(r, "error") /\ UNCHANGED jobs) \/ \E c \in Configs : ReturnJob(r, c)
  /\ UNCHANGED <<board, targets, intent, template>>

\* Mutant: the template is read once more for the session.
RecordCurrent(r) ==
  /\ reqs[r].pc = "record"
  /\ sessions' = [sessions EXCEPT ![reqs[r].id] =
                    [status |-> "success", job |-> reqs[r].job,
                     sql |-> IF template = None THEN None ELSE template.sql]]
  /\ Finish(r)
  /\ UNCHANGED <<board, targets, intent, template, jobs>>

\* The session keeps the text of the template and the job; the history in Redis follows.
Record(r) ==
  /\ reqs[r].pc = "record"
  /\ sessions' = [sessions EXCEPT ![reqs[r].id] =
                    [status |-> "success", job |-> reqs[r].job,
                     sql |-> reqs[r].sql]]
  /\ Finish(r)
  /\ UNCHANGED <<board, targets, intent, template, jobs>>

----------------------------------------------------------------------------
(* The administrator's side of the questions                               *)

CreateNlqIntent ==
  /\ Count /\ ~intent
  /\ intent' = TRUE
  /\ UNCHANGED <<board, targets, template, sessions, jobs, reqs>>

\* The templates go first ...
DeleteNlqIntent(r) ==
  /\ intent
  /\ template' = None
  /\ Begin(r, [pc |-> "drop"])
  /\ UNCHANGED <<board, targets, intent, sessions, jobs>>

\* ... then the intent, with a template created meanwhile (ON DELETE CASCADE);
\* sessions keep a null intent.
DropIntent(r) ==
  /\ reqs[r].pc = "drop"
  /\ intent' = FALSE /\ template' = None
  /\ Finish(r)
  /\ UNCHANGED <<board, targets, sessions, jobs>>

CreateNlqTemplate(sql) ==
  /\ Count /\ intent /\ template = None
  /\ template' = [id |-> made + 1, sql |-> sql, active |-> TRUE]
  /\ UNCHANGED <<board, targets, intent, sessions, jobs, reqs>>

UpdateNlqTemplate(sql) ==
  /\ Count /\ template # None
  /\ template' = [template EXCEPT !.sql = sql]
  /\ UNCHANGED <<board, targets, intent, sessions, jobs, reqs>>

DeleteNlqTemplate ==
  /\ Count /\ template # None
  /\ template' = None
  /\ UNCHANGED <<board, targets, intent, sessions, jobs, reqs>>

\* The row is read ...
ToggleNlqTemplate(r) ==
  /\ template # None
  /\ Begin(r, [pc |-> "toggle", id |-> template.id, to |-> ~template.active])
  /\ UNCHANGED <<board, targets, nlq>>

\* ... and its negation stored, if that row is still there.
StoreToggle(r) ==
  /\ reqs[r].pc = "toggle"
  /\ template' = IF template # None /\ template.id = reqs[r].id
                   THEN [template EXCEPT !.active = reqs[r].to] ELSE template
  /\ Finish(r)
  /\ UNCHANGED <<board, targets, intent, sessions, jobs>>

----------------------------------------------------------------------------

\* The worker dies, or the connection to the database does.
Crash(r) ==
  /\ reqs[r] # Idle
  /\ Finish(r)
  /\ UNCHANGED <<board, targets, nlq>>

Dashboarding ==
  \/ \E u \in Users : Create(u) \/ \E r \in Requests : CreateDefault(r, u)
  \/ \E d \in Dashboards :
       \/ UpdateOrdinary(d) \/ Remove(d) \/ RemoveWidget(d)
       \/ \E r \in Requests : UpdateDefault(r, d) \/ AddWidget(r, d)
       \/ \E s \in DOMAIN sessions : AddToDashboard(s, d)
  \/ \E r \in Requests : Insert(r) \/ Reset(r) \/ Mark(r) \/ CreateWidget(r)

Targeting ==
  \/ \E y \in Years, ref \in BOOLEAN :
       \E type \in {"ABSOLUTE", "DELTA_PERCENT"} : CreateTarget(y, type, ref)
  \/ \E t \in DOMAIN targets :
       \/ RemoveTarget(t)
       \/ \E r \in Requests, dto \in TargetDto : UpdateTarget(r, t, dto)
  \/ \E r \in Requests : WriteTarget(r)

Asking ==
  \/ \E r \in Requests : \/ ProcessQuery(r) \/ CreateSession(r)
                         \/ CheckTemplate(r) \/ GetTemplate(r)
                         \/ Execute(r) \/ Record(r)
                         \/ ToggleNlqTemplate(r) \/ StoreToggle(r)
                         \/ DeleteNlqIntent(r) \/ DropIntent(r)
  \/ CreateNlqIntent \/ DeleteNlqTemplate
  \/ \E sql \in Sql : CreateNlqTemplate(sql) \/ UpdateNlqTemplate(sql)

\* Every request the bound allows was made and has ended.
Done == made = MaxRequests /\ (\A r \in Requests : reqs[r] = Idle) /\ UNCHANGED vars

Next ==
  \/ Dashboarding \/ Targeting \/ Asking
  \/ \E r \in Requests : Crash(r)
  \/ Done

Spec == Init /\ [][Next]_vars

----------------------------------------------------------------------------
(* Properties                                                              *)

\* A user has at most one default dashboard, unless the last requests that
\* gave one were under way together (create and update reset the others in a
\* statement of their own).  One request made alone repairs that, also when
\* dashboards are removed and workers die meanwhile.
OneDefaultDashboard ==
  \A u \in Users \ raced :
    Cardinality({d \in Dashboards : dash[d].owner = u /\ dash[d].isDefault}) <= 1

\* addWidget counts before it inserts.  Requests under way together exceed
\* the plan by less than one widget each, never more: not by removing
\* dashboards, whose widgets stay and count, nor by adding questions, which
\* only leave less room.
WidgetsWithinPlan ==
  Total(placed) <= PlanWidgets + Cardinality(Requests) - 1

\* A target in percent names what it is compared with.  Only an update that
\* sets the reference to null, or one whose row another request changed
\* after it was checked, gets around that.
TargetsHaveReferences ==
  \A t \in Here(targets) :
    targets[t].type = "DELTA_PERCENT" /\ ~targets[t].torn => targets[t].ref

\* A session that ended with SQL keeps the text of a template, not the SQL
\* that ran; but that text, with the values of the organisation filled in, is
\* what its job ran, although the administrator may edit, switch off or delete
\* the template at any time and the job may be that of another question.
JobsRanTheRecordedText ==
  \A s \in DOMAIN sessions :
    sessions[s].sql # None =>
      /\ sessions[s].status = "success"
      /\ sessions[s].job \in DOMAIN jobs
      /\ \E c \in Configs : jobs[sessions[s].job] = Filled[sessions[s].sql][c]
============================================================================
