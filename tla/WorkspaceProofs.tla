--------------------------- MODULE WorkspaceProofs ---------------------------
(***************************************************************************)
(* Theorems about Workspace, for any users, requests, years and texts, any *)
(* limit of the plan and any bound on what is created.                     *)
(*                                                                         *)
(* Dashboards, targets and questions share only the slots of the requests, *)
(* so each has an invariant of its own; a first one types the tables, and  *)
(* the frames at the end of it say what a step of one part leaves of the   *)
(* others.                                                                 *)
(***************************************************************************)
EXTENDS Workspace, FiniteSetTheorems, WellFoundedInduction, TLAPS

----------------------------------------------------------------------------
(* The invariants                                                          *)

\* A dashboard that was created has its owner for good; one that was not is
\* nobody's, and only one that is there is a default.
DashboardsAreOwned ==
  \A d \in Dashboards :
    /\ dash[d].life # "none" => dash[d].owner \in Users
    /\ dash[d].life = "none" => dash[d].owner = None
    /\ dash[d].isDefault => dash[d].life = "here"

Base == TypeOK /\ DashboardsAreOwned

Inserting == {r \in Requests : reqs[r].pc = "insert"}

\* The bound leaves a free row to every request that is about to insert one.
RoomIsKept == Cardinality(Inserting) <= Cardinality(Free(dash))

\* A request that chooses a dashboard chooses one of its user.
ChoicesAreOwned ==
  \A r \in Requests :
    reqs[r].pc \in {"reset", "mark"} =>
      /\ dash[reqs[r].id].life # "none"
      /\ dash[reqs[r].id].owner = reqs[r].user

\* A request that is alone is the only one of its user, and once it has reset
\* the other dashboards they stay so.
LoneChoicesHold ==
  \A r \in Requests :
    reqs[r].pc \in {"insert", "reset", "mark"} /\ reqs[r].alone =>
      /\ Choosing(reqs[r].user) = {r}
      /\ reqs[r].pc # "reset" =>
           \A d \in Dashboards :
             dash[d].owner = reqs[r].user /\ dash[d].isDefault =>
               reqs[r].pc = "mark" /\ d = reqs[r].id

\* OneDefaultDashboard without counting.
DefaultsAreOne ==
  \A u \in Users \ raced : \A d, e \in Dashboards :
    /\ dash[d].owner = u /\ dash[d].isDefault
    /\ dash[e].owner = u /\ dash[e].isDefault
    => d = e

DefaultsInv == RoomIsKept /\ ChoicesAreOwned /\ LoneChoicesHold /\ DefaultsAreOne

Adding == {r \in Requests : reqs[r].pc = "add"}

\* Requests that have counted and not yet inserted are part of the excess.
WidgetsInv ==
  Total(placed) + Cardinality(Adding) <= PlanWidgets + Cardinality(Requests) - 1

\* What an update of a target checked still holds of the row it read.
ChecksHold ==
  \A r \in Requests :
    reqs[r].pc = "target" /\ NewType(reqs[r].dto, reqs[r].seen) = "DELTA_PERCENT"
      => NewReference(reqs[r].dto, reqs[r].seen)

TargetsInv == ChecksHold /\ TargetsHaveReferences

\* Where processQuery is after it created its session.
Answering == {"check", "get", "run", "record"}

\* A question under way has a session of its own, without SQL yet.
SessionsAreOpen ==
  \A r \in Requests :
    reqs[r].pc \in Answering =>
      /\ reqs[r].id \in DOMAIN sessions
      /\ sessions[reqs[r].id].sql = None
      /\ \A q \in Requests \ {r} :
           reqs[q].pc \in Answering => reqs[q].id # reqs[r].id

\* What is about to be recorded is what the job ran, filled in.
RecordsAreTrue ==
  \A r \in Requests :
    reqs[r].pc = "record" =>
      /\ reqs[r].job \in DOMAIN jobs
      /\ \E c \in Configs : jobs[reqs[r].job] = Filled[reqs[r].sql][c]

SessionsInv == SessionsAreOpen /\ RecordsAreTrue /\ JobsRanTheRecordedText

----------------------------------------------------------------------------
(* Requests                                                                *)

\* The record of a request tells what it is about to do.
LEMMA RequestFields ==
  ASSUME NEW q \in Request
  PROVE  /\ q.pc = "insert" => q \in [pc : {"insert"}, user : Users, alone : BOOLEAN]
         /\ q.pc \in {"reset", "mark"} =>
              q \in [pc : {"reset", "mark"}, user : Users, alone : BOOLEAN,
                     id : Dashboards]
         /\ q.pc = "add" => q \in [pc : {"add"}, id : Dashboards]
         /\ q.pc = "target" => q \in [pc : {"target"}, id : 1..MaxTargets,
                                      dto : TargetDto, seen : Target]
         /\ q.pc \in {"check", "get"} => q \in [pc : {"check", "get"}, id : Nat]
         /\ q.pc = "run" => q \in [pc : {"run"}, id : Nat, sql : Sql]
         /\ q.pc = "record" => q \in [pc : {"record"}, id : Nat, sql : Sql,
                                      job : Nat]
         /\ q.pc = "toggle" => q \in [pc : {"toggle"}, id : Nat, to : BOOLEAN]
BY DEF Request, Idle

\* A slot that is free is a request that has nothing to do.
LEMMA IdleType == Idle \in Request /\ Idle.pc = "idle"
BY DEF Request, Idle

\* No request newly is, or changes while it is, about to do one of these.
Keeps(pcs) == \A r \in Requests : reqs'[r].pc \in pcs => reqs'[r] = reqs[r]

\* One request moves on.
LEMMA SlotMeans ==
  ASSUME TypeOK, NEW r \in Requests, NEW q \in Request,
         reqs' = [reqs EXCEPT ![r] = q]
  PROVE  /\ reqs' \in [Requests -> Request] /\ reqs'[r] = q
         /\ \A s \in Requests \ {r} : reqs'[s] = reqs[s]
         /\ \A pcs : q.pc \notin pcs => Keeps(pcs)
<1>1. /\ reqs' \in [Requests -> Request] /\ reqs'[r] = q
      /\ \A s \in Requests \ {r} : reqs'[s] = reqs[s]
  BY DEF TypeOK
<1> QED
  BY <1>1 DEF Keeps

\* A request begins, within the bound.
LEMMA BeginMeans ==
  ASSUME TypeOK, NEW r \in Requests, NEW q \in Request, Begin(r, q)
  PROVE  /\ reqs' \in [Requests -> Request] /\ reqs'[r] = q
         /\ reqs[r] = Idle /\ made' \in 0..MaxRequests
         /\ \A s \in Requests \ {r} : reqs'[s] = reqs[s]
         /\ \A pcs : q.pc \notin pcs => Keeps(pcs)
<1>1. reqs' = [reqs EXCEPT ![r] = q] /\ reqs[r] = Idle
  BY DEF Begin
<1>2. made' \in 0..MaxRequests
  BY WorkspaceAssumption DEF Begin, Count, TypeOK
<1> QED
  BY <1>1, <1>2, SlotMeans

\* A request that is made and answered at once.
LEMMA CountMeans ==
  ASSUME TypeOK, Count, UNCHANGED reqs
  PROVE  /\ reqs' \in [Requests -> Request] /\ made' \in 0..MaxRequests
         /\ \A pcs : Keeps(pcs)
BY WorkspaceAssumption DEF Count, TypeOK, Keeps

\* A request ends.
LEMMA FinishMeans ==
  ASSUME TypeOK, NEW r \in Requests, Finish(r)
  PROVE  /\ reqs' \in [Requests -> Request] /\ reqs'[r] = Idle
         /\ made' \in 0..MaxRequests
         /\ \A s \in Requests \ {r} : reqs'[s] = reqs[s]
         /\ \A pcs : "idle" \notin pcs => Keeps(pcs)
<1>1. reqs' = [reqs EXCEPT ![r] = Idle] /\ made' = made
  BY DEF Finish
<1>2. made' \in 0..MaxRequests
  BY <1>1 DEF TypeOK
<1>3. /\ reqs' \in [Requests -> Request] /\ reqs'[r] = Idle
      /\ \A s \in Requests \ {r} : reqs'[s] = reqs[s]
  BY <1>1, IdleType DEF TypeOK
<1>4. \A pcs : "idle" \notin pcs => Keeps(pcs)
  BY <1>3, IdleType DEF Keeps
<1> QED
  BY <1>2, <1>3, <1>4

\* The requests of a user who is choosing lose their claim to be alone.
LEMMA BeginChoiceMeans ==
  ASSUME TypeOK, NEW r \in Requests, NEW u \in Users, NEW locals \in Request,
         locals.pc \in {"insert", "reset"}, BeginChoice(r, u, locals)
  PROVE  /\ reqs' \in [Requests -> Request] /\ reqs'[r] = locals
         /\ reqs[r] = Idle /\ made' \in 0..MaxRequests
         /\ \A s \in Requests \ {r} : s \notin Choosing(u) => reqs'[s] = reqs[s]
         /\ \A s \in Choosing(u) \ {r} :
              /\ reqs'[s].pc = reqs[s].pc /\ reqs'[s].user = reqs[s].user
              /\ reqs'[s].alone = FALSE
              /\ reqs[s].pc # "insert" => reqs'[s].id = reqs[s].id
         /\ \A pcs : pcs \cap {"insert", "reset", "mark"} = {} => Keeps(pcs)
<1>1. /\ reqs[r] = Idle
      /\ reqs' = [q \in Requests |->
                    CASE q = r -> locals
                      [] q \in Choosing(u) -> [reqs[q] EXCEPT !.alone = FALSE]
                      [] OTHER -> reqs[q]]
  BY DEF BeginChoice
<1>2. made' \in 0..MaxRequests
  BY WorkspaceAssumption DEF BeginChoice, Count, TypeOK
<1>3. ASSUME NEW s \in Choosing(u)
      PROVE  LET q == [reqs[s] EXCEPT !.alone = FALSE]
             IN  /\ q \in Request /\ q.pc = reqs[s].pc /\ q.user = reqs[s].user
                 /\ q.alone = FALSE
                 /\ reqs[s].pc # "insert" => q.id = reqs[s].id
                 /\ q.pc \in {"insert", "reset", "mark"}
  <2>1. reqs[s] \in Request /\ reqs[s].pc \in {"insert", "reset", "mark"}
    BY DEF Choosing, TypeOK
  <2>2. CASE reqs[s].pc = "insert"
    <3>1. reqs[s] \in [pc : {"insert"}, user : Users, alone : BOOLEAN]
      BY <2>1, <2>2, RequestFields
    <3> QED
      BY <2>2, <3>1 DEF Request
  <2>3. CASE reqs[s].pc \in {"reset", "mark"}
    <3>1. reqs[s] \in [pc : {"reset", "mark"}, user : Users, alone : BOOLEAN,
                       id : Dashboards]
      BY <2>1, <2>3, RequestFields
    <3> QED
      BY <2>3, <3>1 DEF Request
  <2> QED
    BY <2>1, <2>2, <2>3
<1>4. \A s \in Requests : reqs[s] \in Request
  BY DEF TypeOK
<1>5. \A s \in Choosing(u) : s \in Requests
  BY DEF Choosing
<1>6. /\ reqs'[r] = locals
      /\ \A s \in Requests \ {r} : s \notin Choosing(u) => reqs'[s] = reqs[s]
      /\ \A s \in Choosing(u) \ {r} : reqs'[s] = [reqs[s] EXCEPT !.alone = FALSE]
  <2>1. \A s \in Requests :
          reqs'[s] = CASE s = r -> locals
                       [] s \in Choosing(u) -> [reqs[s] EXCEPT !.alone = FALSE]
                       [] OTHER -> reqs[s]
    BY <1>1, Zenon
  <2>2. r \notin Choosing(u)
    BY <1>1, IdleType DEF Choosing
  <2>3. reqs'[r] = locals
    BY <2>1, <2>2, Zenon
  <2>4. \A s \in Requests \ {r} : s \notin Choosing(u) => reqs'[s] = reqs[s]
    BY <2>1, Zenon
  <2>5. \A s \in Choosing(u) \ {r} : reqs'[s] = [reqs[s] EXCEPT !.alone = FALSE]
    BY <1>5, <2>1, Zenon
  <2> QED
    BY <2>3, <2>4, <2>5
<1>7. reqs' \in [Requests -> Request]
  <2>1. ASSUME NEW s \in Requests PROVE reqs'[s] \in Request
    <3>1. CASE s = r
      BY <1>6, <3>1
    <3>2. CASE s # r /\ s \notin Choosing(u)
      BY <1>4, <1>6, <3>2
    <3>3. CASE s # r /\ s \in Choosing(u)
      <4>1. [reqs[s] EXCEPT !.alone = FALSE] \in Request
        BY <1>3, <3>3, Zenon
      <4> QED
        BY <1>6, <3>3, <4>1, Zenon
    <3> QED
      BY <3>1, <3>2, <3>3
  <2> DEFINE e(q) == CASE q = r -> locals
                       [] q \in Choosing(u) -> [reqs[q] EXCEPT !.alone = FALSE]
                       [] OTHER -> reqs[q]
  <2>2. reqs' = [q \in Requests |-> e(q)]
    BY <1>1
  <2> HIDE DEF e
  <2> QED
    BY <2>1, <2>2
<1>8. \A s \in Choosing(u) \ {r} :
        /\ reqs'[s].pc = reqs[s].pc /\ reqs'[s].user = reqs[s].user
        /\ reqs'[s].alone = FALSE
        /\ reqs[s].pc # "insert" => reqs'[s].id = reqs[s].id
        /\ reqs'[s].pc \in {"insert", "reset", "mark"}
  BY <1>3, <1>6
<1>9. \A pcs : pcs \cap {"insert", "reset", "mark"} = {} => Keeps(pcs)
  BY <1>6, <1>8 DEF Keeps
<1> QED
  BY <1>1, <1>2, <1>6, <1>7, <1>8, <1>9

\* They stay where they are.
LEMMA BeginChoicePlaces ==
  ASSUME TypeOK, NEW r \in Requests, NEW u \in Users, NEW locals \in Request,
         locals.pc \in {"insert", "reset"}, BeginChoice(r, u, locals)
  PROVE  /\ reqs'[r] = locals /\ reqs[r] = Idle
         /\ \A s \in Requests \ {r} : reqs'[s].pc = reqs[s].pc
<1>1. /\ reqs'[r] = locals /\ reqs[r] = Idle
      /\ \A s \in Requests \ {r} : s \notin Choosing(u) => reqs'[s] = reqs[s]
      /\ \A s \in Choosing(u) \ {r} :
           /\ reqs'[s].pc = reqs[s].pc /\ reqs'[s].user = reqs[s].user
           /\ reqs'[s].alone = FALSE
           /\ reqs[s].pc # "insert" => reqs'[s].id = reqs[s].id
  BY BeginChoiceMeans, Zenon
<1> QED
  BY <1>1, Zenon

----------------------------------------------------------------------------
(* Types, and what one part of the system leaves of the others             *)

ChoiceSteps == {"insert", "reset", "mark"}

RequestsOK == reqs \in [Requests -> Request] /\ made \in 0..MaxRequests

BoardOK ==
  /\ dash \in [Dashboards -> Dashboard]
  /\ placed \in [Dashboards \cup {Nowhere} -> Nat]
  /\ asked \in [Dashboards \cup {Nowhere} -> Nat]
  /\ \A d \in Dashboards : dash[d].life # "here" => placed[d] + asked[d] = 0
  /\ raced \subseteq Users
  /\ DashboardsAreOwned

TargetsOK == targets \in [1..MaxTargets -> Target]

QuestionsOK ==
  /\ intent \in BOOLEAN
  /\ template \in Template \cup {None}
  /\ template # None => intent
  /\ sessions \in Seq(Session) /\ jobs \in Seq(FinalSql)

\* The typed tables are those of the three parts and the requests.
LEMMA BaseParts == Base <=> BoardOK /\ TargetsOK /\ QuestionsOK /\ RequestsOK
BY DEF Base, TypeOK, BoardOK, TargetsOK, QuestionsOK, RequestsOK

\* The same of the next state.
LEMMA BaseParts2 == Base' <=> BoardOK' /\ TargetsOK' /\ QuestionsOK' /\ RequestsOK'
BY DEF Base, TypeOK, BoardOK, TargetsOK, QuestionsOK, RequestsOK, DashboardsAreOwned

\* updateMany changes nothing but the defaults of its user.
LEMMA ResetMeans ==
  ASSUME BoardOK, NEW u \in Users, NEW keep, ResetDefaults(u, keep)
  PROVE  /\ dash' \in [Dashboards -> Dashboard]
         /\ \A d \in Dashboards :
              /\ dash'[d].life = dash[d].life /\ dash'[d].owner = dash[d].owner
              /\ dash'[d].isDefault => dash[d].isDefault
              /\ dash[d].owner = u /\ d \notin keep => ~dash'[d].isDefault
BY DEF BoardOK, ResetDefaults, Dashboard

\* A new row belongs to its user and replaces at most one.
LEMMA NewMeans ==
  ASSUME BoardOK, NEW u \in Users, NEW default \in BOOLEAN,
         dash' = NewDashboard(u, default)
  PROVE  /\ dash' \in [Dashboards -> Dashboard]
         /\ \A d \in Dashboards :
              \/ d # Min(Free(dash)) /\ dash'[d] = dash[d]
              \/ d = Min(Free(dash)) /\ dash'[d] =
                   [life |-> "here", owner |-> u, isDefault |-> default]
<1> DEFINE m == Min(Free(dash))
<1>1. dash' = [dash EXCEPT ![m] =
                 [life |-> "here", owner |-> u, isDefault |-> default]]
  BY DEF NewDashboard
<1> HIDE DEF m
<1>2. [life |-> "here", owner |-> u, isDefault |-> default] \in Dashboard
  BY DEF Dashboard, Lives
<1>3. /\ dash' \in [Dashboards -> Dashboard]
      /\ \A d \in Dashboards :
           \/ d # m /\ dash'[d] = dash[d]
           \/ d = m /\ dash'[d] = [life |-> "here", owner |-> u,
                                   isDefault |-> default]
  BY <1>1, <1>2 DEF BoardOK
<1> QED
  BY <1>3 DEF m

\* Any change of dashboards that keeps owners keeps the part well typed.
LEMMA BoardFrame ==
  ASSUME BoardOK, dash' \in [Dashboards -> Dashboard], UNCHANGED <<placed, asked>>,
         raced' \subseteq Users,
         \A d \in Dashboards :
           \/ /\ dash'[d].life = dash[d].life /\ dash'[d].owner = dash[d].owner
              /\ dash'[d].isDefault => dash[d].isDefault \/ dash[d].life = "here"
           \/ dash'[d].life = "here" /\ dash'[d].owner \in Users
  PROVE  BoardOK'
<1>1. DashboardsAreOwned'
  BY DEF BoardOK, DashboardsAreOwned, Dashboard
<1> QED
  BY <1>1 DEF BoardOK

\* Whoever decides for one user leaves a set of users behind.
LEMMA ChosenMeans ==
  ASSUME Base, NEW r \in Requests, reqs[r].pc \in ChoiceSteps, Chosen(r)
  PROVE  /\ reqs[r].user \in Users /\ raced' \subseteq Users
         /\ reqs[r].alone => raced' = raced \ {reqs[r].user}
         /\ ~reqs[r].alone => raced' = raced \cup {reqs[r].user}
<1>1. reqs[r] \in Request
  BY BaseParts DEF RequestsOK
<1>2. reqs[r].user \in Users
  BY <1>1, RequestFields DEF ChoiceSteps
<1> QED
  BY <1>2, BaseParts DEF Chosen, BoardOK

\* An insert keeps the part well typed.
LEMMA NewBoard ==
  ASSUME BoardOK, NEW u \in Users, NEW default \in BOOLEAN,
         dash' = NewDashboard(u, default), UNCHANGED <<placed, asked>>,
         raced' \subseteq Users
  PROVE  BoardOK'
<1> DEFINE m == Min(Free(dash))
<1>1. /\ dash' \in [Dashboards -> Dashboard]
      /\ \A d \in Dashboards :
           \/ d # m /\ dash'[d] = dash[d]
           \/ d = m /\ dash'[d] =
                [life |-> "here", owner |-> u, isDefault |-> default]
  BY NewMeans
<1> HIDE DEF m
<1>2. \A d \in Dashboards :
        \/ dash'[d] = dash[d]
        \/ dash'[d].life = "here" /\ dash'[d].owner \in Users
  BY <1>1
<1> QED
  BY <1>1, <1>2, BoardFrame

\* What a request that chooses a default records of itself.
LEMMA ChoiceTypes ==
  ASSUME NEW u \in Users, NEW d \in Dashboards, NEW b \in BOOLEAN
  PROVE  /\ [pc |-> "insert", user |-> u, alone |-> b] \in Request
         /\ [pc |-> "reset", user |-> u, id |-> d, alone |-> b] \in Request
         /\ [pc |-> "mark", user |-> u, id |-> d, alone |-> b] \in Request
BY DEF Request

\* reset turns into mark.
LEMMA MarkNext ==
  ASSUME NEW q \in Request, q.pc = "reset"
  PROVE  LET n == [q EXCEPT !.pc = "mark"]
         IN  /\ n \in Request /\ n.pc = "mark" /\ n.user = q.user
             /\ n.id = q.id /\ n.alone = q.alone
<1>1. q \in [pc : {"reset", "mark"}, user : Users, alone : BOOLEAN,
             id : Dashboards]
  BY RequestFields
<1> QED
  BY <1>1 DEF Request

\* Dashboards and widgets: types, and what they leave alone.
LEMMA DashboardingFrame ==
  ASSUME Base, Dashboarding
  PROVE  /\ BoardOK' /\ RequestsOK' /\ UNCHANGED <<targets, nlq>>
         /\ Keeps({"target"} \cup Answering)
<1> DEFINE Goal == /\ BoardOK' /\ RequestsOK' /\ UNCHANGED <<targets, nlq>>
                   /\ Keeps({"target"} \cup Answering)
           K == {"target"} \cup Answering
<1>0. /\ TypeOK /\ BoardOK /\ \A r \in Requests : reqs[r] \in Request
      /\ dash \in [Dashboards -> Dashboard]
      /\ \A d \in Dashboards : dash[d].life \in Lives
  BY BaseParts DEF Base, BoardOK, RequestsOK, Dashboard
<1>k. K \cap {"insert", "reset", "mark", "add", "idle"} = {}
  BY DEF Answering
<1>1. ASSUME NEW u \in Users, Create(u) PROVE Goal
  <2>1. /\ Count /\ UNCHANGED reqs /\ dash' = NewDashboard(u, FALSE)
        /\ UNCHANGED <<placed, asked, raced, targets, nlq>>
    BY <1>1 DEF Create
  <2>2. RequestsOK' /\ Keeps(K)
    BY <1>0, <2>1, CountMeans DEF RequestsOK
  <2>3. raced' \subseteq Users
    BY <1>0, <2>1 DEF BoardOK
  <2>4. BoardOK'
    BY <1>0, <2>1, <2>3, NewBoard
  <2> QED
    BY <2>1, <2>2, <2>4
<1>2. ASSUME NEW u \in Users, NEW r \in Requests, CreateDefault(r, u) PROVE Goal
  <2> DEFINE q == [pc |-> "insert", user |-> u, alone |-> Choosing(u) = {}]
  <2>1. /\ BeginChoice(r, u, q) /\ ResetDefaults(u, {})
        /\ UNCHANGED <<placed, asked, raced, targets, nlq>>
    BY <1>2 DEF CreateDefault
  <2>2. q \in Request /\ q.pc = "insert"
    BY DEF Request
  <2> HIDE DEF q
  <2>3. RequestsOK' /\ Keeps(K)
    BY <1>0, <1>k, <2>1, <2>2, BeginChoiceMeans DEF RequestsOK
  <2>4. BoardOK'
    BY <1>0, <2>1, ResetMeans, BoardFrame DEF BoardOK
  <2> QED
    BY <2>1, <2>3, <2>4
<1>3. ASSUME NEW d \in Dashboards, UpdateOrdinary(d) PROVE Goal
  <2>1. /\ Count /\ UNCHANGED reqs
        /\ dash' = [dash EXCEPT ![d].isDefault = FALSE]
        /\ UNCHANGED <<placed, asked, raced, targets, nlq>>
    BY <1>3 DEF UpdateOrdinary
  <2>2. RequestsOK' /\ Keeps(K)
    BY <1>0, <2>1, CountMeans DEF RequestsOK
  <2>3. BoardOK'
    BY <1>0, <2>1, BoardFrame DEF BoardOK, Dashboard
  <2> QED
    BY <2>1, <2>2, <2>3
<1>4. ASSUME NEW d \in Dashboards, Remove(d) PROVE Goal
  <2>1. /\ Count /\ UNCHANGED reqs /\ dash[d].life = "here"
        /\ dash' = [dash EXCEPT ![d].life = "gone", ![d].isDefault = FALSE]
        /\ placed' = [placed EXCEPT ![Nowhere] = @ + placed[d], ![d] = 0]
        /\ asked' = [asked EXCEPT ![Nowhere] = @ + asked[d], ![d] = 0]
        /\ UNCHANGED <<raced, targets, nlq>>
    BY <1>4 DEF Remove
  <2>2. RequestsOK' /\ Keeps(K)
    BY <1>0, <2>1, CountMeans DEF RequestsOK
  <2>3. /\ dash' \in [Dashboards -> Dashboard]
        /\ dash'[d].owner = dash[d].owner /\ dash'[d].life = "gone"
        /\ dash'[d].isDefault = FALSE
        /\ \A e \in Dashboards \ {d} : dash'[e] = dash[e]
    BY <1>0, <2>1 DEF Dashboard, Lives
  <2>4. d # Nowhere /\ d \in Nat /\ Nowhere \notin Dashboards
    BY WorkspaceAssumption DEF Dashboards, Nowhere
  <2>5. /\ placed' \in [Dashboards \cup {Nowhere} -> Nat]
        /\ asked' \in [Dashboards \cup {Nowhere} -> Nat]
        /\ placed'[d] = 0 /\ asked'[d] = 0
        /\ \A e \in Dashboards \ {d} : placed'[e] = placed[e] /\ asked'[e] = asked[e]
    BY <1>0, <2>1, <2>4 DEF BoardOK
  <2>6. DashboardsAreOwned'
    BY <1>0, <2>1, <2>3 DEF BoardOK, DashboardsAreOwned
  <2>7. \A e \in Dashboards : dash'[e].life # "here" => placed'[e] + asked'[e] = 0
    BY <1>0, <2>3, <2>5 DEF BoardOK
  <2>8. BoardOK'
    BY <1>0, <2>1, <2>3, <2>5, <2>6, <2>7 DEF BoardOK
  <2> QED
    BY <2>1, <2>2, <2>8
<1>5. ASSUME NEW d \in Dashboards, RemoveWidget(d) PROVE Goal
  <2>1. /\ Count /\ UNCHANGED reqs
        /\ UNCHANGED <<dash, raced, targets, nlq>>
    BY <1>5 DEF RemoveWidget
  <2>2. RequestsOK' /\ Keeps(K)
    BY <1>0, <2>1, CountMeans DEF RequestsOK
  <2>3. /\ placed' \in [Dashboards \cup {Nowhere} -> Nat]
        /\ asked' \in [Dashboards \cup {Nowhere} -> Nat]
        /\ \A e \in Dashboards : placed'[e] + asked'[e] <= placed[e] + asked[e]
    BY <1>0, <1>5 DEF BoardOK, RemoveWidget
  <2>4. DashboardsAreOwned'
    BY <1>0, <2>1 DEF BoardOK, DashboardsAreOwned
  <2>5. BoardOK'
    BY <1>0, <2>1, <2>3, <2>4 DEF BoardOK
  <2> QED
    BY <2>1, <2>2, <2>5
<1>6. ASSUME NEW d \in Dashboards, NEW r \in Requests, UpdateDefault(r, d)
      PROVE  Goal
  <2> DEFINE u == dash[d].owner
             q == [pc |-> "reset", user |-> u, id |-> d, alone |-> Choosing(u) = {}]
  <2>1. /\ BeginChoice(r, u, q) /\ dash[d].life = "here"
        /\ UNCHANGED <<dash, placed, asked, raced, targets, nlq>>
    BY <1>6 DEF UpdateDefault, board
  <2>2. u \in Users
    BY <1>0, <2>1 DEF BoardOK, DashboardsAreOwned
  <2>3. q \in Request /\ q.pc = "reset"
    BY <2>2, ChoiceTypes
  <2> HIDE DEF q
  <2>4. RequestsOK' /\ Keeps(K)
    BY <1>0, <1>k, <2>1, <2>2, <2>3, BeginChoiceMeans DEF RequestsOK
  <2>5. BoardOK'
    BY <1>0, <2>1, BoardFrame DEF BoardOK
  <2> QED
    BY <2>1, <2>4, <2>5
<1>7. ASSUME NEW d \in Dashboards, NEW r \in Requests, AddWidget(r, d) PROVE Goal
  <2> DEFINE q == [pc |-> "add", id |-> d]
  <2>1. Begin(r, q) /\ UNCHANGED <<dash, placed, asked, raced, targets, nlq>>
    BY <1>7 DEF AddWidget, board
  <2>2. q \in Request /\ q.pc = "add"
    BY DEF Request
  <2> HIDE DEF q
  <2>3. RequestsOK' /\ Keeps(K)
    BY <1>0, <1>k, <2>1, <2>2, BeginMeans DEF RequestsOK
  <2>4. BoardOK'
    BY <1>0, <2>1, BoardFrame DEF BoardOK
  <2> QED
    BY <2>1, <2>3, <2>4
<1>8. ASSUME NEW d \in Dashboards, NEW s \in DOMAIN sessions, AddToDashboard(s, d)
      PROVE  Goal
  <2>1. /\ Count /\ UNCHANGED reqs /\ dash[d].life = "here"
        /\ asked' = [asked EXCEPT ![d] = @ + 1]
        /\ UNCHANGED <<dash, placed, raced, targets, nlq>>
    BY <1>8 DEF AddToDashboard
  <2>2. RequestsOK' /\ Keeps(K)
    BY <1>0, <2>1, CountMeans DEF RequestsOK
  <2>3. /\ asked' \in [Dashboards \cup {Nowhere} -> Nat]
        /\ \A e \in Dashboards : dash[e].life # "here" => asked'[e] = asked[e]
    BY <1>0, <2>1 DEF BoardOK
  <2>4. DashboardsAreOwned'
    BY <1>0, <2>1 DEF BoardOK, DashboardsAreOwned
  <2>5. BoardOK'
    BY <1>0, <2>1, <2>3, <2>4 DEF BoardOK
  <2> QED
    BY <2>1, <2>2, <2>5
<1>9. ASSUME NEW r \in Requests, Insert(r) PROVE Goal
  <2>1. /\ reqs[r].pc = "insert" /\ Chosen(r) /\ Finish(r)
        /\ dash' = NewDashboard(reqs[r].user, TRUE)
        /\ UNCHANGED <<placed, asked, targets, nlq>>
    BY <1>9 DEF Insert
  <2>2. reqs[r].user \in Users /\ raced' \subseteq Users
    BY <2>1, ChosenMeans DEF ChoiceSteps
  <2>3. RequestsOK' /\ Keeps(K)
    BY <1>0, <1>k, <2>1, FinishMeans DEF RequestsOK
  <2>4. BoardOK'
    BY <1>0, <2>1, <2>2, NewBoard
  <2> QED
    BY <2>1, <2>3, <2>4
<1>10. ASSUME NEW r \in Requests, Reset(r) PROVE Goal
  <2> DEFINE q == [reqs[r] EXCEPT !.pc = "mark"]
  <2>1. /\ reqs[r].pc = "reset" /\ ResetDefaults(reqs[r].user, {reqs[r].id})
        /\ reqs' = [reqs EXCEPT ![r] = q] /\ made' = made
        /\ UNCHANGED <<placed, asked, raced, targets, nlq>>
    BY <1>0, <1>10 DEF Reset, Goto
  <2>2. reqs[r].user \in Users
    BY <1>0, <2>1, RequestFields
  <2>3. q \in Request /\ q.pc = "mark"
    BY <1>0, <2>1, MarkNext
  <2> HIDE DEF q
  <2>4. reqs' \in [Requests -> Request] /\ Keeps(K)
    BY <1>0, <1>k, <2>1, <2>3, SlotMeans
  <2>5. RequestsOK'
    BY <1>0, <2>1, <2>4 DEF RequestsOK, TypeOK
  <2>6. BoardOK'
    BY <1>0, <2>1, <2>2, ResetMeans, BoardFrame DEF BoardOK
  <2> QED
    BY <2>1, <2>4, <2>5, <2>6
<1>11. ASSUME NEW r \in Requests, Mark(r) PROVE Goal
  <2>1. /\ reqs[r].pc = "mark" /\ Finish(r)
        /\ UNCHANGED <<placed, asked, targets, nlq>>
    BY <1>11 DEF Mark
  <2>2. RequestsOK' /\ Keeps(K)
    BY <1>0, <1>k, <2>1, FinishMeans DEF RequestsOK
  <2>3. CASE dash[reqs[r].id].life = "here"
    <3>1. dash' = [dash EXCEPT ![reqs[r].id].isDefault = TRUE] /\ Chosen(r)
      BY <1>11, <2>3 DEF Mark
    <3>2. raced' \subseteq Users
      BY <2>1, <3>1, ChosenMeans DEF ChoiceSteps
    <3>3. BoardOK'
      BY <1>0, <2>1, <2>3, <3>1, <3>2, BoardFrame DEF Dashboard
    <3> QED
      BY <2>1, <2>2, <3>3
  <2>4. CASE dash[reqs[r].id].life # "here"
    <3>1. UNCHANGED <<dash, raced>>
      BY <1>11, <2>4 DEF Mark
    <3>2. BoardOK'
      BY <1>0, <2>1, <3>1, BoardFrame DEF BoardOK
    <3> QED
      BY <2>1, <2>2, <3>2
  <2> QED
    BY <2>3, <2>4
<1>12. ASSUME NEW r \in Requests, CreateWidget(r) PROVE Goal
  <2> DEFINE d == reqs[r].id
  <2>1. /\ reqs[r].pc = "add" /\ Finish(r)
        /\ placed' = IF dash[d].life = "here"
                       THEN [placed EXCEPT ![d] = @ + 1] ELSE placed
        /\ UNCHANGED <<dash, asked, raced, targets, nlq>>
    BY <1>12 DEF CreateWidget
  <2>2. RequestsOK' /\ Keeps(K)
    BY <1>0, <1>k, <2>1, FinishMeans DEF RequestsOK
  <2>3. d \in Dashboards
    BY <1>0, <2>1, RequestFields
  <2> HIDE DEF d
  <2>4. /\ placed' \in [Dashboards \cup {Nowhere} -> Nat]
        /\ \A e \in Dashboards : dash[e].life # "here" => placed'[e] = placed[e]
    BY <1>0, <2>1, <2>3 DEF BoardOK
  <2>5. DashboardsAreOwned'
    BY <1>0, <2>1 DEF BoardOK, DashboardsAreOwned
  <2>6. BoardOK'
    BY <1>0, <2>1, <2>4, <2>5 DEF BoardOK
  <2> QED
    BY <2>1, <2>2, <2>6
<1> QED
  BY <1>1, <1>2, <1>3, <1>4, <1>5, <1>6, <1>7, <1>8, <1>9, <1>10, <1>11, <1>12
     DEF Dashboarding


\* What an update writes over a target is a target.
LEMMA WrittenType ==
  ASSUME NEW row \in Target, NEW dto \in TargetDto, NEW b \in BOOLEAN
  PROVE  /\ [Written(dto, row) EXCEPT !.torn = b] \in Target
         /\ [Written(dto, row) EXCEPT !.torn = b].torn = b
         /\ [Written(dto, row) EXCEPT !.torn = b].life = row.life
         /\ [Written(dto, row) EXCEPT !.torn = b].type = NewType(dto, row)
         /\ [Written(dto, row) EXCEPT !.torn = b].ref =
              IF dto.ref = None THEN row.ref ELSE dto.ref = "given"
<1>1. NewType(dto, row) \in {"ABSOLUTE", "DELTA_PERCENT"}
  BY DEF NewType, TargetDto, Target
<1>2. (IF dto.ref = None THEN row.ref ELSE dto.ref = "given") \in BOOLEAN
  BY DEF TargetDto, Target
<1>3. (IF dto.year = None THEN row.year ELSE dto.year) \in Years \cup {None}
  BY DEF TargetDto, Target
<1> QED
  BY <1>1, <1>2, <1>3 DEF Written, Target

\* What the upsert of a target writes: one row, of the request.
LEMMA CreateTargetMeans ==
  ASSUME TargetsOK, NEW y \in Years, NEW type \in {"ABSOLUTE", "DELTA_PERCENT"},
         NEW ref \in BOOLEAN, CreateTarget(y, type, ref)
  PROVE  /\ type = "DELTA_PERCENT" => ref
         /\ \E i, new :
              /\ new = [life |-> "here", year |-> y, type |-> type,
                        ref |-> ref, torn |-> FALSE]
              /\ targets' = [targets EXCEPT ![i] = new]
BY DEF CreateTarget

\* Targets: types, and what they leave alone.
LEMMA TargetingFrame ==
  ASSUME Base, Targeting
  PROVE  /\ TargetsOK' /\ RequestsOK' /\ UNCHANGED <<board, nlq>>
         /\ Keeps(ChoiceSteps \cup {"add"} \cup Answering)
<1> DEFINE K == ChoiceSteps \cup {"add"} \cup Answering
           Goal == /\ TargetsOK' /\ RequestsOK' /\ UNCHANGED <<board, nlq>>
                   /\ Keeps(K)
<1>0. /\ TypeOK /\ TargetsOK /\ \A r \in Requests : reqs[r] \in Request
      /\ \A t \in DOMAIN targets : t \in 1..MaxTargets /\ targets[t] \in Target
  BY BaseParts DEF Base, TargetsOK, RequestsOK
<1>k. K \cap {"target", "idle"} = {}
  BY DEF ChoiceSteps, Answering
<1>1. ASSUME NEW y \in Years, NEW ref \in BOOLEAN,
             NEW type \in {"ABSOLUTE", "DELTA_PERCENT"}, CreateTarget(y, type, ref)
      PROVE  Goal
  <2>1. Count /\ UNCHANGED <<board, nlq, reqs>>
    BY <1>1 DEF CreateTarget
  <2>2. PICK i, new :
          /\ new = [life |-> "here", year |-> y, type |-> type, ref |-> ref,
                    torn |-> FALSE]
          /\ targets' = [targets EXCEPT ![i] = new]
    BY <1>0, <1>1, CreateTargetMeans
  <2>3. new \in Target
    BY <2>2 DEF Target, Lives
  <2>4. TargetsOK'
    BY <1>0, <2>2, <2>3 DEF TargetsOK
  <2> QED
    BY <1>0, <2>1, <2>4, CountMeans DEF RequestsOK
<1>2. ASSUME NEW t \in DOMAIN targets, RemoveTarget(t) PROVE Goal
  <2>1. /\ Count /\ UNCHANGED <<board, nlq, reqs>>
        /\ targets' = [targets EXCEPT ![t] = [NoTarget EXCEPT !.life = "gone"]]
    BY <1>2 DEF RemoveTarget
  <2>2. [NoTarget EXCEPT !.life = "gone"] \in Target
    BY DEF NoTarget, Target, Lives
  <2>3. TargetsOK'
    BY <1>0, <2>1, <2>2 DEF TargetsOK
  <2> QED
    BY <1>0, <2>1, <2>3, CountMeans DEF RequestsOK
<1>3. ASSUME NEW t \in DOMAIN targets, NEW r \in Requests, NEW dto \in TargetDto,
             UpdateTarget(r, t, dto)
      PROVE  Goal
  <2> DEFINE q == [pc |-> "target", id |-> t, dto |-> dto, seen |-> targets[t]]
  <2>1. Begin(r, q) /\ UNCHANGED <<board, targets, nlq>>
    BY <1>3 DEF UpdateTarget
  <2>2. q \in Request /\ q.pc = "target"
    BY <1>0 DEF Request
  <2> HIDE DEF q
  <2> QED
    BY <1>0, <1>k, <2>1, <2>2, BeginMeans DEF RequestsOK, TargetsOK
<1>4. ASSUME NEW r \in Requests, WriteTarget(r) PROVE Goal
  <2> DEFINE q == reqs[r]
             row == targets[q.id]
             b == (q.dto.ref = "null" \/ row # q.seen)
             new == [Written(q.dto, row) EXCEPT !.torn = b]
  <2>1. /\ q.pc = "target" /\ Finish(r) /\ UNCHANGED <<board, nlq>>
        /\ targets' = [targets EXCEPT ![q.id] = new] \/ targets' = targets
    BY <1>4 DEF WriteTarget
  <2>2. q.id \in 1..MaxTargets /\ q.dto \in TargetDto
    BY <1>0, <2>1, RequestFields
  <2>3. row \in Target /\ b \in BOOLEAN
    BY <1>0, <2>2 DEF TargetsOK
  <2> HIDE DEF b
  <2>4. new \in Target
    BY <2>2, <2>3, WrittenType
  <2> HIDE DEF new, row
  <2>5. TargetsOK'
    BY <1>0, <2>1, <2>2, <2>4 DEF TargetsOK
  <2> QED
    BY <1>0, <1>k, <2>1, <2>5, FinishMeans DEF RequestsOK
<1> QED
  BY <1>1, <1>2, <1>3, <1>4 DEF Targeting

\* A function on an interval from one is a sequence.
LEMMA FunctionIsSequence ==
  ASSUME NEW S, NEW n \in Nat, NEW f \in [1..n -> S]
  PROVE  f \in Seq(S)
OBVIOUS

\* An answer that ends its session changes the status of that row only.
LEMMA SettleMeans ==
  ASSUME Base, NEW r \in Requests,
         NEW status \in {"no_intent", "disabled", "success", "error"},
         Settle(r, status)
  PROVE  /\ sessions' \in Seq(Session) /\ DOMAIN sessions' = DOMAIN sessions
         /\ \A s \in DOMAIN sessions :
              /\ sessions'[s].sql = sessions[s].sql
              /\ sessions'[s].job = sessions[s].job
              /\ s # reqs[r].id => sessions'[s] = sessions[s]
         /\ Finish(r)
<1>1. sessions \in Seq(Session)
  BY BaseParts DEF QuestionsOK
<1>2. /\ sessions' = [sessions EXCEPT ![reqs[r].id].status = status]
      /\ Finish(r)
  BY DEF Settle
<1>3. \A s \in DOMAIN sessions : sessions[s] \in Session
  BY <1>1
<1>4. DOMAIN sessions = 1..Len(sessions) /\ Len(sessions) \in Nat
  BY <1>1
<1>5. sessions \in [1..Len(sessions) -> Session]
  BY <1>1, <1>4
<1>6. /\ DOMAIN sessions' = 1..Len(sessions)
      /\ sessions' = [s \in 1..Len(sessions) |-> sessions'[s]]
      /\ \A s \in DOMAIN sessions :
              /\ sessions'[s] \in Session
              /\ sessions'[s].sql = sessions[s].sql
              /\ sessions'[s].job = sessions[s].job
              /\ s # reqs[r].id => sessions'[s] = sessions[s]
  BY <1>2, <1>3, <1>4, <1>5 DEF Session
<1>7. sessions' \in [1..Len(sessions) -> Session]
  BY <1>4, <1>6
<1>8. sessions' \in Seq(Session)
  BY <1>4, <1>7
<1> QED
  BY <1>2, <1>4, <1>6, <1>8

\* A row that is replaced leaves the table of sessions typed.
LEMMA SessionWritten ==
  ASSUME Base, NEW i, NEW row \in Session,
         sessions' = [sessions EXCEPT ![i] = row]
  PROVE  /\ sessions' \in Seq(Session) /\ DOMAIN sessions' = DOMAIN sessions
         /\ \A s \in DOMAIN sessions :
              sessions'[s] = IF s = i THEN row ELSE sessions[s]
<1>1. sessions \in Seq(Session)
  BY BaseParts DEF QuestionsOK
<1>2. DOMAIN sessions = 1..Len(sessions) /\ Len(sessions) \in Nat
  BY <1>1
<1>3. sessions \in [1..Len(sessions) -> Session]
  BY <1>1, <1>2
<1>4. /\ DOMAIN sessions' = 1..Len(sessions)
      /\ sessions' \in [1..Len(sessions) -> Session]
  BY <1>3
<1>5. sessions' \in Seq(Session)
  BY <1>2, <1>4, FunctionIsSequence
<1> QED
  BY <1>2, <1>3, <1>5

\* A new session is the last one.
LEMMA NewSessionMeans ==
  ASSUME Base, NEW status \in {"no_intent", "pending"}, NewSession(status)
  PROVE  /\ sessions' \in Seq(Session)
         /\ DOMAIN sessions = 1..Len(sessions) /\ Len(sessions) \in Nat
         /\ DOMAIN sessions' = 1..(Len(sessions) + 1)
         /\ sessions'[Len(sessions) + 1].sql = None
         /\ \A s \in DOMAIN sessions : sessions'[s] = sessions[s]
<1> DEFINE row == [status |-> status, sql |-> None, job |-> 0]
<1>1. sessions \in Seq(Session) /\ sessions' = Append(sessions, row)
  BY BaseParts DEF QuestionsOK, NewSession
<1>2. row \in Session /\ row.sql = None
  BY DEF Session
<1> HIDE DEF row
<1> QED
  BY <1>1, <1>2

\* The job that ran is the last one.
LEMMA NewJobMeans ==
  ASSUME Base, NEW sql \in FinalSql, jobs' = Append(jobs, sql)
  PROVE  /\ jobs' \in Seq(FinalSql)
         /\ DOMAIN jobs = 1..Len(jobs) /\ Len(jobs) \in Nat
         /\ DOMAIN jobs' = 1..(Len(jobs) + 1)
         /\ jobs'[Len(jobs) + 1] = sql
         /\ \A j \in DOMAIN jobs : jobs'[j] = jobs[j]
<1>1. jobs \in Seq(FinalSql)
  BY BaseParts DEF QuestionsOK
<1> QED
  BY <1>1

\* Found or executed, the job ran the text of the question, filled in, and those
\* before it stay.
LEMMA ReturnMeans ==
  ASSUME Base, NEW r \in Requests, NEW c \in Configs, ReturnJob(r, c),
         reqs[r].sql \in Sql
  PROVE  /\ jobs' \in Seq(FinalSql)
         /\ DOMAIN jobs \subseteq DOMAIN jobs'
         /\ \A j \in DOMAIN jobs : jobs'[j] = jobs[j]
         /\ \E j \in Nat : /\ Recording(r, j) /\ j \in DOMAIN jobs'
                          /\ jobs'[j] = Filled[reqs[r].sql][c]
<1> DEFINE finalSql == Filled[reqs[r].sql][c]
<1>1. finalSql \in FinalSql
  BY DEF FinalSql
<1>2. jobs \in Seq(FinalSql)
  BY BaseParts DEF QuestionsOK
<1>3. DOMAIN jobs = 1..Len(jobs) /\ Len(jobs) \in Nat
  BY <1>2
<1> HIDE DEF finalSql
<1>4. CASE UNCHANGED jobs /\ \E j \in DOMAIN jobs :
             jobs[j] = finalSql /\ Recording(r, j)
  <2>1. PICK j \in DOMAIN jobs : jobs[j] = finalSql /\ Recording(r, j)
    BY <1>4
  <2>2. j \in Nat
    BY <1>3
  <2> QED
    BY <1>2, <1>4, <2>1, <2>2 DEF finalSql
<1>5. CASE jobs' = Append(jobs, finalSql) /\ Recording(r, Len(jobs) + 1)
  <2>1. Len(jobs) + 1 \in DOMAIN jobs' /\ Len(jobs) + 1 \in Nat
        /\ DOMAIN jobs \subseteq DOMAIN jobs'
    BY <1>1, <1>3, <1>5, NewJobMeans
  <2> QED
    BY <1>1, <1>5, <2>1, NewJobMeans DEF finalSql
<1> QED
  BY <1>4, <1>5 DEF ReturnJob, finalSql

\* check turns into get.
LEMMA GetNext ==
  ASSUME NEW q \in Request, q.pc = "check"
  PROVE  LET n == [q EXCEPT !.pc = "get"]
         IN  n \in Request /\ n.pc = "get" /\ n.id = q.id
<1>1. q \in [pc : {"check", "get"}, id : Nat]
  BY RequestFields
<1> QED
  BY <1>1 DEF Request

\* Questions: types, and what they leave alone.
LEMMA AskingFrame ==
  ASSUME Base, Asking
  PROVE  /\ QuestionsOK' /\ RequestsOK' /\ UNCHANGED <<board, targets>>
         /\ Keeps(ChoiceSteps \cup {"add", "target"})
<1> DEFINE K == ChoiceSteps \cup {"add", "target"}
           Goal == /\ QuestionsOK' /\ RequestsOK' /\ UNCHANGED <<board, targets>>
                   /\ Keeps(K)
<1>0. /\ TypeOK /\ QuestionsOK /\ \A r \in Requests : reqs[r] \in Request
      /\ intent \in BOOLEAN
      /\ template # None => template \in Template
      /\ made \in Nat /\ Len(sessions) \in Nat /\ Len(jobs) \in Nat
  BY BaseParts, WorkspaceAssumption DEF Base, QuestionsOK, RequestsOK
<1>k. K \cap {"classify", "check", "get", "run", "record", "toggle", "drop",
              "idle"} = {}
  BY DEF ChoiceSteps
\* The forms a step takes: one request changes its slot, or none does.
<1>s. ASSUME NEW r \in Requests, NEW q \in Request, UNCHANGED made,
             q.pc \notin K, reqs' = [reqs EXCEPT ![r] = q]
      PROVE  RequestsOK' /\ Keeps(K)
  BY <1>0, <1>s, SlotMeans DEF RequestsOK, TypeOK
<1>b. ASSUME NEW r \in Requests, NEW q \in Request, q.pc \notin K, Begin(r, q)
      PROVE  RequestsOK' /\ Keeps(K)
  BY <1>0, <1>b, BeginMeans DEF RequestsOK
<1>f. ASSUME NEW r \in Requests, Finish(r) PROVE RequestsOK' /\ Keeps(K)
  BY <1>0, <1>k, <1>f, FinishMeans DEF RequestsOK
<1>c. ASSUME Count, UNCHANGED reqs PROVE RequestsOK' /\ Keeps(K)
  BY <1>0, <1>c, CountMeans DEF RequestsOK
<1>1. ASSUME NEW r \in Requests, ProcessQuery(r) PROVE Goal
  <2> DEFINE q == [pc |-> "classify", seen |-> intent]
  <2>1. Begin(r, q) /\ UNCHANGED <<board, targets, nlq>>
    BY <1>1 DEF ProcessQuery
  <2>2. q \in Request /\ q.pc = "classify"
    BY <1>0 DEF Request
  <2> HIDE DEF q
  <2> QED
    BY <1>0, <1>b, <1>k, <2>1, <2>2 DEF QuestionsOK, nlq
<1>2. ASSUME NEW r \in Requests, CreateSession(r) PROVE Goal
  <2>1. UNCHANGED <<board, targets, intent, template, jobs>>
    BY <1>2 DEF CreateSession
  <2>2. CASE NewSession("no_intent") /\ Finish(r)
    BY <1>0, <1>f, <2>1, <2>2, NewSessionMeans DEF QuestionsOK
  <2>3. CASE NewSession("pending") /\ reqs' = [reqs EXCEPT ![r] =
               [pc |-> "check", id |-> Len(sessions) + 1]] /\ UNCHANGED made
    <3>1. [pc |-> "check", id |-> Len(sessions) + 1] \in Request
      BY <1>0 DEF Request
    <3> QED
      BY <1>0, <1>k, <1>s, <2>1, <2>3, <3>1, NewSessionMeans DEF QuestionsOK
  <2>4. CASE Finish(r) /\ UNCHANGED sessions
    BY <1>0, <1>f, <2>1, <2>4 DEF QuestionsOK
  <2> QED
    BY <1>2, <2>2, <2>3, <2>4 DEF CreateSession
<1>3. ASSUME NEW r \in Requests, CheckTemplate(r) PROVE Goal
  <2>1. /\ UNCHANGED <<board, targets, intent, template, jobs>>
        /\ reqs[r].pc = "check"
    BY <1>3 DEF CheckTemplate
  <2>2. CASE Settle(r, "disabled") \/ Settle(r, "success")
    BY <1>0, <1>f, <2>1, <2>2, SettleMeans DEF QuestionsOK
  <2>3. CASE Goto(r, "get") /\ UNCHANGED sessions
    <3> DEFINE q == [reqs[r] EXCEPT !.pc = "get"]
    <3>1. q \in Request /\ q.pc = "get"
      BY <1>0, <2>1, GetNext
    <3>2. reqs' = [reqs EXCEPT ![r] = q] /\ UNCHANGED made
      BY <1>0, <2>3 DEF Goto
    <3> HIDE DEF q
    <3> QED
      BY <1>0, <1>k, <1>s, <2>1, <2>3, <3>1, <3>2 DEF QuestionsOK
  <2> QED
    BY <1>3, <2>2, <2>3 DEF CheckTemplate
<1>4. ASSUME NEW r \in Requests, GetTemplate(r) PROVE Goal
  <2>1. /\ UNCHANGED <<board, targets, intent, template, jobs>>
        /\ reqs[r].pc = "get"
    BY <1>4 DEF GetTemplate
  <2>2. CASE Settle(r, "error")
    BY <1>0, <1>f, <2>1, <2>2, SettleMeans DEF QuestionsOK
  <2>3. CASE template # None /\ UNCHANGED <<sessions, made>> /\
             reqs' = [reqs EXCEPT ![r] = [pc |-> "run", id |-> reqs[r].id,
                                          sql |-> template.sql]]
    <3> DEFINE q == [pc |-> "run", id |-> reqs[r].id, sql |-> template.sql]
    <3>1. reqs[r].id \in Nat /\ template.sql \in Sql
      BY <1>0, <2>1, <2>3, RequestFields DEF Template
    <3>2. q \in Request /\ q.pc = "run"
      BY <3>1 DEF Request
    <3> HIDE DEF q
    <3> QED
      BY <1>0, <1>k, <1>s, <2>1, <2>3, <3>2 DEF QuestionsOK, q
  <2> QED
    BY <1>4, <2>2, <2>3 DEF GetTemplate
<1>5. ASSUME NEW r \in Requests, Execute(r) PROVE Goal
  <2>1. UNCHANGED <<board, targets, intent, template>> /\ reqs[r].pc = "run"
    BY <1>5 DEF Execute
  <2>2. CASE Settle(r, "error") /\ UNCHANGED jobs
    BY <1>0, <1>f, <2>1, <2>2, SettleMeans DEF QuestionsOK
  <2>3. ASSUME NEW c \in Configs, ReturnJob(r, c) PROVE Goal
    <3>0. reqs[r].id \in Nat /\ reqs[r].sql \in Sql
      BY <1>0, <2>1, RequestFields
    <3>1. PICK j \in Nat : Recording(r, j)
      BY <2>3, <3>0, ReturnMeans
    <3> DEFINE q == [pc |-> "record", id |-> reqs[r].id, sql |-> reqs[r].sql,
                     job |-> j]
    <3>2. q \in Request /\ q.pc = "record"
      BY <3>0 DEF Request
    <3>3. reqs' = [reqs EXCEPT ![r] = q] /\ UNCHANGED <<sessions, made>>
      BY <3>1 DEF Recording
    <3>4. jobs' \in Seq(FinalSql)
      BY <2>3, <3>0, ReturnMeans
    <3> HIDE DEF q
    <3> QED
      BY <1>0, <1>k, <1>s, <2>1, <3>2, <3>3, <3>4 DEF QuestionsOK
  <2> QED
    BY <1>5, <2>2, <2>3 DEF Execute
<1>6. ASSUME NEW r \in Requests, Record(r) PROVE Goal
  <2> DEFINE row == [status |-> "success", job |-> reqs[r].job,
                     sql |-> reqs[r].sql]
  <2>1. /\ UNCHANGED <<board, targets, intent, template, jobs>>
        /\ reqs[r].pc = "record" /\ Finish(r)
        /\ sessions' = [sessions EXCEPT ![reqs[r].id] = row]
    BY <1>6 DEF Record
  <2>2. row \in Session
    BY <1>0, <2>1, RequestFields DEF Session
  <2> HIDE DEF row
  <2> QED
    BY <1>0, <1>f, <2>1, <2>2, SessionWritten DEF QuestionsOK
<1>7. ASSUME NEW r \in Requests, ToggleNlqTemplate(r) PROVE Goal
  <2> DEFINE q == [pc |-> "toggle", id |-> template.id, to |-> ~template.active]
  <2>1. Begin(r, q) /\ UNCHANGED <<board, targets, nlq>> /\ template # None
    BY <1>7 DEF ToggleNlqTemplate
  <2>2. template.id \in Nat /\ template.active \in BOOLEAN
    BY <1>0, <2>1 DEF Template
  <2>3. q \in Request /\ q.pc = "toggle"
    BY <2>2 DEF Request
  <2> HIDE DEF q
  <2> QED
    BY <1>0, <1>b, <1>k, <2>1, <2>3 DEF QuestionsOK, nlq
<1>8. ASSUME NEW r \in Requests, StoreToggle(r) PROVE Goal
  <2>1. /\ UNCHANGED <<board, targets, intent, sessions, jobs>>
        /\ reqs[r].pc = "toggle" /\ Finish(r)
        /\ \/ template' = template
           \/ template # None /\ template' = [template EXCEPT !.active = reqs[r].to]
    BY <1>8 DEF StoreToggle
  <2>2. reqs[r].to \in BOOLEAN
    BY <1>0, <2>1, RequestFields
  <2>3. QuestionsOK'
    BY <1>0, <2>1, <2>2 DEF QuestionsOK, Template
  <2> QED
    BY <1>f, <2>1, <2>3
<1>9. ASSUME NEW r \in Requests, DeleteNlqIntent(r) PROVE Goal
  <2> DEFINE q == [pc |-> "drop"]
  <2>1. /\ Begin(r, q) /\ template' = None
        /\ UNCHANGED <<board, targets, intent, sessions, jobs>>
    BY <1>9 DEF DeleteNlqIntent
  <2>2. q \in Request /\ q.pc = "drop"
    BY DEF Request
  <2> HIDE DEF q
  <2> QED
    BY <1>0, <1>b, <1>k, <2>1, <2>2 DEF QuestionsOK
<1>10. ASSUME NEW r \in Requests, DropIntent(r) PROVE Goal
  BY <1>0, <1>f, <1>10 DEF DropIntent, QuestionsOK
<1>11. CASE CreateNlqIntent
  BY <1>0, <1>c, <1>11 DEF CreateNlqIntent, QuestionsOK
<1>12. CASE DeleteNlqTemplate
  BY <1>0, <1>c, <1>12 DEF DeleteNlqTemplate, QuestionsOK
<1>13. ASSUME NEW sql \in Sql, CreateNlqTemplate(sql) PROVE Goal
  <2>1. [id |-> made + 1, sql |-> sql, active |-> TRUE] \in Template
    BY <1>0 DEF Template
  <2> QED
    BY <1>0, <1>c, <1>13, <2>1 DEF CreateNlqTemplate, QuestionsOK
<1>14. ASSUME NEW sql \in Sql, UpdateNlqTemplate(sql) PROVE Goal
  <2>1. template # None /\ [template EXCEPT !.sql = sql] \in Template
    BY <1>0, <1>14 DEF UpdateNlqTemplate, Template
  <2> QED
    BY <1>0, <1>c, <1>14, <2>1 DEF UpdateNlqTemplate, QuestionsOK
<1> QED
  BY <1>1, <1>2, <1>3, <1>4, <1>5, <1>6, <1>7, <1>8, <1>9, <1>10, <1>11, <1>12,
     <1>13, <1>14 DEF Asking

\* A worker that dies, and what does not happen.
LEMMA QuietFrame ==
  ASSUME Base, (\E r \in Requests : Crash(r)) \/ Done \/ UNCHANGED vars
  PROVE  /\ RequestsOK' /\ UNCHANGED <<board, targets, nlq>>
         /\ \A pcs : "idle" \notin pcs => Keeps(pcs)
<1>0. TypeOK
  BY DEF Base
<1>1. CASE UNCHANGED vars
  <2>1. UNCHANGED <<reqs, made, board, targets, nlq>>
    BY <1>1 DEF vars
  <2> QED
    BY <1>0, <2>1 DEF RequestsOK, TypeOK, Keeps
<1>2. CASE Done
  BY <1>1, <1>2 DEF Done
<1>3. ASSUME NEW r \in Requests, Crash(r)
      PROVE  /\ RequestsOK' /\ UNCHANGED <<board, targets, nlq>>
             /\ \A pcs : "idle" \notin pcs => Keeps(pcs)
  BY <1>0, <1>3, FinishMeans DEF Crash, RequestsOK
<1> QED
  BY <1>1, <1>2, <1>3

\* The first state is well typed.
LEMMA InitBase == Init => Base
<1> SUFFICES ASSUME Init PROVE Base
  OBVIOUS
<1>1. PICK u \in Users :
        dash = [d \in Dashboards |->
                  [life |-> IF d = 1 THEN "here" ELSE "none", isDefault |-> FALSE,
                   owner |-> IF d = 1 THEN u ELSE None]]
  BY DEF Init
<1>2. \A d \in Dashboards :
        [life |-> IF d = 1 THEN "here" ELSE "none", isDefault |-> FALSE,
         owner |-> IF d = 1 THEN u ELSE None] \in Dashboard
  BY DEF Dashboard, Lives
<1>3. dash \in [Dashboards -> Dashboard]
  BY <1>1, <1>2
<1>4. DashboardsAreOwned
  BY <1>1, WorkspaceAssumption DEF DashboardsAreOwned
<1>5. BoardOK
  BY <1>3, <1>4 DEF Init, BoardOK, Nowhere
<1>6. TargetsOK
  BY DEF Init, TargetsOK, NoTarget, Target, Lives
<1>7. QuestionsOK
  <2>1. /\ template \in [id : {0}, sql : Sql, active : {TRUE}]
        /\ intent = TRUE /\ sessions = <<>> /\ jobs = <<>>
    BY DEF Init
  <2>2. PICK sql \in Sql : template = [id |-> 0, sql |-> sql, active |-> TRUE]
    BY <2>1
  <2>3. template \in Template
    BY <2>2 DEF Template
  <2> QED
    BY <2>1, <2>3 DEF QuestionsOK
<1>8. RequestsOK
  BY IdleType, WorkspaceAssumption DEF Init, RequestsOK
<1> QED
  BY <1>5, <1>6, <1>7, <1>8, BaseParts

\* Every step keeps the tables typed.
LEMMA NextBase == Base /\ [Next]_vars => Base'
<1> SUFFICES ASSUME Base, [Next]_vars PROVE Base'
  OBVIOUS
<1>0. BoardOK /\ TargetsOK /\ QuestionsOK
  BY BaseParts
<1>1. ASSUME UNCHANGED board PROVE BoardOK'
  BY <1>0, <1>1 DEF BoardOK, board, DashboardsAreOwned
<1>2. ASSUME UNCHANGED targets PROVE TargetsOK'
  BY <1>0, <1>2 DEF TargetsOK
<1>3. ASSUME UNCHANGED nlq PROVE QuestionsOK'
  BY <1>0, <1>3 DEF QuestionsOK, nlq
<1>4. CASE Dashboarding
  BY <1>2, <1>3, <1>4, DashboardingFrame, BaseParts2
<1>5. CASE Targeting
  BY <1>1, <1>3, <1>5, TargetingFrame, BaseParts2
<1>6. CASE Asking
  BY <1>1, <1>2, <1>6, AskingFrame, BaseParts2
<1>7. CASE (\E r \in Requests : Crash(r)) \/ Done \/ UNCHANGED vars
  BY <1>1, <1>2, <1>3, <1>7, QuietFrame, BaseParts2
<1> QED
  BY <1>4, <1>5, <1>6, <1>7 DEF Next

\* Dashboards, widgets, targets, templates, sessions and requests are always
\* well typed: no widget is left on a dashboard that is gone, and no template
\* without its intent, whatever the requests interleave.
THEOREM TypeCorrect == Spec => []TypeOK
<1>1. Base => TypeOK
  BY DEF Base
<1> QED
  BY <1>1, InitBase, NextBase, PTL DEF Spec

----------------------------------------------------------------------------
(* Targets                                                                 *)

\* One row is replaced; the others have the reference they need.
LEMMA OneTarget ==
  ASSUME TargetsOK, TargetsHaveReferences, NEW i, NEW new \in Target,
         targets' = [targets EXCEPT ![i] = new],
         new.life = "here" /\ new.type = "DELTA_PERCENT" /\ ~new.torn => new.ref
  PROVE  TargetsHaveReferences'
BY DEF TargetsOK, TargetsHaveReferences, Here

\* Checks of updates under way stay true of what they read.
LEMMA ChecksKept ==
  ASSUME ChecksHold, Keeps({"target"})
  PROVE  ChecksHold'
BY DEF ChecksHold, Keeps, NewType, NewReference

\* The steps that read or write targets keep what was checked.
LEMMA TargetingStep ==
  ASSUME Base, TargetsInv, Targeting
  PROVE  TargetsInv'
<1>0. /\ TypeOK /\ TargetsOK /\ \A r \in Requests : reqs[r] \in Request
      /\ \A t \in DOMAIN targets : t \in 1..MaxTargets /\ targets[t] \in Target
      /\ ChecksHold /\ TargetsHaveReferences
  BY BaseParts DEF Base, TargetsOK, RequestsOK, TargetsInv
<1>1. ASSUME NEW y \in Years, NEW ref \in BOOLEAN,
             NEW type \in {"ABSOLUTE", "DELTA_PERCENT"}, CreateTarget(y, type, ref)
      PROVE  TargetsInv'
  <2>1. PICK i, new :
          /\ new = [life |-> "here", year |-> y, type |-> type, ref |-> ref,
                    torn |-> FALSE]
          /\ targets' = [targets EXCEPT ![i] = new]
    BY <1>0, <1>1, CreateTargetMeans
  <2>2. new \in Target /\ (new.type = "DELTA_PERCENT" => new.ref)
    BY <1>0, <1>1, <2>1, CreateTargetMeans DEF Target, Lives
  <2>3. TargetsHaveReferences'
    BY <1>0, <2>1, <2>2, OneTarget
  <2>4. ChecksHold'
    BY <1>0, <1>1, CountMeans, ChecksKept DEF CreateTarget
  <2> QED
    BY <2>3, <2>4 DEF TargetsInv
<1>2. ASSUME NEW t \in DOMAIN targets, RemoveTarget(t) PROVE TargetsInv'
  <2> DEFINE new == [NoTarget EXCEPT !.life = "gone"]
  <2>1. targets' = [targets EXCEPT ![t] = new] /\ Count /\ UNCHANGED reqs
    BY <1>2 DEF RemoveTarget
  <2>2. new \in Target /\ new.life # "here"
    BY DEF NoTarget, Target, Lives
  <2> HIDE DEF new
  <2>3. TargetsHaveReferences'
    BY <1>0, <2>1, <2>2, OneTarget
  <2>4. ChecksHold'
    BY <1>0, <2>1, CountMeans, ChecksKept
  <2> QED
    BY <2>3, <2>4 DEF TargetsInv
<1>3. ASSUME NEW t \in DOMAIN targets, NEW r \in Requests, NEW dto \in TargetDto,
             UpdateTarget(r, t, dto)
      PROVE  TargetsInv'
  <2> DEFINE q == [pc |-> "target", id |-> t, dto |-> dto, seen |-> targets[t]]
  <2>1. /\ Begin(r, q) /\ targets' = targets
        /\ NewType(dto, targets[t]) = "DELTA_PERCENT"
             => NewReference(dto, targets[t])
    BY <1>3 DEF UpdateTarget
  <2>2. q \in Request /\ q.dto = dto /\ q.seen = targets[t]
    BY <1>0 DEF Request
  <2> HIDE DEF q
  <2>3. reqs'[r] = q /\ \A s \in Requests \ {r} : reqs'[s] = reqs[s]
    BY <1>0, <2>1, <2>2, BeginMeans
  <2>4. ChecksHold'
    BY <1>0, <2>1, <2>2, <2>3 DEF ChecksHold
  <2>5. TargetsHaveReferences'
    BY <1>0, <2>1 DEF TargetsHaveReferences, Here
  <2> QED
    BY <2>4, <2>5 DEF TargetsInv
<1>4. ASSUME NEW r \in Requests, WriteTarget(r) PROVE TargetsInv'
  <2> DEFINE q == reqs[r]
             row == targets[q.id]
             b == (q.dto.ref = "null" \/ row # q.seen)
             new == [Written(q.dto, row) EXCEPT !.torn = b]
  <2>1. /\ q.pc = "target" /\ Finish(r)
        /\ targets' = [targets EXCEPT ![q.id] = new] \/ targets' = targets
    BY <1>4 DEF WriteTarget
  <2>2. q.id \in 1..MaxTargets /\ q.dto \in TargetDto
    BY <1>0, <2>1, RequestFields
  <2>3. row \in Target /\ b \in BOOLEAN
    BY <1>0, <2>2 DEF TargetsOK
  <2>4. ~b => row = q.seen /\ q.dto.ref # "null"
    OBVIOUS
  <2> HIDE DEF b
  <2>5. /\ new \in Target /\ new.torn = b /\ new.type = NewType(q.dto, row)
        /\ new.ref = IF q.dto.ref = None THEN row.ref ELSE q.dto.ref = "given"
    BY <2>2, <2>3, WrittenType
  <2> HIDE DEF new, row
  <2>6. ~new.torn /\ new.type = "DELTA_PERCENT" => new.ref
    <3> SUFFICES ASSUME ~b, NewType(q.dto, row) = "DELTA_PERCENT" PROVE new.ref
      BY <2>5
    <3>1. NewReference(q.dto, row)
      BY <1>0, <2>1, <2>4 DEF ChecksHold
    <3>2. q.dto.ref \in {"given", None}
      BY <2>2, <2>4 DEF TargetDto
    <3> QED
      BY <2>5, <3>1, <3>2, WorkspaceAssumption DEF NewReference
  <2>7. TargetsHaveReferences'
    <3>1. CASE targets' = [targets EXCEPT ![q.id] = new]
      BY <1>0, <2>5, <2>6, <3>1, OneTarget
    <3>2. CASE targets' = targets
      BY <1>0, <3>2 DEF TargetsHaveReferences, Here
    <3> QED
      BY <2>1, <3>1, <3>2
  <2>8. ChecksHold'
    BY <1>0, <2>1, FinishMeans, ChecksKept
  <2> QED
    BY <2>7, <2>8 DEF TargetsInv
<1> QED
  BY <1>1, <1>2, <1>3, <1>4 DEF Targeting

\* Every other step leaves targets and their updates alone.
LEMMA NextTargets == Base /\ TargetsInv /\ [Next]_vars => TargetsInv'
<1> SUFFICES ASSUME Base, TargetsInv, [Next]_vars PROVE TargetsInv'
  OBVIOUS
<1>1. ASSUME UNCHANGED targets, Keeps({"target"}) PROVE TargetsInv'
  BY <1>1, ChecksKept DEF TargetsInv, TargetsHaveReferences, Here
<1>2. ASSUME NEW pcs, "target" \in pcs, Keeps(pcs) PROVE Keeps({"target"})
  BY <1>2 DEF Keeps
<1>3. CASE Dashboarding
  BY <1>1, <1>2, <1>3, DashboardingFrame
<1>4. CASE Asking
  BY <1>1, <1>2, <1>4, AskingFrame
<1>5. CASE (\E r \in Requests : Crash(r)) \/ Done \/ UNCHANGED vars
  BY <1>1, <1>5, QuietFrame
<1> QED
  BY <1>3, <1>4, <1>5, TargetingStep DEF Next

\* Whatever creates, updates and removals interleave, a target in percent has
\* its reference, unless an update set it to null or overtook another one.
THEOREM TargetsKeepReferences == Spec => []TargetsHaveReferences
<1>1. Init => TargetsInv
  BY IdleType DEF Init, TargetsInv, ChecksHold, TargetsHaveReferences, Here, NoTarget
<1>2. TargetsInv => TargetsHaveReferences
  BY DEF TargetsInv
<1> QED
  BY <1>1, <1>2, InitBase, NextBase, NextTargets, PTL DEF Spec

----------------------------------------------------------------------------
(* Sessions                                                                *)

\* What is asked of one request that answers, and of two.
Open(r) == /\ reqs[r].id \in DOMAIN sessions
           /\ sessions[reqs[r].id].sql = None
Apart(r, q) == reqs[q].pc \in Answering => reqs[q].id # reqs[r].id

\* The same invariant, request by request.
LEMMA SessionParts ==
  SessionsInv <=>
    /\ \A r \in Requests : reqs[r].pc \in Answering => Open(r)
    /\ \A r \in Requests : \A q \in Requests \ {r} :
         reqs[r].pc \in Answering => Apart(r, q)
    /\ RecordsAreTrue /\ JobsRanTheRecordedText
BY DEF SessionsInv, SessionsAreOpen, Open, Apart

\* Sessions and jobs stay, and no request is further than before.
LEMMA SessionsKept ==
  ASSUME SessionsInv, Keeps(Answering), UNCHANGED <<sessions, jobs>>
  PROVE  SessionsInv'
<1>1. \A r \in Requests : reqs'[r].pc \in Answering => reqs'[r] = reqs[r]
  BY DEF Keeps
<1>2. SessionsAreOpen'
  BY <1>1 DEF SessionsInv, SessionsAreOpen
<1>3. RecordsAreTrue'
  BY <1>1 DEF SessionsInv, RecordsAreTrue, Answering
<1>4. JobsRanTheRecordedText'
  BY DEF SessionsInv, JobsRanTheRecordedText
<1> QED
  BY <1>2, <1>3, <1>4 DEF SessionsInv

\* One request goes on, or ends, with its own session; the rows it may have
\* changed are that one and new ones.
LEMMA SessionStep ==
  ASSUME Base, SessionsInv, NEW r \in Requests, NEW q,
         reqs'[r] = q, \A s \in Requests \ {r} : reqs'[s] = reqs[s],
         DOMAIN sessions \subseteq DOMAIN sessions',
         DOMAIN jobs \subseteq DOMAIN jobs',
         \A j \in DOMAIN jobs : jobs'[j] = jobs[j],
         \A s \in DOMAIN sessions :
           \/ sessions'[s] = sessions[s]
           \/ reqs[r].pc \in Answering /\ s = reqs[r].id,
         JobsRanTheRecordedText',
         q.pc \in Answering =>
           /\ q.id \in DOMAIN sessions' /\ sessions'[q.id].sql = None
           /\ \/ reqs[r].pc \in Answering /\ q.id = reqs[r].id
              \/ q.id \notin DOMAIN sessions,
         q.pc = "record" => /\ q.job \in DOMAIN jobs'
                            /\ \E c \in Configs : jobs'[q.job] = Filled[q.sql][c]
  PROVE  SessionsInv'
<1>0. /\ \A s \in Requests : reqs[s].pc \in Answering => Open(s)
      /\ \A s \in Requests : \A t \in Requests \ {s} :
           reqs[s].pc \in Answering => Apart(s, t)
      /\ RecordsAreTrue
  BY SessionParts
<1>1. ASSUME NEW s \in Requests, reqs'[s].pc \in Answering PROVE Open(s)'
  <2>1. CASE s = r
    BY <1>1, <2>1 DEF Open
  <2>2. CASE s # r
    <3>1. reqs'[s] = reqs[s] /\ Open(s)
      BY <1>0, <1>1, <2>2
    <3>2. reqs[r].pc \in Answering => reqs[s].id # reqs[r].id
      BY <1>0, <1>1, <2>2, <3>1 DEF Apart
    <3> QED
      BY <3>1, <3>2 DEF Open
  <2> QED
    BY <2>1, <2>2
<1>2. ASSUME NEW s \in Requests, reqs'[s].pc \in Answering,
             NEW t \in Requests \ {s}, reqs'[t].pc \in Answering
      PROVE  reqs'[t].id # reqs'[s].id
  <2>1. ASSUME NEW x \in Requests \ {r}, reqs'[x].pc \in Answering, q.pc \in Answering
        PROVE  reqs'[x].id # q.id
    <3>1. reqs'[x] = reqs[x] /\ Open(x)
      BY <1>0, <2>1
    <3>2. reqs[r].pc \in Answering => reqs[x].id # reqs[r].id
      BY <1>0, <2>1, <3>1 DEF Apart
    <3> QED
      BY <2>1, <3>1, <3>2 DEF Open
  <2>2. CASE s = r
    BY <1>2, <2>1, <2>2
  <2>3. CASE t = r
    BY <1>2, <2>1, <2>3
  <2>4. CASE s # r /\ t # r
    BY <1>0, <1>2, <2>4 DEF Apart
  <2> QED
    BY <2>2, <2>3, <2>4
<1>3. RecordsAreTrue'
  BY <1>0 DEF RecordsAreTrue
<1>4. SessionsAreOpen'
  BY <1>1, <1>2 DEF SessionsAreOpen, Open
<1> QED
  BY <1>3, <1>4 DEF SessionsInv

\* A status that changes where there is no SQL, and jobs that are added, take
\* nothing from what sessions recorded.
LEMMA RecordsKept ==
  ASSUME JobsRanTheRecordedText,
         DOMAIN jobs \subseteq DOMAIN jobs',
         \A j \in DOMAIN jobs : jobs'[j] = jobs[j],
         \A s \in DOMAIN sessions' :
           \/ sessions'[s].sql = None
           \/ s \in DOMAIN sessions /\ sessions'[s] = sessions[s]
  PROVE  JobsRanTheRecordedText'
BY DEF JobsRanTheRecordedText

\* A question that ends with the given status records no SQL.
LEMMA SettleStep ==
  ASSUME Base, SessionsInv, NEW r \in Requests, reqs[r].pc \in Answering,
         NEW status \in {"no_intent", "disabled", "success", "error"},
         Settle(r, status), UNCHANGED jobs
  PROVE  SessionsInv'
<1>1. /\ DOMAIN sessions' = DOMAIN sessions
      /\ \A s \in DOMAIN sessions :
           /\ sessions'[s].sql = sessions[s].sql
           /\ s # reqs[r].id => sessions'[s] = sessions[s]
      /\ Finish(r)
  BY SettleMeans
<1>2. reqs'[r] = Idle /\ \A s \in Requests \ {r} : reqs'[s] = reqs[s]
  BY <1>1, FinishMeans DEF Base
<1>3. Idle.pc \notin Answering /\ Idle.pc # "record"
  BY IdleType DEF Answering
<1>4. sessions[reqs[r].id].sql = None
  BY DEF SessionsInv, SessionsAreOpen
<1>5. JobsRanTheRecordedText'
  BY <1>1, <1>4, RecordsKept DEF SessionsInv
<1> QED
  BY <1>1, <1>2, <1>3, <1>5, SessionStep

\* Questions, and the administrator beside them.
LEMMA AskingStep ==
  ASSUME Base, SessionsInv, Asking
  PROVE  SessionsInv'
<1>0. /\ TypeOK /\ \A r \in Requests : reqs[r] \in Request
      /\ JobsRanTheRecordedText
      /\ \A r \in Requests : reqs[r].pc \in Answering =>
           reqs[r].id \in DOMAIN sessions /\ sessions[reqs[r].id].sql = None
      /\ Len(jobs) \in Nat
      /\ template # None => template \in Template
  BY BaseParts DEF Base, QuestionsOK, RequestsOK, SessionsInv, SessionsAreOpen
<1>a. "idle" \notin Answering
  BY DEF Answering
<1>b. ASSUME NEW r \in Requests, NEW q \in Request, q.pc \notin Answering,
             Begin(r, q), UNCHANGED <<sessions, jobs>>
      PROVE  SessionsInv'
  BY <1>0, <1>b, BeginMeans, SessionsKept
<1>f. ASSUME NEW r \in Requests, Finish(r), UNCHANGED <<sessions, jobs>>
      PROVE  SessionsInv'
  BY <1>0, <1>a, <1>f, FinishMeans, SessionsKept
<1>c. ASSUME Count, UNCHANGED <<reqs, sessions, jobs>> PROVE SessionsInv'
  BY <1>0, <1>c, CountMeans, SessionsKept
<1>1. ASSUME NEW r \in Requests, ProcessQuery(r) PROVE SessionsInv'
  <2> DEFINE q == [pc |-> "classify", seen |-> intent]
  <2>1. Begin(r, q) /\ UNCHANGED <<sessions, jobs>>
    BY <1>1 DEF ProcessQuery, nlq
  <2>2. q \in Request /\ q.pc \notin Answering
    BY <1>0 DEF Request, Answering, TypeOK
  <2> HIDE DEF q
  <2> QED
    BY <1>b, <2>1, <2>2
<1>2. ASSUME NEW r \in Requests, CreateSession(r) PROVE SessionsInv'
  <2>1. UNCHANGED jobs
    BY <1>2 DEF CreateSession
  <2>2. ASSUME NEW status \in {"no_intent", "pending"}, NewSession(status)
        PROVE  /\ JobsRanTheRecordedText'
               /\ DOMAIN sessions \subseteq DOMAIN sessions'
               /\ \A s \in DOMAIN sessions : sessions'[s] = sessions[s]
               /\ Len(sessions) + 1 \in DOMAIN sessions' \ DOMAIN sessions
               /\ sessions'[Len(sessions) + 1].sql = None
    <3>1. /\ DOMAIN sessions = 1..Len(sessions) /\ Len(sessions) \in Nat
          /\ DOMAIN sessions' = 1..(Len(sessions) + 1)
          /\ sessions'[Len(sessions) + 1].sql = None
          /\ \A s \in DOMAIN sessions : sessions'[s] = sessions[s]
      BY <2>2, NewSessionMeans
    <3>2. /\ DOMAIN sessions \subseteq DOMAIN sessions'
          /\ Len(sessions) + 1 \in DOMAIN sessions' \ DOMAIN sessions
          /\ \A s \in DOMAIN sessions' :
               s = Len(sessions) + 1 \/ s \in DOMAIN sessions
      BY <3>1
    <3>3. JobsRanTheRecordedText'
      BY <1>0, <2>1, <3>1, <3>2, RecordsKept
    <3> QED
      BY <3>1, <3>2, <3>3
  <2>3. CASE NewSession("no_intent") /\ Finish(r)
    <3>1. reqs'[r] = Idle /\ \A s \in Requests \ {r} : reqs'[s] = reqs[s]
      BY <1>0, <2>3, FinishMeans
    <3>2. Idle.pc \notin Answering /\ Idle.pc # "record"
      BY IdleType DEF Answering
    <3>3. /\ JobsRanTheRecordedText' /\ DOMAIN sessions \subseteq DOMAIN sessions'
          /\ \A s \in DOMAIN sessions : sessions'[s] = sessions[s]
      BY <2>2, <2>3
    <3> QED
      BY <2>1, <3>1, <3>2, <3>3, SessionStep
  <2>4. CASE NewSession("pending") /\ reqs' = [reqs EXCEPT ![r] =
               [pc |-> "check", id |-> Len(sessions) + 1]]
    <3> DEFINE q == [pc |-> "check", id |-> Len(sessions) + 1]
    <3>1. q.pc = "check" /\ q.id = Len(sessions) + 1
      OBVIOUS
    <3>2. reqs'[r] = q /\ \A s \in Requests \ {r} : reqs'[s] = reqs[s]
      BY <2>4 DEF Base, TypeOK
    <3> HIDE DEF q
    <3>3. /\ JobsRanTheRecordedText' /\ DOMAIN sessions \subseteq DOMAIN sessions'
          /\ \A s \in DOMAIN sessions : sessions'[s] = sessions[s]
          /\ q.id \in DOMAIN sessions' \ DOMAIN sessions
          /\ sessions'[q.id].sql = None
      BY <2>2, <2>4, <3>1
    <3> QED
      BY <2>1, <3>1, <3>2, <3>3, SessionStep
  <2>5. CASE Finish(r) /\ UNCHANGED sessions
    BY <1>f, <2>1, <2>5
  <2> QED
    BY <1>2, <2>3, <2>4, <2>5 DEF CreateSession
<1>3. ASSUME NEW r \in Requests, CheckTemplate(r) PROVE SessionsInv'
  <2>1. UNCHANGED jobs /\ reqs[r].pc = "check" /\ reqs[r].pc \in Answering
    BY <1>3 DEF CheckTemplate, Answering
  <2>2. CASE Settle(r, "disabled") \/ Settle(r, "success")
    BY <2>1, <2>2, SettleStep
  <2>3. CASE Goto(r, "get") /\ UNCHANGED sessions
    <3> DEFINE q == [reqs[r] EXCEPT !.pc = "get"]
    <3>1. q.pc = "get" /\ q.id = reqs[r].id
      BY <1>0, <2>1, GetNext
    <3>2. reqs'[r] = q /\ \A s \in Requests \ {r} : reqs'[s] = reqs[s]
      BY <2>3 DEF Goto, Base, TypeOK
    <3> HIDE DEF q
    <3>3. JobsRanTheRecordedText'
      BY <1>0, <2>1, <2>3 DEF JobsRanTheRecordedText
    <3> QED
      BY <1>0, <2>1, <2>3, <3>1, <3>2, <3>3, SessionStep
  <2> QED
    BY <1>3, <2>2, <2>3 DEF CheckTemplate
<1>4. ASSUME NEW r \in Requests, GetTemplate(r) PROVE SessionsInv'
  <2>1. UNCHANGED jobs /\ reqs[r].pc = "get" /\ reqs[r].pc \in Answering
    BY <1>4 DEF GetTemplate, Answering
  <2>2. CASE Settle(r, "error")
    BY <2>1, <2>2, SettleStep
  <2>3. CASE UNCHANGED sessions /\
             reqs' = [reqs EXCEPT ![r] = [pc |-> "run", id |-> reqs[r].id,
                                          sql |-> template.sql]]
    <3> DEFINE q == [pc |-> "run", id |-> reqs[r].id, sql |-> template.sql]
    <3>1. q.pc = "run" /\ q.id = reqs[r].id
      OBVIOUS
    <3>2. reqs'[r] = q /\ \A s \in Requests \ {r} : reqs'[s] = reqs[s]
      BY <2>3 DEF Base, TypeOK
    <3> HIDE DEF q
    <3>3. JobsRanTheRecordedText'
      BY <1>0, <2>1, <2>3 DEF JobsRanTheRecordedText
    <3> QED
      BY <1>0, <2>1, <2>3, <3>1, <3>2, <3>3, SessionStep
  <2> QED
    BY <1>4, <2>2, <2>3 DEF GetTemplate
<1>5. ASSUME NEW r \in Requests, Execute(r) PROVE SessionsInv'
  <2>1. reqs[r].pc = "run" /\ reqs[r].pc \in Answering
    BY <1>5 DEF Execute, Answering
  <2>2. CASE Settle(r, "error") /\ UNCHANGED jobs
    BY <2>1, <2>2, SettleStep
  <2>3. ASSUME NEW c \in Configs, ReturnJob(r, c) PROVE SessionsInv'
    <3>0. reqs[r].sql \in Sql
      BY <1>0, <2>1, RequestFields
    <3>1. PICK j \in Nat :
            /\ Recording(r, j) /\ j \in DOMAIN jobs'
            /\ jobs'[j] = Filled[reqs[r].sql][c]
      BY <2>3, <3>0, ReturnMeans
    <3> DEFINE q == [pc |-> "record", id |-> reqs[r].id, sql |-> reqs[r].sql,
                     job |-> j]
    <3>2. /\ q.pc = "record" /\ q.id = reqs[r].id /\ q.sql = reqs[r].sql
          /\ q.job = j
      OBVIOUS
    <3>3. reqs' = [reqs EXCEPT ![r] = q] /\ UNCHANGED sessions
      BY <3>1 DEF Recording
    <3> HIDE DEF q
    <3>4. reqs'[r] = q /\ \A s \in Requests \ {r} : reqs'[s] = reqs[s]
      BY <3>3 DEF Base, TypeOK
    <3>5. /\ DOMAIN jobs \subseteq DOMAIN jobs'
          /\ \A i \in DOMAIN jobs : jobs'[i] = jobs[i]
      BY <2>3, <3>0, ReturnMeans
    <3>6. JobsRanTheRecordedText'
      BY <1>0, <3>3, <3>5, RecordsKept
    <3>7. \E d \in Configs : jobs'[q.job] = Filled[q.sql][d]
      BY <3>1, <3>2
    <3> QED
      BY <1>0, <2>1, <3>1, <3>2, <3>3, <3>4, <3>5, <3>6, <3>7, SessionStep
  <2> QED
    BY <1>5, <2>2, <2>3 DEF Execute
<1>6. ASSUME NEW r \in Requests, Record(r) PROVE SessionsInv'
  <2> DEFINE row == [status |-> "success", job |-> reqs[r].job,
                     sql |-> reqs[r].sql]
  <2>1. /\ UNCHANGED jobs /\ Finish(r)
        /\ reqs[r].pc = "record" /\ reqs[r].pc \in Answering
        /\ sessions' = [sessions EXCEPT ![reqs[r].id] = row]
    BY <1>6 DEF Record, Answering
  <2>2. /\ row \in Session /\ row.status = "success"
        /\ row.job = reqs[r].job /\ row.sql = reqs[r].sql
    BY <1>0, <2>1, RequestFields DEF Session
  <2> HIDE DEF row
  <2>3. /\ DOMAIN sessions' = DOMAIN sessions
        /\ \A s \in DOMAIN sessions :
             sessions'[s] = IF s = reqs[r].id THEN row ELSE sessions[s]
    BY <2>1, <2>2, SessionWritten
  <2>4. /\ reqs[r].job \in DOMAIN jobs
        /\ \E c \in Configs : jobs[reqs[r].job] = Filled[reqs[r].sql][c]
    BY <2>1 DEF SessionsInv, RecordsAreTrue
  <2>5. JobsRanTheRecordedText'
    BY <1>0, <2>1, <2>2, <2>3, <2>4 DEF JobsRanTheRecordedText
  <2>6. reqs'[r] = Idle /\ \A s \in Requests \ {r} : reqs'[s] = reqs[s]
    BY <1>0, <2>1, FinishMeans
  <2>7. Idle.pc \notin Answering /\ Idle.pc # "record"
    BY IdleType DEF Answering
  <2> QED
    BY <2>1, <2>3, <2>5, <2>6, <2>7, SessionStep
<1>7. ASSUME NEW r \in Requests, ToggleNlqTemplate(r) PROVE SessionsInv'
  <2> DEFINE q == [pc |-> "toggle", id |-> template.id, to |-> ~template.active]
  <2>1. Begin(r, q) /\ UNCHANGED <<sessions, jobs>> /\ template # None
    BY <1>7 DEF ToggleNlqTemplate, nlq
  <2>2. template.id \in Nat /\ template.active \in BOOLEAN
    BY <1>0, <2>1 DEF Template
  <2>3. q \in Request /\ q.pc \notin Answering
    BY <2>2 DEF Request, Answering
  <2> HIDE DEF q
  <2> QED
    BY <1>b, <2>1, <2>3
<1>8. ASSUME NEW r \in Requests, StoreToggle(r) \/ DropIntent(r) PROVE SessionsInv'
  BY <1>8, <1>f DEF StoreToggle, DropIntent
<1>9. ASSUME NEW r \in Requests, DeleteNlqIntent(r) PROVE SessionsInv'
  <2> DEFINE q == [pc |-> "drop"]
  <2>1. Begin(r, q) /\ UNCHANGED <<sessions, jobs>>
    BY <1>9 DEF DeleteNlqIntent
  <2>2. q \in Request /\ q.pc \notin Answering
    BY DEF Request, Answering
  <2> HIDE DEF q
  <2> QED
    BY <1>b, <2>1, <2>2
<1>10. CASE CreateNlqIntent \/ DeleteNlqTemplate
  BY <1>10, <1>c DEF CreateNlqIntent, DeleteNlqTemplate
<1>11. ASSUME NEW sql \in Sql, CreateNlqTemplate(sql) \/ UpdateNlqTemplate(sql)
       PROVE  SessionsInv'
  BY <1>11, <1>c DEF CreateNlqTemplate, UpdateNlqTemplate
<1> QED
  BY <1>1, <1>2, <1>3, <1>4, <1>5, <1>6, <1>7, <1>8, <1>9, <1>10, <1>11 DEF Asking

\* Every other step leaves questions alone.
LEMMA NextSessions == Base /\ SessionsInv /\ [Next]_vars => SessionsInv'
<1> SUFFICES ASSUME Base, SessionsInv, [Next]_vars PROVE SessionsInv'
  OBVIOUS
<1>1. ASSUME NEW pcs, Answering \subseteq pcs, Keeps(pcs), UNCHANGED nlq
      PROVE  SessionsInv'
  <2>1. Keeps(Answering)
    BY <1>1 DEF Keeps
  <2> QED
    BY <1>1, <2>1, SessionsKept DEF nlq
<1>2. CASE Dashboarding
  BY <1>1, <1>2, DashboardingFrame
<1>3. CASE Targeting
  BY <1>1, <1>3, TargetingFrame
<1>4. CASE (\E r \in Requests : Crash(r)) \/ Done \/ UNCHANGED vars
  <2>1. UNCHANGED nlq /\ Keeps(Answering)
    BY <1>4, QuietFrame DEF Answering
  <2> QED
    BY <1>1, <2>1
<1> QED
  BY <1>2, <1>3, <1>4, AskingStep DEF Next

\* A session that ended with SQL ended with what its job ran, however the
\* template was edited, switched off or deleted meanwhile.
THEOREM RecordedTextsRan == Spec => []JobsRanTheRecordedText
<1>1. Init => SessionsInv
  BY IdleType DEF Init, SessionsInv, SessionsAreOpen, RecordsAreTrue,
                  JobsRanTheRecordedText, Answering
<1>2. SessionsInv => JobsRanTheRecordedText
  BY DEF SessionsInv
<1> QED
  BY <1>1, <1>2, InitBase, NextBase, NextSessions, PTL DEF Spec

----------------------------------------------------------------------------
(* Default dashboards                                                      *)

\* A set of naturals has a least element.
LEMMA LeastNatural ==
  ASSUME NEW S \in SUBSET Nat, S # {}
  PROVE  Min(S) \in S
<1> DEFINE R == OpToRel(<, Nat)
<1>1. IsWellFoundedOn(R, Nat)
  BY NatLessThanWellFounded
<1>2. \E x \in S : \A y \in S : <<y, x>> \notin R
  <2> HIDE DEF R
  <2> QED
    BY <1>1, WFMin
<1>3. \A x, y \in Nat : <<y, x>> \notin R => x <= y
  BY DEF OpToRel
<1>4. \E x \in S : \A y \in S : x <= y
  BY <1>2, <1>3
<1> QED
  BY <1>4 DEF Min

\* The bound on dashboards makes them finitely many.
LEMMA DashboardsFinite == IsFiniteSet(Dashboards)
<1>1. 1 \in Int /\ MaxDashboards \in Int
  BY WorkspaceAssumption
<1>2. IsFiniteSet(1..MaxDashboards)
  BY <1>1, FS_Interval, Zenon
<1> QED
  BY <1>2 DEF Dashboards

\* Rows and requests can be counted.
LEMMA RoomFinite ==
  ASSUME Base
  PROVE  /\ IsFiniteSet(Free(dash)) /\ Cardinality(Free(dash)) \in Nat
         /\ Free(dash) = {d \in Dashboards : dash[d].life = "none"}
         /\ IsFiniteSet(Inserting) /\ Cardinality(Inserting) \in Nat
<1>1. Free(dash) = {d \in Dashboards : dash[d].life = "none"}
  BY DEF Base, TypeOK, Free
<1>2. IsFiniteSet(Dashboards)
  BY DashboardsFinite
<1>3. Free(dash) \in SUBSET Dashboards /\ Inserting \in SUBSET Requests
  BY <1>1 DEF Inserting
<1>4. IsFiniteSet(Free(dash)) /\ IsFiniteSet(Inserting)
  <2>1. IsFiniteSet(Requests)
    BY WorkspaceAssumption
  <2> QED
    BY <1>2, <1>3, <2>1, FS_Subset
<1> QED
  BY <1>1, <1>4, FS_CardinalityType

\* The row an insert takes is a free one.
LEMMA FreeRow ==
  ASSUME Base, Cardinality(Free(dash)) > 0
  PROVE  Min(Free(dash)) \in Free(dash)
<1>1. Free(dash) # {}
  BY FS_EmptySet
<1>2. Free(dash) \in SUBSET Nat
  BY RoomFinite, WorkspaceAssumption DEF Dashboards
<1> QED
  BY <1>1, <1>2, LeastNatural

\* Rows that were created stay, with their owner.
Stays == \A d \in Dashboards :
           dash[d].life # "none" => /\ dash'[d].life # "none"
                                    /\ dash'[d].owner = dash[d].owner

\* No dashboard becomes a default.
NoNewDefault == \A d \in Dashboards :
                  dash'[d].isDefault => /\ dash[d].isDefault
                                        /\ dash'[d].owner = dash[d].owner

\* Requests that insert may become fewer while the free rows stay.
LEMMA RoomStays ==
  ASSUME Base, RoomIsKept, Inserting' \subseteq Inserting,
         Free(dash)' = Free(dash)
  PROVE  RoomIsKept'
<1>1. /\ IsFiniteSet(Inserting) /\ Cardinality(Inserting) \in Nat
      /\ Cardinality(Free(dash)) \in Nat
  BY RoomFinite
<1>2. IsFiniteSet(Inserting') /\ Cardinality(Inserting') <= Cardinality(Inserting)
  BY <1>1, FS_Subset
<1>3. Cardinality(Inserting') \in Nat
  BY <1>2, FS_CardinalityType
<1> QED
  BY <1>1, <1>2, <1>3 DEF RoomIsKept

\* The free rows are those of before when no row is created.
LEMMA FreeStays ==
  ASSUME Base, dash' \in [Dashboards -> Dashboard],
         \A d \in Dashboards : dash'[d].life = "none" <=> dash[d].life = "none"
  PROVE  Free(dash)' = Free(dash)
BY DEF Base, TypeOK, Free

\* Requests that choose are not joined by others.
LEMMA ChoosingShrinks ==
  ASSUME Keeps(ChoiceSteps), NEW u
  PROVE  Choosing(u)' \subseteq Choosing(u)
BY DEF Keeps, ChoiceSteps, Choosing

\* Nothing is chosen, and no choice begins.
LEMMA DefaultsKept ==
  ASSUME Base, DefaultsInv, Base', Keeps(ChoiceSteps), Stays, NoNewDefault,
         raced' = raced, RoomIsKept'
  PROVE  DefaultsInv'
<1>0. /\ ChoicesAreOwned /\ LoneChoicesHold /\ DefaultsAreOne
      /\ \A r \in Requests : reqs'[r].pc \in ChoiceSteps => reqs'[r] = reqs[r]
      /\ \A r \in Requests : reqs[r] \in Request
  BY BaseParts DEF DefaultsInv, Keeps, RequestsOK
<1>1. ChoicesAreOwned'
  <2> SUFFICES ASSUME NEW r \in Requests, reqs'[r].pc \in {"reset", "mark"}
               PROVE  /\ dash'[reqs'[r].id].life # "none"
                      /\ dash'[reqs'[r].id].owner = reqs'[r].user
    BY DEF ChoicesAreOwned
  <2>1. reqs'[r] = reqs[r] /\ reqs[r].id \in Dashboards
    BY <1>0, RequestFields DEF ChoiceSteps
  <2> QED
    BY <1>0, <2>1 DEF ChoicesAreOwned, Stays
<1>2. LoneChoicesHold'
  <2> SUFFICES ASSUME NEW r \in Requests, reqs'[r].pc \in ChoiceSteps, reqs'[r].alone,
                      NEW u, u = reqs'[r].user
               PROVE  /\ Choosing(u)' = {r}
                      /\ reqs'[r].pc # "reset" =>
                           \A d \in Dashboards :
                             dash'[d].owner = u /\ dash'[d].isDefault =>
                               reqs'[r].pc = "mark" /\ d = reqs'[r].id
    BY DEF LoneChoicesHold, ChoiceSteps, Choosing
  <2>1. reqs'[r] = reqs[r]
    BY <1>0
  <2>2. /\ Choosing(u) = {r}
        /\ reqs[r].pc # "reset" =>
             \A d \in Dashboards :
               dash[d].owner = u /\ dash[d].isDefault =>
                 reqs[r].pc = "mark" /\ d = reqs[r].id
    BY <1>0, <2>1 DEF LoneChoicesHold, ChoiceSteps
  <2>3. r \in Choosing(u)'
    BY <2>1 DEF Choosing, ChoiceSteps
  <2>4. Choosing(u)' \subseteq Choosing(u)
    BY ChoosingShrinks
  <2>5. reqs[r].pc # "reset" =>
             \A d \in Dashboards :
               dash'[d].owner = u /\ dash'[d].isDefault =>
                 reqs[r].pc = "mark" /\ d = reqs[r].id
    BY <2>2 DEF NoNewDefault
  <2> QED
    BY <2>1, <2>2, <2>3, <2>4, <2>5
<1>3. DefaultsAreOne'
  BY <1>0 DEF DefaultsAreOne, NoNewDefault
<1> QED
  BY <1>1, <1>2, <1>3 DEF DefaultsInv

\* LoneChoicesHold of the next state, with the user named.
LEMMA LoneChoices2 ==
  ASSUME ASSUME NEW r \in Requests, reqs'[r].pc \in ChoiceSteps, reqs'[r].alone,
                NEW u, u = reqs'[r].user
         PROVE  /\ Choosing(u)' = {r}
                /\ reqs'[r].pc # "reset" =>
                     \A d \in Dashboards :
                       dash'[d].owner = u /\ dash'[d].isDefault =>
                         reqs'[r].pc = "mark" /\ d = reqs'[r].id
  PROVE  LoneChoicesHold'
BY DEF LoneChoicesHold, ChoiceSteps, Choosing

\* A choice begins: the others of its user are no longer alone.
LEMMA ChoiceBegins ==
  ASSUME Base, DefaultsInv, NEW r \in Requests, NEW u \in Users,
         NEW locals \in Request, locals.pc \in {"insert", "reset"},
         locals.user = u, locals.alone => Choosing(u) = {},
         BeginChoice(r, u, locals), Stays, NoNewDefault, raced' = raced,
         RoomIsKept',
         locals.pc = "insert" =>
           \A d \in Dashboards : dash'[d].owner = u => ~dash'[d].isDefault,
         locals.pc = "reset" => /\ dash'[locals.id].life # "none"
                                /\ dash'[locals.id].owner = u
  PROVE  DefaultsInv'
<1>0. /\ ChoicesAreOwned /\ LoneChoicesHold /\ DefaultsAreOne
      /\ \A s \in Requests : reqs[s] \in Request
      /\ TypeOK
  BY BaseParts DEF DefaultsInv, RequestsOK, Base
<1>1. /\ reqs'[r] = locals /\ reqs[r] = Idle
      /\ \A s \in Requests \ {r} : s \notin Choosing(u) => reqs'[s] = reqs[s]
      /\ \A s \in Choosing(u) \ {r} :
           /\ reqs'[s].pc = reqs[s].pc /\ reqs'[s].user = reqs[s].user
           /\ reqs'[s].alone = FALSE
           /\ reqs[s].pc # "insert" => reqs'[s].id = reqs[s].id
  BY <1>0, BeginChoiceMeans
<1>2. ChoicesAreOwned'
  <2> SUFFICES ASSUME NEW s \in Requests, reqs'[s].pc \in {"reset", "mark"}
               PROVE  /\ dash'[reqs'[s].id].life # "none"
                      /\ dash'[reqs'[s].id].owner = reqs'[s].user
    BY DEF ChoicesAreOwned
  <2>1. CASE s = r
    BY <1>1, <2>1
  <2>2. CASE s # r
    <3>1. /\ reqs'[s].id = reqs[s].id /\ reqs'[s].user = reqs[s].user
          /\ reqs'[s].pc = reqs[s].pc
      BY <1>1, <2>2
    <3>2. reqs[s].id \in Dashboards
      BY <1>0, <3>1, RequestFields
    <3> QED
      BY <1>0, <3>1, <3>2 DEF ChoicesAreOwned, Stays
  <2> QED
    BY <2>1, <2>2
<1>3. ASSUME NEW s \in Requests, reqs'[s].pc \in ChoiceSteps, reqs'[s].alone,
             NEW v, v = reqs'[s].user
      PROVE  /\ Choosing(v)' = {s}
             /\ reqs'[s].pc # "reset" =>
                  \A d \in Dashboards :
                    dash'[d].owner = v /\ dash'[d].isDefault =>
                      reqs'[s].pc = "mark" /\ d = reqs'[s].id
  <2>1. ASSUME NEW t \in Requests
        PROVE  t \in Choosing(v)' <=> t \in Choosing(v) \/ (t = r /\ v = u)
    <3>1. CASE t = r
      BY <1>1, <3>1, IdleType DEF Choosing
    <3>2. CASE t # r
      BY <1>1, <3>2 DEF Choosing
    <3> QED
      BY <3>1, <3>2
  <2>2. CASE s = r
    <3>1. v = u /\ Choosing(u) = {}
      BY <1>1, <1>3, <2>2
    <3>2. Choosing(v)' = {s}
      BY <2>1, <2>2, <3>1 DEF Choosing
    <3> QED
      BY <1>1, <2>2, <3>1, <3>2
  <2>3. CASE s # r
    <3>1. s \notin Choosing(u) /\ reqs'[s] = reqs[s]
      BY <1>1, <1>3, <2>3
    <3>2. v # u
      BY <1>3, <3>1 DEF Choosing, ChoiceSteps
    <3>3. /\ Choosing(v) = {s}
          /\ reqs[s].pc # "reset" =>
               \A d \in Dashboards :
                 dash[d].owner = v /\ dash[d].isDefault =>
                   reqs[s].pc = "mark" /\ d = reqs[s].id
      BY <1>0, <1>3, <3>1 DEF LoneChoicesHold, ChoiceSteps
    <3>4. Choosing(v)' = {s}
      BY <2>1, <3>2, <3>3 DEF Choosing
    <3> QED
      BY <3>1, <3>3, <3>4 DEF NoNewDefault
  <2> QED
    BY <2>2, <2>3
<1>4. LoneChoicesHold'
  BY <1>3, LoneChoices2
<1>5. DefaultsAreOne'
  BY <1>0 DEF DefaultsAreOne, NoNewDefault
<1> QED
  BY <1>2, <1>4, <1>5 DEF DefaultsInv

\* A choice is made: dashboard f is a default of the user, and the only one if
\* the request was alone.
LEMMA ChoiceEnds ==
  ASSUME Base, DefaultsInv, NEW r \in Requests, reqs[r].pc \in ChoiceSteps,
         Chosen(r), reqs'[r] = Idle,
         \A s \in Requests \ {r} : reqs'[s] = reqs[s],
         NEW f \in Dashboards, dash'[f].owner = reqs[r].user,
         Stays, RoomIsKept',
         \A d \in Dashboards \ {f} :
           dash'[d].isDefault => /\ dash[d].isDefault
                                 /\ dash'[d].owner = dash[d].owner,
         reqs[r].alone =>
           \A d \in Dashboards \ {f} :
             dash[d].owner = reqs[r].user => ~dash[d].isDefault
  PROVE  DefaultsInv'
<1>0. /\ ChoicesAreOwned /\ LoneChoicesHold /\ DefaultsAreOne
      /\ \A s \in Requests : reqs[s] \in Request
  BY BaseParts DEF DefaultsInv, RequestsOK
<1>1. /\ reqs[r].user \in Users
      /\ reqs[r].alone => raced' = raced \ {reqs[r].user}
      /\ ~reqs[r].alone => raced' = raced \cup {reqs[r].user}
  BY ChosenMeans
<1>2. PICK u \in Users : u = reqs[r].user
  BY <1>1
<1>3. Idle.pc \notin ChoiceSteps
  BY IdleType DEF ChoiceSteps
<1>4. ChoicesAreOwned'
  <2> SUFFICES ASSUME NEW s \in Requests, reqs'[s].pc \in {"reset", "mark"}
               PROVE  /\ dash'[reqs'[s].id].life # "none"
                      /\ dash'[reqs'[s].id].owner = reqs'[s].user
    BY DEF ChoicesAreOwned
  <2>1. reqs'[s] = reqs[s] /\ reqs[s].id \in Dashboards
    BY <1>0, <1>3, RequestFields DEF ChoiceSteps
  <2> QED
    BY <1>0, <2>1 DEF ChoicesAreOwned, Stays
<1>5. ASSUME NEW s \in Requests, reqs'[s].pc \in ChoiceSteps, reqs'[s].alone,
             NEW v, v = reqs'[s].user
      PROVE  /\ Choosing(v)' = {s}
             /\ reqs'[s].pc # "reset" =>
                  \A d \in Dashboards :
                    dash'[d].owner = v /\ dash'[d].isDefault =>
                      reqs'[s].pc = "mark" /\ d = reqs'[s].id
  <2>1. s # r /\ reqs'[s] = reqs[s]
    BY <1>3, <1>5
  <2>2. /\ Choosing(v) = {s}
        /\ reqs[s].pc # "reset" =>
             \A d \in Dashboards :
               dash[d].owner = v /\ dash[d].isDefault =>
                 reqs[s].pc = "mark" /\ d = reqs[s].id
    BY <1>0, <1>5, <2>1 DEF LoneChoicesHold, ChoiceSteps
  <2>3. v # u
    BY <1>2, <2>1, <2>2 DEF Choosing, ChoiceSteps
  <2>4. Choosing(v)' \subseteq Choosing(v) /\ s \in Choosing(v)'
    BY <1>3, <1>5, <2>1 DEF Choosing, ChoiceSteps
  <2>5. Choosing(v)' = {s}
    BY <2>2, <2>4
  <2>6. \A d \in Dashboards :
          dash'[d].owner = v /\ dash'[d].isDefault =>
            dash[d].owner = v /\ dash[d].isDefault
    BY <1>2, <2>3
  <2> QED
    BY <2>1, <2>2, <2>5, <2>6
<1>6. LoneChoicesHold'
  BY <1>5, LoneChoices2
<1>7. DefaultsAreOne'
  <2> SUFFICES ASSUME NEW v \in Users \ raced', NEW d \in Dashboards,
                      NEW e \in Dashboards,
                      dash'[d].owner = v, dash'[d].isDefault,
                      dash'[e].owner = v, dash'[e].isDefault
               PROVE  d = e
    BY DEF DefaultsAreOne
  <2>1. CASE v = u
    <3>1. reqs[r].alone
      BY <1>1, <1>2, <2>1
    <3> QED
      BY <1>2, <2>1, <3>1
  <2>2. CASE v # u
    <3>1. v \notin raced
      BY <1>1, <1>2, <2>2
    <3>2. /\ dash[d].owner = v /\ dash[d].isDefault
          /\ dash[e].owner = v /\ dash[e].isDefault
      BY <1>2, <2>2
    <3> QED
      BY <1>0, <3>1, <3>2 DEF DefaultsAreOne
  <2> QED
    BY <2>1, <2>2
<1> QED
  BY <1>4, <1>6, <1>7 DEF DefaultsInv

\* The other dashboards are reset; the one chosen is not touched yet.
LEMMA ResetStep ==
  ASSUME Base, DefaultsInv, Base', NEW r \in Requests, Reset(r)
  PROVE  DefaultsInv'
<1>0. /\ TypeOK /\ BoardOK /\ \A s \in Requests : reqs[s] \in Request
      /\ RoomIsKept /\ ChoicesAreOwned /\ LoneChoicesHold /\ DefaultsAreOne
      /\ dash' \in [Dashboards -> Dashboard]
  BY BaseParts DEF Base, BoardOK, RequestsOK, DefaultsInv, TypeOK
<1>1. PICK u, f : u = reqs[r].user /\ f = reqs[r].id
  OBVIOUS
<1>2. /\ reqs[r].pc = "reset" /\ ResetDefaults(u, {f}) /\ raced' = raced
      /\ reqs' = [reqs EXCEPT ![r].pc = "mark"]
  BY <1>1 DEF Reset, Goto
<1>3. u \in Users /\ f \in Dashboards
  BY <1>0, <1>1, <1>2, RequestFields
<1>4. \A d \in Dashboards :
        /\ dash'[d].life = dash[d].life /\ dash'[d].owner = dash[d].owner
        /\ dash'[d].isDefault => dash[d].isDefault
        /\ dash[d].owner = u /\ d # f => ~dash'[d].isDefault
  BY <1>0, <1>2, <1>3, ResetMeans
<1>5. /\ reqs'[r].pc = "mark" /\ reqs'[r].user = u /\ reqs'[r].id = f
      /\ reqs'[r].alone = reqs[r].alone
      /\ \A s \in Requests \ {r} : reqs'[s] = reqs[s]
  <2> DEFINE q == [reqs[r] EXCEPT !.pc = "mark"]
  <2>1. /\ q.pc = "mark" /\ q.user = reqs[r].user /\ q.id = reqs[r].id
        /\ q.alone = reqs[r].alone
    BY <1>0, <1>2, MarkNext
  <2>2. reqs'[r] = q /\ \A s \in Requests \ {r} : reqs'[s] = reqs[s]
    BY <1>0, <1>2 DEF TypeOK
  <2> HIDE DEF q
  <2> QED
    BY <1>1, <2>1, <2>2
<1>6. RoomIsKept'
  <2>1. Free(dash)' = Free(dash)
    BY <1>0, <1>4, FreeStays
  <2>2. Inserting' \subseteq Inserting
    BY <1>5 DEF Inserting
  <2> QED
    BY <1>0, <2>1, <2>2, RoomStays
<1>7. ChoicesAreOwned'
  <2> SUFFICES ASSUME NEW s \in Requests, reqs'[s].pc \in {"reset", "mark"}
               PROVE  /\ dash'[reqs'[s].id].life # "none"
                      /\ dash'[reqs'[s].id].owner = reqs'[s].user
    BY DEF ChoicesAreOwned
  <2>1. /\ reqs'[s].id = reqs[s].id /\ reqs'[s].user = reqs[s].user
        /\ reqs[s].pc \in {"reset", "mark"}
    BY <1>1, <1>2, <1>5
  <2>2. reqs[s].id \in Dashboards
    BY <1>0, <2>1, RequestFields
  <2> QED
    BY <1>0, <1>4, <2>1, <2>2 DEF ChoicesAreOwned
<1>8. ASSUME NEW s \in Requests, reqs'[s].pc \in ChoiceSteps, reqs'[s].alone,
             NEW v, v = reqs'[s].user
      PROVE  /\ Choosing(v)' = {s}
             /\ reqs'[s].pc # "reset" =>
                  \A d \in Dashboards :
                    dash'[d].owner = v /\ dash'[d].isDefault =>
                      reqs'[s].pc = "mark" /\ d = reqs'[s].id
  <2>1. Choosing(v)' = Choosing(v)
    BY <1>1, <1>2, <1>5 DEF Choosing
  <2>2. CASE s = r
    <3>1. Choosing(v) = {s}
      BY <1>0, <1>1, <1>2, <1>5, <1>8, <2>2 DEF LoneChoicesHold
    <3> QED
      BY <1>4, <1>5, <1>8, <2>1, <2>2, <3>1
  <2>3. CASE s # r
    <3>1. /\ Choosing(v) = {s}
          /\ reqs[s].pc # "reset" =>
               \A d \in Dashboards :
                 dash[d].owner = v /\ dash[d].isDefault =>
                   reqs[s].pc = "mark" /\ d = reqs[s].id
      BY <1>0, <1>5, <1>8, <2>3 DEF LoneChoicesHold, ChoiceSteps
    <3> QED
      BY <1>4, <1>5, <2>1, <2>3, <3>1
  <2> QED
    BY <2>2, <2>3
<1>9. LoneChoicesHold'
  BY <1>8, LoneChoices2
<1>10. DefaultsAreOne'
  BY <1>0, <1>2, <1>4 DEF DefaultsAreOne
<1> QED
  BY <1>6, <1>7, <1>9, <1>10 DEF DefaultsInv

\* An insert takes one free row and leaves the others as they are.
LEMMA InsertMeans ==
  ASSUME Base, NEW u \in Users, NEW default \in BOOLEAN,
         dash' = NewDashboard(u, default), Cardinality(Free(dash)) > 0
  PROVE  \E f \in Dashboards :
           /\ dash[f].life = "none" /\ ~dash[f].isDefault
           /\ dash'[f].owner = u /\ dash'[f].isDefault = default
           /\ \A d \in Dashboards \ {f} : dash'[d] = dash[d]
           /\ Stays
           /\ Cardinality(Free(dash)') = Cardinality(Free(dash)) - 1
<1> DEFINE f == Min(Free(dash))
<1>0. BoardOK
  BY BaseParts
<1>1. f \in Free(dash)
  BY FreeRow
<1>2. f \in Dashboards /\ dash[f].life = "none"
  BY <1>1, RoomFinite
<1>3. ~dash[f].isDefault
  BY <1>2 DEF Base, DashboardsAreOwned
<1>4. /\ dash' \in [Dashboards -> Dashboard]
      /\ \A d \in Dashboards :
           \/ d # f /\ dash'[d] = dash[d]
           \/ d = f /\ dash'[d] =
                [life |-> "here", owner |-> u, isDefault |-> default]
  BY <1>0, NewMeans
<1> HIDE DEF f
<1>5. /\ dash'[f].life = "here" /\ dash'[f].owner = u
      /\ dash'[f].isDefault = default
      /\ \A d \in Dashboards \ {f} : dash'[d] = dash[d]
  BY <1>2, <1>4
<1>6. Stays
  BY <1>2, <1>5 DEF Stays
<1>7. Free(dash)' = Free(dash) \ {f}
  <2>1. Free(dash)' = {d \in Dashboards : dash'[d].life = "none"}
    BY <1>4 DEF Free
  <2> QED
    BY <1>5, <2>1, RoomFinite
<1>8. Cardinality(Free(dash)') = Cardinality(Free(dash)) - 1
  BY <1>1, <1>7, RoomFinite, FS_RemoveElement
<1> QED
  BY <1>2, <1>3, <1>5, <1>6, <1>8

\* Dashboards and widgets: at most one default is left to each user.
LEMMA DashboardingDefaults ==
  ASSUME Base, DefaultsInv, Dashboarding
  PROVE  DefaultsInv'
<1>0. /\ TypeOK /\ BoardOK /\ \A r \in Requests : reqs[r] \in Request
      /\ dash \in [Dashboards -> Dashboard]
      /\ RoomIsKept /\ ChoicesAreOwned /\ LoneChoicesHold
      /\ DashboardsAreOwned
  BY BaseParts DEF Base, BoardOK, RequestsOK, DefaultsInv
<1>b. Base'
  BY NextBase DEF Next
<1>d. dash' \in [Dashboards -> Dashboard]
  BY <1>b DEF Base, TypeOK
<1>k. "idle" \notin ChoiceSteps /\ "add" \notin ChoiceSteps
  BY DEF ChoiceSteps
<1>n. /\ Cardinality(Free(dash)) \in Nat /\ IsFiniteSet(Inserting)
      /\ Cardinality(Inserting) \in Nat
  BY RoomFinite
\* The dashboards stay, and no choice begins.
<1>s. ASSUME UNCHANGED <<dash, raced>>, Keeps(ChoiceSteps) PROVE DefaultsInv'
  <2>1. Stays /\ NoNewDefault
    BY <1>s DEF Stays, NoNewDefault
  <2>2. Inserting' \subseteq Inserting
    BY <1>s DEF Inserting, Keeps, ChoiceSteps
  <2>3. RoomIsKept'
    BY <1>0, <1>s, <2>2, RoomStays DEF Free
  <2> QED
    BY <1>b, <1>s, <2>1, <2>3, DefaultsKept
<1>1. ASSUME NEW u \in Users, Create(u) PROVE DefaultsInv'
  <2>1. /\ Count /\ UNCHANGED <<reqs, raced>> /\ Room
        /\ dash' = NewDashboard(u, FALSE)
    BY <1>1 DEF Create
  <2>2. Cardinality(Free(dash)) > Cardinality(Inserting)
    BY <2>1 DEF Room, Inserting
  <2>a. Cardinality(Free(dash)) > 0 /\ FALSE \in BOOLEAN
    BY <1>n, <2>2
  <2>3. PICK f \in Dashboards :
          /\ dash[f].life = "none" /\ ~dash[f].isDefault
          /\ dash'[f].owner = u /\ dash'[f].isDefault = FALSE
          /\ \A d \in Dashboards \ {f} : dash'[d] = dash[d]
          /\ Stays
          /\ Cardinality(Free(dash)') = Cardinality(Free(dash)) - 1
    BY <2>1, <2>a, InsertMeans, Zenon
  <2>4. RoomIsKept'
    <3>1. Inserting' = Inserting
      BY <2>1 DEF Inserting
    <3> QED
      BY <1>n, <2>2, <2>3, <3>1 DEF RoomIsKept
  <2>5. NoNewDefault
    BY <2>3 DEF NoNewDefault
  <2>6. Keeps(ChoiceSteps)
    BY <1>0, <2>1, CountMeans
  <2> QED
    BY <1>b, <2>1, <2>3, <2>4, <2>5, <2>6, DefaultsKept
<1>2. ASSUME NEW u \in Users, NEW r \in Requests, CreateDefault(r, u)
      PROVE  DefaultsInv'
  <2> DEFINE q == [pc |-> "insert", user |-> u, alone |-> Choosing(u) = {}]
  <2>1. /\ BeginChoice(r, u, q) /\ ResetDefaults(u, {}) /\ UNCHANGED raced /\ Room
    BY <1>2 DEF CreateDefault
  <2>2. /\ q \in Request /\ q.pc = "insert" /\ q.user = u
        /\ q.alone => Choosing(u) = {}
    BY DEF Request
  <2> HIDE DEF q
  <2>3. \A d \in Dashboards :
          /\ dash'[d].life = dash[d].life /\ dash'[d].owner = dash[d].owner
          /\ dash'[d].isDefault => dash[d].isDefault
          /\ dash[d].owner = u => ~dash'[d].isDefault
    BY <1>0, <2>1, ResetMeans
  <2>4. Stays /\ NoNewDefault
    BY <2>3 DEF Stays, NoNewDefault
  <2>5. RoomIsKept'
    <3>1. Free(dash)' = Free(dash)
      BY <1>d, <2>3, FreeStays
    <3>2. /\ reqs'[r] = q /\ reqs[r] = Idle
          /\ \A s \in Requests \ {r} : reqs'[s].pc = reqs[s].pc
      BY <1>0, <2>1, <2>2, BeginChoicePlaces
    <3>3. Inserting' = Inserting \cup {r} /\ r \notin Inserting
      BY <2>2, <3>2, IdleType DEF Inserting
    <3>4. Cardinality(Inserting') = Cardinality(Inserting) + 1
      BY <1>n, <3>3, FS_AddElement
    <3>5. Cardinality(Free(dash)) > Cardinality(Inserting)
      BY <2>1 DEF Room, Inserting
    <3> QED
      BY <1>n, <3>1, <3>4, <3>5 DEF RoomIsKept
  <2> QED
    BY <2>1, <2>2, <2>3, <2>4, <2>5, ChoiceBegins
<1>3. ASSUME NEW d \in Dashboards, UpdateOrdinary(d) PROVE DefaultsInv'
  <2>1. /\ Count /\ UNCHANGED <<reqs, raced>>
        /\ dash' = [dash EXCEPT ![d].isDefault = FALSE]
    BY <1>3 DEF UpdateOrdinary
  <2>2. \A e \in Dashboards :
          /\ dash'[e].life = dash[e].life /\ dash'[e].owner = dash[e].owner
          /\ dash'[e].isDefault => dash[e].isDefault
    BY <1>0, <2>1 DEF Dashboard
  <2>3. Stays /\ NoNewDefault
    BY <2>2 DEF Stays, NoNewDefault
  <2>4. Free(dash)' = Free(dash)
    BY <1>d, <2>2, FreeStays
  <2>5. RoomIsKept'
    BY <1>0, <2>1, <2>4, RoomStays DEF Inserting
  <2> QED
    BY <1>0, <1>b, <2>1, <2>3, <2>5, CountMeans, DefaultsKept
<1>4. ASSUME NEW d \in Dashboards, Remove(d) PROVE DefaultsInv'
  <2>1. /\ Count /\ UNCHANGED <<reqs, raced>> /\ dash[d].life = "here"
        /\ dash' = [dash EXCEPT ![d].life = "gone", ![d].isDefault = FALSE]
    BY <1>4 DEF Remove
  <2>2. /\ dash'[d].owner = dash[d].owner /\ dash'[d].life = "gone"
        /\ dash'[d].isDefault = FALSE
        /\ \A e \in Dashboards \ {d} : dash'[e] = dash[e]
    BY <1>0, <2>1 DEF Dashboard, Lives
  <2>3. Stays /\ NoNewDefault
    BY <2>2 DEF Stays, NoNewDefault
  <2>4. Free(dash)' = Free(dash)
    BY <1>d, <2>1, <2>2, FreeStays
  <2>5. RoomIsKept'
    BY <1>0, <2>1, <2>4, RoomStays DEF Inserting
  <2> QED
    BY <1>0, <1>b, <2>1, <2>3, <2>5, CountMeans, DefaultsKept
<1>5. ASSUME NEW d \in Dashboards, RemoveWidget(d) PROVE DefaultsInv'
  BY <1>0, <1>5, <1>s, CountMeans DEF RemoveWidget
<1>6. ASSUME NEW d \in Dashboards, NEW r \in Requests, UpdateDefault(r, d)
      PROVE  DefaultsInv'
  <2>0. PICK u : u = dash[d].owner
    OBVIOUS
  <2> DEFINE q == [pc |-> "reset", user |-> u, id |-> d, alone |-> Choosing(u) = {}]
  <2>1. /\ BeginChoice(r, u, q) /\ dash[d].life = "here"
        /\ UNCHANGED <<dash, raced>>
    BY <1>6, <2>0 DEF UpdateDefault, board
  <2>2. u \in Users
    BY <1>0, <2>0, <2>1 DEF DashboardsAreOwned
  <2>3. /\ q \in Request /\ q.pc = "reset" /\ q.user = u /\ q.id = d
        /\ q.alone => Choosing(u) = {}
    BY <2>2 DEF Request
  <2> HIDE DEF q
  <2>4. Stays /\ NoNewDefault
    BY <2>1 DEF Stays, NoNewDefault
  <2>5. RoomIsKept'
    <3>1. /\ reqs'[r] = q
          /\ \A s \in Requests \ {r} : reqs'[s].pc = reqs[s].pc
      BY <1>0, <2>1, <2>2, <2>3, BeginChoicePlaces
    <3>2. Inserting' \subseteq Inserting
      BY <2>3, <3>1 DEF Inserting
    <3> QED
      BY <1>0, <2>1, <3>2, RoomStays DEF Free
  <2> QED
    BY <2>0, <2>1, <2>2, <2>3, <2>4, <2>5, ChoiceBegins
<1>7. ASSUME NEW d \in Dashboards, NEW r \in Requests, AddWidget(r, d)
      PROVE  DefaultsInv'
  <2> DEFINE q == [pc |-> "add", id |-> d]
  <2>1. Begin(r, q) /\ UNCHANGED <<dash, raced>>
    BY <1>7 DEF AddWidget, board
  <2>2. q \in Request /\ q.pc = "add"
    BY DEF Request
  <2> HIDE DEF q
  <2> QED
    BY <1>0, <1>k, <1>s, <2>1, <2>2, BeginMeans
<1>8. ASSUME NEW d \in Dashboards, NEW s \in DOMAIN sessions, AddToDashboard(s, d)
      PROVE  DefaultsInv'
  BY <1>0, <1>8, <1>s, CountMeans DEF AddToDashboard
<1>9. ASSUME NEW r \in Requests, Insert(r) PROVE DefaultsInv'
  <2>0. PICK u : u = reqs[r].user
    OBVIOUS
  <2>1. /\ reqs[r].pc = "insert" /\ Chosen(r) /\ Finish(r)
        /\ dash' = NewDashboard(u, TRUE)
    BY <1>9, <2>0 DEF Insert
  <2>2. reqs[r].pc \in ChoiceSteps /\ u \in Users
    BY <1>0, <2>0, <2>1, RequestFields DEF ChoiceSteps
  <2>3. reqs'[r] = Idle /\ \A s \in Requests \ {r} : reqs'[s] = reqs[s]
    BY <1>0, <2>1, FinishMeans
  <2>4. Inserting' = Inserting \ {r} /\ r \in Inserting
    BY <2>1, <2>3, IdleType DEF Inserting
  <2>5. Cardinality(Inserting') = Cardinality(Inserting) - 1
    BY <1>n, <2>4, FS_RemoveElement
  <2>6. Cardinality(Inserting) # 0
    BY <1>n, <2>4, FS_EmptySet
  <2>a. Cardinality(Free(dash)) > 0 /\ TRUE \in BOOLEAN
    BY <1>0, <1>n, <2>6 DEF RoomIsKept
  <2>7. PICK f \in Dashboards :
          /\ dash[f].life = "none" /\ ~dash[f].isDefault
          /\ dash'[f].owner = u /\ dash'[f].isDefault = TRUE
          /\ \A d \in Dashboards \ {f} : dash'[d] = dash[d]
          /\ Stays
          /\ Cardinality(Free(dash)') = Cardinality(Free(dash)) - 1
    BY <2>1, <2>2, <2>a, InsertMeans, Zenon
  <2>8. RoomIsKept'
    BY <1>0, <1>n, <2>5, <2>7 DEF RoomIsKept
  <2>9. reqs[r].alone =>
          \A d \in Dashboards : dash[d].owner = reqs[r].user => ~dash[d].isDefault
    BY <1>0, <2>1 DEF LoneChoicesHold
  <2> QED
    BY <2>0, <2>1, <2>2, <2>3, <2>7, <2>8, <2>9, ChoiceEnds
<1>10. ASSUME NEW r \in Requests, Reset(r) PROVE DefaultsInv'
  BY <1>0, <1>10, <1>b, ResetStep
<1>11. ASSUME NEW r \in Requests, Mark(r) PROVE DefaultsInv'
  <2>1. reqs[r].pc = "mark" /\ Finish(r)
    BY <1>11 DEF Mark
  <2>2. /\ reqs'[r] = Idle /\ \A s \in Requests \ {r} : reqs'[s] = reqs[s]
        /\ Keeps(ChoiceSteps)
    BY <1>0, <1>k, <2>1, FinishMeans
  <2>3. CASE dash[reqs[r].id].life = "here"
    <3>0. PICK f : f = reqs[r].id
      OBVIOUS
    <3>1. dash' = [dash EXCEPT ![f].isDefault = TRUE] /\ Chosen(r)
      BY <1>11, <2>3, <3>0 DEF Mark
    <3>2. reqs[r].pc \in ChoiceSteps /\ f \in Dashboards
      BY <1>0, <2>1, <3>0, RequestFields DEF ChoiceSteps
    <3>3. /\ dash'[f].life = dash[f].life /\ dash'[f].owner = dash[f].owner
          /\ \A d \in Dashboards \ {f} : dash'[d] = dash[d]
      BY <1>0, <3>1, <3>2 DEF Dashboard
    <3>4. Stays
      BY <3>3 DEF Stays
    <3>5. dash[f].owner = reqs[r].user
      BY <1>0, <2>1, <3>0 DEF ChoicesAreOwned
    <3>6. Free(dash)' = Free(dash)
      BY <1>d, <3>3, FreeStays
    <3>7. Inserting' \subseteq Inserting
      BY <2>2 DEF Inserting, Keeps, ChoiceSteps
    <3>8. RoomIsKept'
      BY <1>0, <3>6, <3>7, RoomStays
    <3>9. reqs[r].alone =>
            \A d \in Dashboards \ {f} :
              dash[d].owner = reqs[r].user => ~dash[d].isDefault
      BY <1>0, <2>1, <3>0 DEF LoneChoicesHold
    <3> QED
      BY <2>2, <3>1, <3>2, <3>3, <3>4, <3>5, <3>8, <3>9, ChoiceEnds
  <2>4. CASE dash[reqs[r].id].life # "here"
    BY <1>11, <1>s, <2>2, <2>4 DEF Mark
  <2> QED
    BY <2>3, <2>4
<1>12. ASSUME NEW r \in Requests, CreateWidget(r) PROVE DefaultsInv'
  BY <1>0, <1>12, <1>k, <1>s, FinishMeans DEF CreateWidget
<1> QED
  BY <1>1, <1>2, <1>3, <1>4, <1>5, <1>6, <1>7, <1>8, <1>9, <1>10, <1>11, <1>12
     DEF Dashboarding

\* Every other step leaves dashboards and their choices alone.
LEMMA NextDefaults == Base /\ DefaultsInv /\ [Next]_vars => DefaultsInv'
<1> SUFFICES ASSUME Base, DefaultsInv, [Next]_vars PROVE DefaultsInv'
  OBVIOUS
<1>1. ASSUME NEW pcs, ChoiceSteps \subseteq pcs, Keeps(pcs), UNCHANGED board
      PROVE  DefaultsInv'
  <2>1. Keeps(ChoiceSteps) /\ UNCHANGED <<dash, raced>>
    BY <1>1 DEF Keeps, board
  <2>2. Stays /\ NoNewDefault
    BY <2>1 DEF Stays, NoNewDefault
  <2>3. Inserting' \subseteq Inserting
    BY <2>1 DEF Inserting, Keeps, ChoiceSteps
  <2>4. RoomIsKept'
    BY <2>1, <2>3, RoomStays DEF Free, DefaultsInv
  <2> QED
    BY <2>1, <2>2, <2>4, NextBase, DefaultsKept
<1>2. CASE Targeting
  BY <1>1, <1>2, TargetingFrame
<1>3. CASE Asking
  BY <1>1, <1>3, AskingFrame
<1>4. CASE (\E r \in Requests : Crash(r)) \/ Done \/ UNCHANGED vars
  <2>1. UNCHANGED board /\ Keeps(ChoiceSteps)
    BY <1>4, QuietFrame DEF ChoiceSteps
  <2> QED
    BY <1>1, <2>1
<1> QED
  BY <1>2, <1>3, <1>4, DashboardingDefaults DEF Next

\* The first state has no default, and no request.
LEMMA InitDefaults == Init => DefaultsInv
<1> SUFFICES ASSUME Init PROVE DefaultsInv
  OBVIOUS
<1>1. \A r \in Requests : reqs[r].pc = "idle"
  BY IdleType DEF Init
<1>2. \A d \in Dashboards : ~dash[d].isDefault
  BY DEF Init
<1>3. Inserting = {} /\ Cardinality(Inserting) = 0
  BY <1>1, FS_EmptySet DEF Inserting
<1>4. RoomIsKept
  BY <1>3, InitBase, RoomFinite DEF RoomIsKept
<1> QED
  BY <1>1, <1>2, <1>4
     DEF DefaultsInv, ChoicesAreOwned, LoneChoicesHold, DefaultsAreOne

\* A set with no two elements has at most one.
LEMMA AtMostOne ==
  ASSUME NEW S, \A x, y \in S : x = y
  PROVE  Cardinality(S) <= 1
<1>1. CASE S = {}
  BY <1>1, FS_EmptySet
<1>2. CASE S # {}
  <2>1. PICK x \in S : TRUE
    BY <1>2
  <2>2. S = {x}
    BY <2>1
  <2> QED
    BY <2>2, FS_Singleton
<1> QED
  BY <1>1, <1>2

\* A user has at most one default dashboard, however creates, updates,
\* removals and crashes interleave, unless the user's last choices overlapped.
THEOREM DefaultsStaySingle == Spec => []OneDefaultDashboard
<1>1. DefaultsInv => OneDefaultDashboard
  <2> SUFFICES ASSUME DefaultsInv, NEW u \in Users \ raced
               PROVE  Cardinality({d \in Dashboards :
                        dash[d].owner = u /\ dash[d].isDefault}) <= 1
    BY DEF OneDefaultDashboard
  <2> DEFINE S == {d \in Dashboards : dash[d].owner = u /\ dash[d].isDefault}
  <2>1. \A d, e \in S : d = e
    BY DEF DefaultsInv, DefaultsAreOne
  <2> HIDE DEF S
  <2>2. Cardinality(S) <= 1
    BY <2>1, AtMostOne
  <2> QED
    BY <2>2 DEF S
<1> QED
  BY <1>1, InitBase, InitDefaults, NextBase, NextDefaults, PTL DEF Spec

----------------------------------------------------------------------------
(* Widgets and the plan                                                    *)

Places == Dashboards \cup {Nowhere}

\* The dashboards, and what is left of those that are gone.
LEMMA PlacesFinite == IsFiniteSet(Places) /\ Nowhere \in Places
BY DashboardsFinite, FS_AddElement DEF Places

\* The rows of a table are the pairs of a place and a number up to its count.
LEMMA RowsMean ==
  ASSUME NEW w \in [Places -> Nat]
  PROVE  /\ \A x \in WidgetRows(w) : \E d \in Places : \E k \in 1..w[d] : x = <<d, k>>
         /\ \A d \in Places : \A k \in 1..w[d] : <<d, k>> \in WidgetRows(w)
         /\ \A d, k : <<d, k>> \in WidgetRows(w) => d \in Places /\ k \in 1..w[d]
<1>1. DOMAIN w = Places
  OBVIOUS
<1>2. ASSUME NEW x \in WidgetRows(w)
      PROVE  \E d \in Places : \E k \in 1..w[d] : x = <<d, k>>
  <2>1. PICK d \in Places : x \in {d} \X (1..w[d])
    BY <1>1 DEF WidgetRows
  <2> QED
    BY <2>1
<1>3. ASSUME NEW d \in Places, NEW k \in 1..w[d] PROVE <<d, k>> \in WidgetRows(w)
  <2>1. <<d, k>> \in {d} \X (1..w[d])
    OBVIOUS
  <2> QED
    BY <1>1, <2>1 DEF WidgetRows
<1>4. ASSUME NEW d, NEW k, <<d, k>> \in WidgetRows(w)
      PROVE  d \in Places /\ k \in 1..w[d]
  <2>0. PICK e \in Places : \E l \in 1..w[e] : <<d, k>> = <<e, l>>
    BY <1>2, <1>4
  <2>1. PICK l \in 1..w[e] : <<d, k>> = <<e, l>>
    BY <2>0
  <2>2. d = e /\ k = l
    BY <2>1
  <2> QED
    BY <2>2
<1> QED
  BY <1>2, <1>3, <1>4

\* They can be counted.
LEMMA RowsFinite ==
  ASSUME NEW w \in [Places -> Nat]
  PROVE  IsFiniteSet(WidgetRows(w)) /\ Total(w) \in Nat
<1> DEFINE S == {{d} \X (1..w[d]) : d \in Places}
           f == [d \in Places |-> {d} \X (1..w[d])]
<1>1. f \in Surjection(Places, S)
  BY DEF Surjection
<1>2. IsFiniteSet(S)
  <2> HIDE DEF S, f
  <2> QED
    BY <1>1, PlacesFinite, FS_Surjection
<1>3. ASSUME NEW T \in S PROVE IsFiniteSet(T)
  <2>1. PICK d \in Places : T = {d} \X (1..w[d])
    OBVIOUS
  <2>2. w[d] \in Int /\ 1 \in Int
    OBVIOUS
  <2>3. IsFiniteSet(1..w[d]) /\ IsFiniteSet({d})
    BY <2>2, FS_Interval, FS_Singleton
  <2> QED
    BY <2>1, <2>3, FS_Product
<1>4. WidgetRows(w) = UNION S
  BY DEF WidgetRows
<1>5. IsFiniteSet(UNION S)
  <2> HIDE DEF S
  <2> QED
    BY <1>2, <1>3, FS_UNION
<1> QED
  BY <1>4, <1>5, FS_CardinalityType DEF Total

\* One widget more.
LEMMA AddRow ==
  ASSUME NEW w \in [Places -> Nat], NEW v \in [Places -> Nat], NEW d \in Places,
         v[d] = w[d] + 1, \A e \in Places \ {d} : v[e] = w[e]
  PROVE  Total(v) = Total(w) + 1
<1> DEFINE x == <<d, w[d] + 1>>
<1>1. x \notin WidgetRows(w)
  BY RowsMean
<1>2. ASSUME NEW y \in WidgetRows(v) PROVE y \in WidgetRows(w) \cup {x}
  <2>0. PICK e \in Places : \E k \in 1..v[e] : y = <<e, k>>
    BY RowsMean
  <2>1. PICK k \in 1..v[e] : y = <<e, k>>
    BY <2>0
  <2>2. CASE e = d /\ k = w[d] + 1
    BY <2>1, <2>2
  <2>3. CASE ~(e = d /\ k = w[d] + 1)
    <3>1. k \in 1..w[e]
      BY <2>1, <2>3
    <3> QED
      BY <2>1, <3>1, RowsMean
  <2> QED
    BY <2>2, <2>3
<1>3. ASSUME NEW y \in WidgetRows(w) PROVE y \in WidgetRows(v)
  <2>0. PICK e \in Places : \E k \in 1..w[e] : y = <<e, k>>
    BY RowsMean
  <2>1. PICK k \in 1..w[e] : y = <<e, k>>
    BY <2>0
  <2>2. k \in 1..v[e]
    BY <2>1
  <2> QED
    BY <2>1, <2>2, RowsMean
<1>4. x \in WidgetRows(v)
  <2>1. w[d] + 1 \in 1..v[d]
    OBVIOUS
  <2> QED
    BY <2>1, RowsMean
<1> HIDE DEF x
<1>5. WidgetRows(v) = WidgetRows(w) \cup {x}
  BY <1>2, <1>3, <1>4
<1> QED
  BY <1>1, <1>5, RowsFinite, FS_AddElement DEF Total

\* The widgets of a dashboard that is removed are counted where they go.
LEMMA MoveRows ==
  ASSUME NEW w \in [Places -> Nat], NEW v \in [Places -> Nat],
         NEW o \in Places, NEW d \in Places, o # d,
         v[o] = w[o] + w[d], v[d] = 0,
         \A e \in Places \ {o, d} : v[e] = w[e]
  PROVE  Total(v) <= Total(w)
<1> DEFINE S == WidgetRows(w)
           T == WidgetRows(v)
           g(x) == IF x[1] = d THEN <<o, w[o] + x[2]>> ELSE x
           f == [x \in S |-> g(x)]
<1>1. ASSUME NEW x \in S PROVE g(x) \in T
  <2>0. PICK e \in Places : \E k \in 1..w[e] : x = <<e, k>>
    BY RowsMean
  <2>1. PICK k \in 1..w[e] : x = <<e, k>>
    BY <2>0
  <2>2. x[1] = e /\ x[2] = k
    BY <2>1
  <2>3. CASE e = d
    <3>1. w[o] + k \in 1..v[o]
      BY <2>1, <2>3
    <3> QED
      BY <2>2, <2>3, <3>1, RowsMean
  <2>4. CASE e # d
    <3>1. k \in 1..v[e]
      BY <2>1, <2>4
    <3> QED
      BY <2>1, <2>2, <2>4, <3>1, RowsMean
  <2> QED
    BY <2>3, <2>4
<1>2. ASSUME NEW y \in T PROVE \E x \in S : g(x) = y
  <2>0. PICK e \in Places : \E k \in 1..v[e] : y = <<e, k>>
    BY RowsMean
  <2>1. PICK k \in 1..v[e] : y = <<e, k>>
    BY <2>0
  <2>2. e # d
    BY <2>1
  <2>3. CASE k \in 1..w[e]
    <3>1. y \in S /\ y[1] = e
      BY <2>1, <2>3, RowsMean
    <3> QED
      BY <2>2, <3>1
  <2>4. CASE k \notin 1..w[e]
    <3>1. e = o /\ k - w[o] \in 1..w[d]
      BY <2>1, <2>2, <2>4
    <3> DEFINE x == <<d, k - w[o]>>
    <3>2. x \in S
      BY <3>1, RowsMean
    <3>3. x[1] = d /\ x[2] = k - w[o] /\ w[o] + (k - w[o]) = k
      BY <2>1
    <3>4. g(x) = y
      BY <2>1, <3>1, <3>3
    <3> QED
      BY <3>2, <3>4
  <2> QED
    BY <2>3, <2>4
<1>3. f \in Surjection(S, T)
  <2> HIDE DEF S, T, g
  <2> QED
    BY <1>1, <1>2 DEF Surjection
<1>4. IsFiniteSet(S)
  BY RowsFinite
<1>5. Cardinality(T) <= Cardinality(S)
  <2> HIDE DEF S, T, f
  <2> QED
    BY <1>3, <1>4, FS_Surjection
<1> QED
  BY <1>5 DEF Total

\* The sets and sums of the invariant are numbers.
LEMMA WidgetNumbers ==
  ASSUME Base
  PROVE  /\ placed \in [Places -> Nat] /\ asked \in [Places -> Nat]
         /\ Total(placed) \in Nat /\ Total(asked) \in Nat
         /\ IsFiniteSet(Adding) /\ Cardinality(Adding) \in Nat
         /\ Cardinality(Requests) \in Nat /\ Cardinality(Requests) > 0
         /\ PlanWidgets \in Nat
<1>1. placed \in [Places -> Nat] /\ asked \in [Places -> Nat]
  BY DEF Base, TypeOK, Places
<1>2. IsFiniteSet(Requests) /\ Requests # {} /\ PlanWidgets \in Nat
  BY WorkspaceAssumption
<1>3. Cardinality(Requests) \in Nat /\ Cardinality(Requests) # 0
  BY <1>2, FS_CardinalityType, FS_EmptySet
<1>4. IsFiniteSet(Adding) /\ Cardinality(Adding) \in Nat
  BY <1>2, FS_Subset, FS_CardinalityType DEF Adding
<1> QED
  BY <1>1, <1>2, <1>3, <1>4, RowsFinite

\* No widget more of addWidget, and no request more that will insert one.
LEMMA WidgetsKept ==
  ASSUME Base, Base', WidgetsInv, Keeps({"add"}), Total(placed') <= Total(placed)
  PROVE  WidgetsInv'
<1>1. Adding' \subseteq Adding
  BY DEF Adding, Keeps
<1>2. Cardinality(Adding') <= Cardinality(Adding)
  BY <1>1, WidgetNumbers, FS_Subset
<1>3. Cardinality(Adding') \in Nat /\ Total(placed') \in Nat
  <2>1. IsFiniteSet(Adding')
    BY <1>1, WidgetNumbers, FS_Subset
  <2>2. placed' \in [Places -> Nat]
    BY DEF Base, TypeOK, Places
  <2> QED
    BY <2>1, <2>2, RowsFinite, FS_CardinalityType
<1>4. Total(placed)' = Total(placed')
  BY DEF Total, WidgetRows
<1> QED
  BY <1>2, <1>3, <1>4, WidgetNumbers DEF WidgetsInv

\* Dashboards and widgets keep the excess bounded.
LEMMA DashboardingWidgets ==
  ASSUME Base, WidgetsInv, Dashboarding
  PROVE  WidgetsInv'
<1>0. /\ TypeOK /\ \A r \in Requests : reqs[r] \in Request
      /\ placed \in [Places -> Nat] /\ asked \in [Places -> Nat]
      /\ Total(placed) \in Nat /\ Total(asked) \in Nat
      /\ IsFiniteSet(Adding) /\ Cardinality(Adding) \in Nat
      /\ Cardinality(Requests) \in Nat /\ PlanWidgets \in Nat
  BY BaseParts, WidgetNumbers DEF Base, RequestsOK
<1>b. Base'
  BY NextBase DEF Next
<1>w. /\ placed' \in [Places -> Nat] /\ Total(placed') \in Nat
      /\ Total(placed)' = Total(placed')
  <2>1. placed' \in [Places -> Nat]
    BY <1>b DEF Base, TypeOK, Places
  <2> QED
    BY <2>1, RowsFinite DEF Total, WidgetRows
<1>d. Dashboards \subseteq Places /\ Nowhere \in Places /\ Nowhere \notin Dashboards
  BY WorkspaceAssumption DEF Dashboards, Places, Nowhere
\* Nothing is added, and no request begins to.
<1>s. ASSUME UNCHANGED placed, Keeps({"add"}) PROVE WidgetsInv'
  BY <1>0, <1>b, <1>s, WidgetsKept
<1>1. ASSUME NEW u \in Users, Create(u) PROVE WidgetsInv'
  BY <1>0, <1>1, <1>s, CountMeans DEF Create
<1>2. ASSUME NEW u \in Users, NEW r \in Requests, CreateDefault(r, u)
      PROVE  WidgetsInv'
  <2> DEFINE q == [pc |-> "insert", user |-> u, alone |-> Choosing(u) = {}]
  <2>1. BeginChoice(r, u, q) /\ UNCHANGED placed
    BY <1>2 DEF CreateDefault
  <2>2. q \in Request /\ q.pc = "insert"
    BY DEF Request
  <2> HIDE DEF q
  <2>3. Keeps({"add"})
    BY <1>0, <2>1, <2>2, BeginChoiceMeans
  <2> QED
    BY <1>s, <2>1, <2>3
<1>3. ASSUME NEW d \in Dashboards, UpdateOrdinary(d) PROVE WidgetsInv'
  BY <1>0, <1>3, <1>s, CountMeans DEF UpdateOrdinary
<1>4. ASSUME NEW d \in Dashboards, Remove(d) PROVE WidgetsInv'
  <2>1. /\ Count /\ UNCHANGED reqs
        /\ placed' = [placed EXCEPT ![Nowhere] = @ + placed[d], ![d] = 0]
    BY <1>4 DEF Remove
  <2>2. /\ d \in Places /\ d # Nowhere
        /\ placed'[Nowhere] = placed[Nowhere] + placed[d] /\ placed'[d] = 0
        /\ \A e \in Places \ {Nowhere, d} : placed'[e] = placed[e]
    BY <1>0, <1>d, <2>1
  <2>3. Total(placed') <= Total(placed)
    BY <1>0, <1>d, <1>w, <2>2, MoveRows
  <2> QED
    BY <1>0, <1>b, <2>1, <2>3, CountMeans, WidgetsKept
<1>5. ASSUME NEW d \in Dashboards, RemoveWidget(d) PROVE WidgetsInv'
  <2>1. Count /\ UNCHANGED reqs
    BY <1>5 DEF RemoveWidget
  <2>2. CASE UNCHANGED placed
    BY <1>0, <1>s, <2>1, <2>2, CountMeans
  <2>3. CASE placed[d] > 0 /\ placed' = [placed EXCEPT ![d] = @ - 1]
    <3>1. /\ placed[d] = placed'[d] + 1
          /\ \A e \in Places \ {d} : placed[e] = placed'[e]
      BY <1>0, <1>d, <2>3
    <3>2. Total(placed) = Total(placed') + 1
      BY <1>0, <1>d, <1>w, <3>1, AddRow
    <3>3. Total(placed') <= Total(placed)
      BY <1>0, <1>w, <3>2
    <3> QED
      BY <1>0, <1>b, <2>1, <3>3, CountMeans, WidgetsKept
  <2> QED
    BY <1>5, <2>2, <2>3 DEF RemoveWidget
<1>6. ASSUME NEW d \in Dashboards, NEW r \in Requests, UpdateDefault(r, d)
      PROVE  WidgetsInv'
  <2>0. PICK u : u = dash[d].owner
    OBVIOUS
  <2> DEFINE q == [pc |-> "reset", user |-> u, id |-> d, alone |-> Choosing(u) = {}]
  <2>1. BeginChoice(r, u, q) /\ dash[d].life = "here" /\ UNCHANGED placed
    BY <1>6, <2>0 DEF UpdateDefault, board
  <2>2. u \in Users
    BY <2>0, <2>1 DEF Base, DashboardsAreOwned
  <2>3. q \in Request /\ q.pc = "reset"
    BY <2>2 DEF Request
  <2> HIDE DEF q
  <2>4. Keeps({"add"})
    BY <1>0, <2>1, <2>2, <2>3, BeginChoiceMeans
  <2> QED
    BY <1>s, <2>1, <2>4
<1>7. ASSUME NEW d \in Dashboards, NEW r \in Requests, AddWidget(r, d)
      PROVE  WidgetsInv'
  <2> DEFINE q == [pc |-> "add", id |-> d]
  <2>1. /\ Begin(r, q) /\ placed' = placed
        /\ Total(placed) + Total(asked) < PlanWidgets
    BY <1>7 DEF AddWidget, board
  <2>2. q \in Request /\ q.pc = "add"
    BY DEF Request
  <2> HIDE DEF q
  <2>3. /\ reqs'[r] = q /\ reqs[r] = Idle
        /\ \A s \in Requests \ {r} : reqs'[s] = reqs[s]
    BY <1>0, <2>1, <2>2, BeginMeans
  <2>4. Adding' = Adding \cup {r} /\ r \notin Adding
    BY <2>2, <2>3, IdleType DEF Adding
  <2>5. Cardinality(Adding') = Cardinality(Adding) + 1
    BY <1>0, <2>4, FS_AddElement
  <2>6. Cardinality(Adding') <= Cardinality(Requests)
    BY <2>4, FS_Subset, WorkspaceAssumption DEF Adding
  <2>7. Total(placed)' = Total(placed)
    BY <1>w, <2>1
  <2> QED
    BY <1>0, <2>1, <2>5, <2>6, <2>7 DEF WidgetsInv
<1>8. ASSUME NEW d \in Dashboards, NEW s \in DOMAIN sessions, AddToDashboard(s, d)
      PROVE  WidgetsInv'
  BY <1>0, <1>8, <1>s, CountMeans DEF AddToDashboard
<1>9. ASSUME NEW r \in Requests, Insert(r) \/ Mark(r) PROVE WidgetsInv'
  <2>1. Finish(r) /\ UNCHANGED placed
    BY <1>9 DEF Insert, Mark
  <2>2. Keeps({"add"})
    BY <1>0, <2>1, FinishMeans
  <2> QED
    BY <1>s, <2>1, <2>2
<1>10. ASSUME NEW r \in Requests, Reset(r) PROVE WidgetsInv'
  <2> DEFINE q == [reqs[r] EXCEPT !.pc = "mark"]
  <2>1. /\ reqs[r].pc = "reset" /\ UNCHANGED placed
        /\ reqs' = [reqs EXCEPT ![r] = q]
    BY <1>0, <1>10 DEF Reset, Goto
  <2>2. q \in Request /\ q.pc = "mark"
    BY <1>0, <2>1, MarkNext
  <2> HIDE DEF q
  <2>3. Keeps({"add"})
    BY <1>0, <2>1, <2>2, SlotMeans
  <2> QED
    BY <1>s, <2>1, <2>3
<1>11. ASSUME NEW r \in Requests, CreateWidget(r) PROVE WidgetsInv'
  <2>0. PICK d : d = reqs[r].id
    OBVIOUS
  <2>1. /\ reqs[r].pc = "add" /\ Finish(r)
        /\ placed' = [placed EXCEPT ![d] = @ + 1] \/ placed' = placed
    BY <1>11, <2>0 DEF CreateWidget
  <2>2. d \in Places
    BY <1>0, <1>d, <2>0, <2>1, RequestFields
  <2>3. Total(placed') <= Total(placed) + 1
    <3>1. CASE placed' = placed
      BY <1>0, <3>1
    <3>2. CASE placed' = [placed EXCEPT ![d] = @ + 1]
      <4>1. /\ placed'[d] = placed[d] + 1
            /\ \A e \in Places \ {d} : placed'[e] = placed[e]
        BY <1>0, <2>2, <3>2
      <4>2. Total(placed') = Total(placed) + 1
        BY <1>0, <1>w, <2>2, <4>1, AddRow
      <4> QED
        BY <1>0, <4>2
    <3> QED
      BY <2>1, <3>1, <3>2
  <2>4. reqs'[r] = Idle /\ \A s \in Requests \ {r} : reqs'[s] = reqs[s]
    BY <1>0, <2>1, FinishMeans
  <2>5. Adding' = Adding \ {r} /\ r \in Adding
    BY <2>1, <2>4, IdleType DEF Adding
  <2>6. Cardinality(Adding') = Cardinality(Adding) - 1
    BY <1>0, <2>5, FS_RemoveElement
  <2> QED
    BY <1>0, <1>w, <2>3, <2>6 DEF WidgetsInv
<1> QED
  BY <1>1, <1>2, <1>3, <1>4, <1>5, <1>6, <1>7, <1>8, <1>9, <1>10, <1>11
     DEF Dashboarding

\* Every other step leaves the widgets alone.
LEMMA NextWidgets == Base /\ WidgetsInv /\ [Next]_vars => WidgetsInv'
<1> SUFFICES ASSUME Base, WidgetsInv, [Next]_vars PROVE WidgetsInv'
  OBVIOUS
<1>1. ASSUME NEW pcs, "add" \in pcs, Keeps(pcs), UNCHANGED board
      PROVE  WidgetsInv'
  <2>1. Keeps({"add"}) /\ placed' = placed
    BY <1>1 DEF Keeps, board
  <2>2. Total(placed') <= Total(placed)
    BY <2>1, WidgetNumbers
  <2> QED
    BY <2>1, <2>2, NextBase, WidgetsKept
<1>2. CASE Targeting
  BY <1>1, <1>2, TargetingFrame
<1>3. CASE Asking
  BY <1>1, <1>3, AskingFrame
<1>4. CASE (\E r \in Requests : Crash(r)) \/ Done \/ UNCHANGED vars
  BY <1>1, <1>4, QuietFrame
<1> QED
  BY <1>2, <1>3, <1>4, DashboardingWidgets DEF Next

\* The first state has no widget.
LEMMA InitWidgets == Init => WidgetsInv
<1> SUFFICES ASSUME Init PROVE WidgetsInv
  OBVIOUS
<1>0. Base
  BY InitBase
<1>1. \A d \in Places : placed[d] = 0
  BY DEF Init, Places
<1>2. WidgetRows(placed) = {}
  <2>1. \A x \in WidgetRows(placed) : FALSE
    BY <1>0, <1>1, WidgetNumbers, RowsMean
  <2> QED
    BY <2>1
<1>3. Total(placed) = 0
  BY <1>2, FS_EmptySet DEF Total
<1>4. Adding = {}
  BY IdleType DEF Init, Adding
<1>5. Cardinality(Adding) = 0
  BY <1>4, FS_EmptySet
<1> QED
  BY <1>0, <1>3, <1>5, WidgetNumbers DEF WidgetsInv

\* addWidget exceeds the plan by less than one widget per request that can be
\* under way, for any plan and any number of requests: dashboards that are
\* removed, questions that become widgets and crashes never make it more.
THEOREM WidgetsStayWithinPlan == Spec => []WidgetsWithinPlan
<1>1. Base /\ WidgetsInv => WidgetsWithinPlan
  BY WidgetNumbers DEF WidgetsInv, WidgetsWithinPlan
<1> QED
  BY <1>1, InitBase, InitWidgets, NextBase, NextWidgets, PTL DEF Spec
============================================================================
