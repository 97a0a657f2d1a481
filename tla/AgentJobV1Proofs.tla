-------------------------- MODULE AgentJobV1Proofs --------------------------
(***************************************************************************)
(* Theorems about AgentJobV1, for any number of calls, queries, answers,   *)
(* sockets and workers.                                                    *)
(***************************************************************************)
EXTENDS AgentJobV1, TLAPS

----------------------------------------------------------------------------
(* The inductive invariant                                                 *)

\* The row of a call is inserted by that call, once, with its SQL.
RowsAreInsertedOnce ==
  \A r \in Calls :
    /\ pc[r] \in {"idle", "expire", "lookup", "findAgent", "create"} =>
         jobs[r].status = "ABSENT"
    /\ pc[r] \in {"send", "sleep", "giveUp", "mark", "read"} =>
         jobs[r].status # "ABSENT" /\ jobs[r].sql = sql[r]
    /\ pc[r] = "idle" => reply[r].job = None

\* Only a job that exists reaches an agent, and only such a job completes.
CompletedWereAsked ==
  \A j \in Calls : /\ j \in asked => jobs[j].status # "ABSENT"
                   /\ jobs[j].status = "COMPLETED" => j \in asked

IInv == /\ TypeOK
        /\ RowsAreInsertedOnce
        /\ CompletedWereAsked
        /\ InsightIsOfResult
        /\ RepliesAnswerTheirQuery

----------------------------------------------------------------------------
(* Types                                                                   *)

\* The conditional update of a row gives a row.
LEMMA EndedType ==
  ASSUME NEW row \in Rows, NEW status \in TerminalStates,
         NEW result \in Answers \cup {None}
  PROVE  Ended(row, status, result) \in Rows
<1> DEFINE f == (status = "COMPLETED")
<1>1. f \in BOOLEAN
  BY Zenon
<1>2. Ended(row, status, result) =
        IF row.status \in ActiveStates
        THEN [row EXCEPT !.status = status, !.result = result,
                         !.fresh = f, !.late = FALSE]
        ELSE row
  BY DEF Ended
<1> HIDE DEF f
<1> QED
  BY <1>1, <1>2 DEF Rows

\* What the conditional update does to the columns the invariants read.
LEMMA EndedColumns ==
  ASSUME NEW row \in Rows, NEW status, NEW result
  PROVE  /\ row.status \notin ActiveStates => Ended(row, status, result) = row
         /\ row.status \in ActiveStates =>
              /\ Ended(row, status, result).status = status
              /\ Ended(row, status, result).result = result
         /\ Ended(row, status, result).sql = row.sql
         /\ Ended(row, status, result).insight = row.insight
<1> DEFINE f == (status = "COMPLETED")
<1>1. Ended(row, status, result) =
        IF row.status \in ActiveStates
        THEN [row EXCEPT !.status = status, !.result = result,
                         !.fresh = f, !.late = FALSE]
        ELSE row
  BY DEF Ended
<1> HIDE DEF f
<1> QED
  BY <1>1 DEF Rows

\* The empty row and the empty reply have their types.
LEMMA NoRowType == NoRow \in Rows /\ NoReply \in Replies
<1>1. NoRow \in Rows
  BY DEF NoRow, Rows
<1> QED
  BY <1>1 DEF NoReply, Replies

\* A call that returns keeps the types of its program counter and reply.
LEMMA ReturnType ==
  ASSUME TypeOK, NEW r \in Calls, NEW j \in Calls \cup {None}, Return(r, j)
  PROVE  pc' \in [Calls -> PCs] /\ reply' \in [Calls -> Replies]
<1>1. j # None => [job |-> j, row |-> jobs[j]] \in Replies
  BY DEF TypeOK, Replies
<1>2. reply' \in [Calls -> Replies]
  BY <1>1, NoRowType DEF Return, TypeOK
<1>3. pc' \in [Calls -> PCs]
  BY DEF Return, Goto, TypeOK, PCs
<1> QED
  BY <1>2, <1>3

\* A call moves to a label.
LEMMA GotoType ==
  ASSUME TypeOK, NEW r \in Calls, NEW label \in PCs, Goto(r, label)
  PROVE  pc' \in [Calls -> PCs]
BY DEF Goto, TypeOK

\* The initial state satisfies the invariant.
LEMMA InitIInv == Init => IInv
<1> SUFFICES ASSUME Init PROVE IInv
  OBVIOUS
<1>1. TypeOK
  BY NoRowType DEF Init, TypeOK, PCs
<1>2. RowsAreInsertedOnce /\ CompletedWereAsked
  BY DEF Init, RowsAreInsertedOnce, CompletedWereAsked, NoRow, NoReply
<1>3. InsightIsOfResult /\ RepliesAnswerTheirQuery
  BY DEF Init, InsightIsOfResult, RepliesAnswerTheirQuery, NoRow, NoReply
<1> QED
  BY <1>1, <1>2, <1>3 DEF IInv

\* Every step keeps the types.
LEMMA NextType ==
  ASSUME TypeOK, [Next]_vars
  PROVE  TypeOK'
<1> USE AgentJobAssumption
<1>1. ASSUME NEW r \in Calls, CallStep(r)
      PROVE  TypeOK'
  <2>1. CASE ExpireKey(r)
    <3>1. ttl' \in BOOLEAN
      <4> DEFINE h == hits > 0
      <4>1. h \in BOOLEAN
        BY DEF TypeOK
      <4>2. ttl' = h \/ ttl' = ttl
        BY <2>1, Zenon DEF ExpireKey
      <4> HIDE DEF h
      <4> QED
        BY <4>1, <4>2, Zenon DEF TypeOK
    <3>2. pc' \in [Calls -> PCs] /\ reply' \in [Calls -> Replies]
      BY <2>1, ReturnType, GotoType DEF ExpireKey, TypeOK, PCs
    <3> QED
      BY <2>1, <3>1, <3>2 DEF ExpireKey, TypeOK, net
  <2>2. CASE FindCachedJob(r)
    <3>1. pc' \in [Calls -> PCs] /\ reply' \in [Calls -> Replies]
      BY <2>2, ReturnType, GotoType DEF FindCachedJob, TypeOK, PCs
    <3> QED
      BY <2>2, <3>1 DEF FindCachedJob, TypeOK, net
  <2>3. CASE FindAgent(r)
    <3>1. pc' \in [Calls -> PCs] /\ reply' \in [Calls -> Replies]
      BY <2>3, ReturnType, GotoType DEF FindAgent, TypeOK, PCs
    <3> QED
      BY <2>3, <3>1 DEF FindAgent, TypeOK, net
  <2>4. CASE CreateJob(r)
    <3>1. [NoRow EXCEPT !.status = "PENDING", !.sql = sql[r]] \in Rows
      BY DEF NoRow, Rows, TypeOK, ActiveStates
    <3>2. pc' \in [Calls -> PCs]
      BY <2>4, GotoType DEF CreateJob, PCs
    <3> QED
      BY <2>4, <3>1, <3>2 DEF CreateJob, TypeOK, net
  <2>5. CASE EmitExecuteSql(r)
    <3>1. pc' \in [Calls -> PCs]
      BY <2>5, GotoType DEF EmitExecuteSql, PCs
    <3>2. asked' \subseteq Calls
      BY <2>5 DEF EmitExecuteSql, TypeOK
    <3> QED
      BY <2>5, <3>1, <3>2 DEF EmitExecuteSql, TypeOK, net
  <2>6. CASE GiveUp(r)
    <3>1. Ended(jobs[r], "FAILED", None) \in Rows
      BY EndedType DEF TypeOK, TerminalStates
    <3>2. pc' \in [Calls -> PCs] /\ reply' \in [Calls -> Replies]
      BY <2>6, ReturnType DEF GiveUp
    <3> QED
      BY <2>6, <3>1, <3>2 DEF GiveUp, TypeOK, net
  <2>7. CASE MarkRunning(r)
    <3>0. jobs[r] \in Rows
      BY DEF TypeOK
    <3>1. [jobs[r] EXCEPT !.status = "RUNNING"] \in Rows
      BY <3>0 DEF Rows, ActiveStates
    <3>2. pc' \in [Calls -> PCs]
      BY <2>7, GotoType DEF MarkRunning, PCs
    <3> QED
      BY <2>7, <3>1, <3>2 DEF MarkRunning, TypeOK, net
  <2>8. CASE ReadJob(r)
    <3>1. pc' \in [Calls -> PCs] /\ reply' \in [Calls -> Replies]
      BY <2>8, ReturnType DEF ReadJob
    <3> QED
      BY <2>8, <3>1 DEF ReadJob, TypeOK, net
  <2> QED
    BY <1>1, <2>1, <2>2, <2>3, <2>4, <2>5, <2>6, <2>7, <2>8 DEF CallStep
<1>2. ASSUME NEW r \in Calls, Retry(r)
      PROVE  TypeOK'
  <2>1. pc' \in [Calls -> PCs]
    BY <1>2, GotoType DEF Retry, PCs
  <2> QED
    BY <1>2, <2>1 DEF Retry, TypeOK, net
<1>3. ASSUME NEW r \in Calls, NEW q \in Queries, CheckRateLimit(r, q)
      PROVE  TypeOK'
  <2>1. pc' \in [Calls -> PCs] /\ reply' \in [Calls -> Replies]
    BY <1>3, ReturnType, GotoType DEF CheckRateLimit, TypeOK, PCs
  <2>2. hits' \in Nat /\ sql' \in [Calls -> Queries \cup {None}]
    BY <1>3 DEF CheckRateLimit, TypeOK
  <2> QED
    BY <1>3, <2>1, <2>2 DEF CheckRateLimit, TypeOK, net
<1>4. ASSUME NEW s \in Sockets, Connect(s) \/ HandleConnection(s)
                                 \/ HandleDisconnect(s)
      PROVE  TypeOK'
  <2>1. sock' \in [Sockets -> {"closed", "handshake", "abandoned", "connected"}]
    BY <1>4 DEF Connect, HandleConnection, HandleDisconnect, TypeOK
  <2>2. active' \in [Workers -> Sockets \cup {None, Dead}]
    BY <1>4 DEF Connect, HandleConnection, HandleDisconnect, TypeOK
  <2>3. present' \in [Workers -> BOOLEAN] /\ failing' \in [Workers -> BOOLEAN]
    BY <1>4 DEF Connect, HandleConnection, HandleDisconnect, TypeOK
  <2> QED
    BY <1>4, <2>1, <2>2, <2>3
    DEF Connect, HandleConnection, HandleDisconnect, TypeOK
<1>5. ASSUME NEW s \in Sockets, NEW j \in asked, NEW x \in Answers \cup {None},
             HandleSqlResult(s, j, x)
      PROVE  TypeOK'
  <2>1. j \in Calls /\ jobs[j] \in Rows
    BY DEF TypeOK
  <2>2. /\ Ended(jobs[j], "COMPLETED", x) \in Rows
        /\ Ended(jobs[j], "FAILED", None) \in Rows
    BY <2>1, EndedType DEF TerminalStates
  <2>3. insights' \subseteq [job : Calls, of : Answers]
    BY <1>5, <2>1 DEF HandleSqlResult, TypeOK
  <2>4. jobs' \in [Calls -> Rows]
    BY <1>5, <2>1, <2>2 DEF HandleSqlResult, TypeOK
  <2> QED
    BY <1>5, <2>3, <2>4 DEF HandleSqlResult, TypeOK, net
<1>6. ASSUME NEW w \in Workers, FailActiveJobsForOrg(w)
      PROVE  TypeOK'
  <2>1. jobs' \in [Calls -> Rows]
    BY <1>6, EndedType DEF FailActiveJobsForOrg, TypeOK, TerminalStates
  <2>2. failing' \in [Workers -> BOOLEAN]
    BY <1>6 DEF FailActiveJobsForOrg, TypeOK
  <2> QED
    BY <1>6, <2>1, <2>2 DEF FailActiveJobsForOrg, TypeOK
<1>7. ASSUME NEW w \in Workers, Restart(w)
      PROVE  TypeOK'
  <2>1. /\ pc' \in [Calls -> PCs]
        /\ sock' \in [Sockets -> {"closed", "handshake", "abandoned",
                                  "connected"}]
        /\ active' \in [Workers -> Sockets \cup {None, Dead}]
    BY <1>7 DEF Restart, TypeOK, PCs
  <2>2. /\ present' \in [Workers -> BOOLEAN] /\ failing' \in [Workers -> BOOLEAN]
        /\ insights' \subseteq [job : Calls, of : Answers]
    BY <1>7 DEF Restart, TypeOK
  <2> QED
    BY <1>7, <2>1, <2>2 DEF Restart, TypeOK
<1>8. ASSUME NEW i \in insights, StoreInsight(i)
      PROVE  TypeOK'
  <2>1. i.job \in Calls /\ i.of \in Answers /\ jobs[i.job] \in Rows
    BY DEF TypeOK
  <2>2. [jobs[i.job] EXCEPT !.insight = i.of] \in Rows
    BY <2>1 DEF Rows
  <2>3. jobs' \in [Calls -> Rows]
    BY <1>8, <2>1, <2>2 DEF StoreInsight, TypeOK
  <2> QED
    BY <1>8, <2>3 DEF StoreInsight, TypeOK, net
<1>9. ASSUME NEW j \in Calls, JobAges(j)
      PROVE  TypeOK'
  <2>0. jobs[j] \in Rows
    BY DEF TypeOK
  <2>1. /\ [jobs[j] EXCEPT !.late = TRUE] \in Rows
        /\ [jobs[j] EXCEPT !.fresh = FALSE] \in Rows
    BY <2>0 DEF Rows
  <2>2. jobs' \in [Calls -> Rows]
    BY <1>9, <2>1 DEF JobAges, TypeOK
  <2> QED
    BY <1>9, <2>2 DEF JobAges, TypeOK, net
<1>10. CASE CleanupStaleJobs
  <2>1. jobs' \in [Calls -> Rows]
    BY <1>10, EndedType DEF CleanupStaleJobs, TypeOK, TerminalStates
  <2> QED
    BY <1>10, <2>1 DEF CleanupStaleJobs, TypeOK, net
<1>11. CASE KeyExpires
  BY <1>11 DEF KeyExpires, TypeOK, net
<1>12. CASE AgentStatus
  <2>1. online' \in BOOLEAN
    BY <1>12, Zenon DEF AgentStatus
  <2> QED
    BY <1>12, <2>1 DEF AgentStatus, TypeOK, net
<1>13. CASE UNCHANGED vars
  BY <1>13 DEF vars, TypeOK
<1> QED
  BY <1>1, <1>2, <1>3, <1>4, <1>5, <1>6, <1>7, <1>8, <1>9, <1>10, <1>11,
     <1>12, <1>13 DEF Next, SocketStep

----------------------------------------------------------------------------
(* What a step does to rows, insights and calls                            *)

SameSql(j) == jobs'[j].sql = jobs[j].sql
SameResult(j) == jobs'[j].result = jobs[j].result
SameInsight(j) == jobs'[j].insight = jobs[j].insight

\* Row j keeps its columns, but for its age.
Rests(j) ==
  /\ jobs'[j].status = jobs[j].status
  /\ SameSql(j) /\ SameResult(j) /\ SameInsight(j)

\* createJob, by the call the row is named after.
Inserted(j) ==
  /\ pc[j] = "create" /\ pc'[j] = "send"
  /\ jobs'[j].status = "PENDING" /\ jobs'[j].sql = sql[j]
  /\ jobs'[j].result = None /\ jobs'[j].insight = None

\* The row is open and stays open.
Runs(j) ==
  /\ jobs[j].status \in ActiveStates /\ jobs'[j].status \in ActiveStates
  /\ SameSql(j) /\ SameResult(j) /\ SameInsight(j)

\* The conditional update of an open row.
Ends(j) ==
  /\ jobs[j].status \in ActiveStates /\ SameSql(j) /\ SameInsight(j)
  /\ \/ jobs'[j].status = "FAILED" /\ jobs'[j].result = None
     \/ jobs'[j].status = "COMPLETED" /\ j \in asked

\* An insight that was under way is stored.
Commented(j) ==
  /\ \E i \in insights : i.job = j /\ jobs'[j].insight = i.of
  /\ jobs'[j].status = jobs[j].status /\ SameSql(j) /\ SameResult(j)

RowMove(j) ==
  Rests(j) \/ Inserted(j) \/ Runs(j) \/ Ends(j) \/ Commented(j)

\* An insight under way was so before, or is of the rows that are stored now.
InsightMove ==
  \A i \in insights' :
    \/ i \in insights
    \/ /\ i.job \in Calls /\ jobs[i.job].status \in ActiveStates
       /\ jobs'[i.job].status = "COMPLETED" /\ jobs'[i.job].result = i.of

Early == {"expire", "lookup", "findAgent", "create"}
Sent == {"send", "sleep", "giveUp", "mark", "read"}

\* The call goes on without an answer.
Proceeds(r) ==
  /\ reply'[r] = reply[r]
  /\ \/ pc'[r] = pc[r] /\ sql'[r] = sql[r]
     \/ pc'[r] = "lost" /\ sql'[r] = sql[r]
     \/ pc[r] \in Early \cup {"idle"} /\ pc'[r] \in Early
     \/ Inserted(r) /\ sql'[r] = sql[r]
     \/ pc[r] \in Sent /\ pc'[r] \in Sent /\ sql'[r] = sql[r]
  /\ sql'[r] = sql[r] \/ pc[r] = "idle"

\* The call answers, with an error or with a row as it stands.
Replied(r) ==
  /\ pc'[r] = "done"
  /\ \/ reply'[r].job = None
     \/ /\ reply'[r].job \in Calls /\ reply'[r].row = jobs[reply'[r].job]
        /\ jobs[reply'[r].job].sql = sql[r] /\ sql'[r] = sql[r]

CallMove(r) == Proceeds(r) \/ Replied(r)

AskedMove ==
  \A j \in asked' : j \in asked \/ (j \in Calls /\ pc[j] = "send"
                                     /\ jobs'[j] = jobs[j])

Moves ==
  /\ \A j \in Calls : RowMove(j) /\ CallMove(j)
  /\ InsightMove /\ AskedMove /\ asked \subseteq asked'

\* A step that leaves the table alone moves no row.
LEMMA SameRows == ASSUME UNCHANGED jobs PROVE \A j \in Calls : RowMove(j)
BY DEF RowMove, Rests, SameSql, SameResult, SameInsight

\* A step that leaves the calls alone moves no call.
LEMMA SameCalls ==
  ASSUME UNCHANGED <<pc, sql, reply>> PROVE \A r \in Calls : CallMove(r)
BY DEF CallMove, Proceeds

\* A step of call r within one of its two phases.
LEMMA GotoMove ==
  ASSUME TypeOK, NEW r \in Calls, NEW label, Goto(r, label),
         UNCHANGED <<sql, reply>>,
         \/ pc[r] \in Early /\ label \in Early
         \/ pc[r] \in Sent /\ label \in Sent
  PROVE  \A q \in Calls : CallMove(q)
BY DEF CallMove, Proceeds, Goto, TypeOK

\* Call r answers with an error or a row of its SQL.
LEMMA ReturnMove ==
  ASSUME TypeOK, NEW r \in Calls, NEW j \in Calls \cup {None}, Return(r, j),
         \A q \in Calls \ {r} : sql'[q] = sql[q],
         j # None => jobs[j].sql = sql[r] /\ sql' = sql
  PROVE  \A q \in Calls : CallMove(q)
<1> SUFFICES ASSUME NEW q \in Calls PROVE CallMove(q)
  OBVIOUS
<1>1. CASE q # r
  BY <1>1 DEF Return, Goto, TypeOK, CallMove, Proceeds
<1>2. CASE q = r
  <2>1. pc'[r] = "done"
    BY DEF Return, Goto, TypeOK
  <2>2. reply'[r] = IF j = None THEN NoReply ELSE [job |-> j, row |-> jobs[j]]
    BY DEF Return, TypeOK
  <2> QED
    BY <1>2, <2>1, <2>2 DEF CallMove, Replied, NoReply
<1> QED
  BY <1>1, <1>2

\* An open row that ends.
LEMMA EndedMove ==
  ASSUME TypeOK, NEW j \in Calls, NEW status \in TerminalStates,
         NEW result, status = "FAILED" => result = None,
         status = "COMPLETED" => j \in asked,
         jobs'[j] = Ended(jobs[j], status, result)
  PROVE  RowMove(j)
<1>1. jobs[j] \in Rows
  BY DEF TypeOK
<1> QED
  BY <1>1, EndedColumns
  DEF RowMove, Rests, Ends, SameSql, SameResult, SameInsight, TerminalStates

\* Every step moves rows, insights and calls in one of these ways.
LEMMA NextMoves ==
  ASSUME TypeOK, RowsAreInsertedOnce, [Next]_vars
  PROVE  Moves
<1> SUFFICES /\ \A j \in Calls : RowMove(j)
             /\ \A r \in Calls : CallMove(r)
             /\ InsightMove /\ AskedMove /\ asked \subseteq asked'
  BY DEF Moves
<1>a. UNCHANGED insights => InsightMove
  BY DEF InsightMove
<1>b. UNCHANGED asked => AskedMove /\ asked \subseteq asked'
  BY DEF AskedMove
<1>1. ASSUME NEW r \in Calls, CallStep(r)
      PROVE  /\ \A j \in Calls : RowMove(j)
             /\ \A q \in Calls : CallMove(q)
             /\ InsightMove /\ AskedMove /\ asked \subseteq asked'
  <2>1. CASE ExpireKey(r)
    <3>1. \A q \in Calls : CallMove(q)
      BY <2>1, GotoMove, ReturnMove DEF ExpireKey, Early
    <3> QED
      BY <1>a, <1>b, <2>1, <3>1, SameRows DEF ExpireKey
  <2>2. CASE FindCachedJob(r)
    <3>1. \A q \in Calls : CallMove(q)
      <4>1. CASE Goto(r, "findAgent") /\ UNCHANGED reply
        BY <2>2, <4>1, GotoMove DEF FindCachedJob, Early
      <4>2. CASE \E j \in Calls : jobs[j].sql = sql[r] /\ Return(r, j)
        BY <2>2, <4>2, ReturnMove DEF FindCachedJob
      <4> QED
        BY <2>2, <4>1, <4>2 DEF FindCachedJob
    <3> QED
      BY <1>a, <1>b, <2>2, <3>1, SameRows DEF FindCachedJob
  <2>3. CASE FindAgent(r)
    <3>1. \A q \in Calls : CallMove(q)
      BY <2>3, GotoMove, ReturnMove DEF FindAgent, Early
    <3> QED
      BY <1>a, <1>b, <2>3, <3>1, SameRows DEF FindAgent
  <2>4. CASE CreateJob(r)
    <3>1. /\ pc[r] = "create" /\ pc' = [pc EXCEPT ![r] = "send"]
          /\ jobs' = [jobs EXCEPT ![r] = [NoRow EXCEPT !.status = "PENDING",
                                                     !.sql = sql[r]]]
          /\ UNCHANGED <<sql, reply, insights, asked>>
      BY <2>4 DEF CreateJob, Goto
    <3>2. Inserted(r)
      BY <3>1 DEF Inserted, NoRow, TypeOK
    <3>3. \A j \in Calls : RowMove(j)
      BY <3>1, <3>2
      DEF RowMove, Rests, SameSql, SameResult, SameInsight, TypeOK
    <3>4. \A q \in Calls : CallMove(q)
      BY <3>1, <3>2 DEF CallMove, Proceeds, TypeOK
    <3> QED
      BY <1>a, <1>b, <3>1, <3>3, <3>4
  <2>5. CASE EmitExecuteSql(r)
    <3>1. \A q \in Calls : CallMove(q)
      BY <2>5, GotoMove DEF EmitExecuteSql, Sent
    <3>2. AskedMove /\ asked \subseteq asked'
      BY <2>5 DEF EmitExecuteSql, AskedMove, TypeOK
    <3> QED
      BY <1>a, <2>5, <3>1, <3>2, SameRows DEF EmitExecuteSql
  <2>6. CASE GiveUp(r)
    <3>1. \A q \in Calls : CallMove(q)
      BY <2>6, ReturnMove DEF GiveUp
    <3>2. jobs'[r] = Ended(jobs[r], "FAILED", None)
      BY <2>6 DEF GiveUp, TypeOK
    <3>3. RowMove(r)
      BY <3>2, EndedMove DEF TerminalStates
    <3>4. \A j \in Calls \ {r} : RowMove(j)
      BY <2>6
      DEF GiveUp, RowMove, Rests, SameSql, SameResult, SameInsight, TypeOK
    <3> QED
      BY <1>a, <1>b, <2>6, <3>1, <3>3, <3>4 DEF GiveUp
  <2>7. CASE MarkRunning(r)
    <3>1. \A q \in Calls : CallMove(q)
      BY <2>7, GotoMove DEF MarkRunning, Sent
    <3>2. jobs[r] \in Rows
      BY DEF TypeOK
    <3>3. \/ UNCHANGED jobs
          \/ /\ jobs[r].status = "PENDING"
             /\ jobs' = [jobs EXCEPT ![r] = [@ EXCEPT !.status = "RUNNING"]]
      BY <2>7 DEF MarkRunning
    <3>4. \A j \in Calls : RowMove(j)
      BY <3>2, <3>3
      DEF RowMove, Rests, Runs, SameSql, SameResult, SameInsight, TypeOK,
          Rows, ActiveStates
    <3> QED
      BY <1>a, <1>b, <2>7, <3>1, <3>4 DEF MarkRunning
  <2>8. CASE ReadJob(r)
    <3>1. jobs[r].sql = sql[r]
      BY <2>8 DEF ReadJob, RowsAreInsertedOnce
    <3>2. \A q \in Calls : CallMove(q)
      BY <2>8, <3>1, ReturnMove DEF ReadJob
    <3> QED
      BY <1>a, <1>b, <2>8, <3>2, SameRows DEF ReadJob
  <2> QED
    BY <1>1, <2>1, <2>2, <2>3, <2>4, <2>5, <2>6, <2>7, <2>8 DEF CallStep
<1>2. ASSUME NEW r \in Calls, Retry(r)
      PROVE  /\ \A j \in Calls : RowMove(j)
             /\ \A q \in Calls : CallMove(q)
             /\ InsightMove /\ AskedMove /\ asked \subseteq asked'
  <2>1. \A q \in Calls : CallMove(q)
    BY <1>2, GotoMove DEF Retry, Sent
  <2> QED
    BY <1>a, <1>b, <1>2, <2>1, SameRows DEF Retry
<1>3. ASSUME NEW r \in Calls, NEW q \in Queries, CheckRateLimit(r, q)
      PROVE  /\ \A j \in Calls : RowMove(j)
             /\ \A i \in Calls : CallMove(i)
             /\ InsightMove /\ AskedMove /\ asked \subseteq asked'
  <2>1. \A i \in Calls \ {r} : sql'[i] = sql[i]
    BY <1>3 DEF CheckRateLimit, TypeOK
  <2>2. CASE Return(r, None)
    BY <1>a, <1>b, <1>3, <2>1, <2>2, SameRows, ReturnMove DEF CheckRateLimit
  <2>3. CASE /\ Goto(r, "expire") \/ Goto(r, "lookup")
             /\ UNCHANGED reply
    <3>1. \A i \in Calls : CallMove(i)
      BY <1>3, <2>1, <2>3
      DEF CheckRateLimit, CallMove, Proceeds, Goto, Early, TypeOK
    <3> QED
      BY <1>a, <1>b, <1>3, <3>1, SameRows DEF CheckRateLimit
  <2> QED
    BY <1>3, <2>2, <2>3 DEF CheckRateLimit, TypeOK
<1>4. ASSUME NEW s \in Sockets, Connect(s) \/ HandleConnection(s)
                                 \/ HandleDisconnect(s)
      PROVE  UNCHANGED <<jobs, pc, sql, reply, insights, asked>>
  BY <1>4 DEF Connect, HandleConnection, HandleDisconnect
<1>5. ASSUME NEW s \in Sockets, NEW j \in asked, NEW x \in Answers \cup {None},
             HandleSqlResult(s, j, x)
      PROVE  /\ \A i \in Calls : RowMove(i)
             /\ InsightMove /\ UNCHANGED <<pc, sql, reply, asked>>
  <2>1. j \in Calls /\ jobs[j] \in Rows
    BY DEF TypeOK
  <2>2. UNCHANGED <<pc, sql, reply, asked>>
    BY <1>5 DEF HandleSqlResult
  <2>3. \A i \in Calls \ {j} : RowMove(i)
    BY <1>5, <2>1
    DEF HandleSqlResult, RowMove, Rests, SameSql, SameResult, SameInsight, TypeOK
  <2>4. CASE /\ jobs' = [jobs EXCEPT ![j] = Ended(@, "COMPLETED", x)]
             /\ insights' = IF IsActive(j) /\ x # None
                              THEN insights \cup {[job |-> j, of |-> x]}
                              ELSE insights
    <3>1. jobs'[j] = Ended(jobs[j], "COMPLETED", x)
      BY <2>1, <2>4 DEF TypeOK
    <3>2. RowMove(j)
      BY <2>1, <3>1, EndedMove DEF TerminalStates
    <3>3. IsActive(j) => jobs'[j].status = "COMPLETED" /\ jobs'[j].result = x
      BY <2>1, <3>1, EndedColumns DEF IsActive
    <3>4. InsightMove
      BY <2>1, <2>4, <3>3 DEF InsightMove, IsActive
    <3> QED
      BY <2>2, <2>3, <3>2, <3>4
  <2>5. CASE /\ jobs' = [jobs EXCEPT ![j] = Ended(@, "FAILED", None)]
             /\ UNCHANGED insights
    <3>1. jobs'[j] = Ended(jobs[j], "FAILED", None)
      BY <2>1, <2>5 DEF TypeOK
    <3>2. RowMove(j)
      BY <2>1, <3>1, EndedMove DEF TerminalStates
    <3> QED
      BY <1>a, <2>2, <2>3, <2>5, <3>2
  <2> QED
    BY <1>5, <2>4, <2>5 DEF HandleSqlResult
<1>6. ASSUME NEW w \in Workers, FailActiveJobsForOrg(w)
      PROVE  /\ \A j \in Calls : RowMove(j)
             /\ UNCHANGED <<pc, sql, reply, insights, asked>>
  <2>1. \A j \in Calls : jobs'[j] = Ended(jobs[j], "FAILED", None)
    BY <1>6 DEF FailActiveJobsForOrg
  <2> QED
    BY <1>6, <2>1, EndedMove DEF FailActiveJobsForOrg, TerminalStates
<1>7. ASSUME NEW w \in Workers, Restart(w)
      PROVE  /\ \A q \in Calls : CallMove(q)
             /\ InsightMove /\ UNCHANGED <<jobs, asked>>
  BY <1>7 DEF Restart, CallMove, Proceeds, InsightMove, TypeOK
<1>8. ASSUME NEW i \in insights, StoreInsight(i)
      PROVE  /\ \A j \in Calls : RowMove(j)
             /\ InsightMove /\ UNCHANGED <<pc, sql, reply, asked>>
  <2>1. i.job \in Calls /\ jobs[i.job] \in Rows
    BY DEF TypeOK
  <2>2. \/ UNCHANGED jobs
        \/ jobs' = [jobs EXCEPT ![i.job] = [@ EXCEPT !.insight = i.of]]
    BY <1>8 DEF StoreInsight
  <2>3. \A j \in Calls : RowMove(j)
    BY <2>1, <2>2
    DEF RowMove, Rests, Commented, SameSql, SameResult, SameInsight, TypeOK, Rows
  <2> QED
    BY <1>8, <2>3 DEF StoreInsight, InsightMove
<1>9. ASSUME NEW j \in Calls, JobAges(j)
      PROVE  /\ \A i \in Calls : RowMove(i)
             /\ UNCHANGED <<pc, sql, reply, insights, asked>>
  <2>1. jobs[j] \in Rows
    BY DEF TypeOK
  <2>2. \/ jobs' = [jobs EXCEPT ![j] = [@ EXCEPT !.late = TRUE]]
        \/ jobs' = [jobs EXCEPT ![j] = [@ EXCEPT !.fresh = FALSE]]
    BY <1>9 DEF JobAges
  <2>3. \A i \in Calls : Rests(i)
    BY <2>1, <2>2 DEF Rests, SameSql, SameResult, SameInsight, TypeOK, Rows
  <2> QED
    BY <1>9, <2>3 DEF JobAges, RowMove
<1>10. ASSUME CleanupStaleJobs
       PROVE  /\ \A j \in Calls : RowMove(j)
              /\ UNCHANGED <<pc, sql, reply, insights, asked>>
  <2>1. \A j \in Calls : \/ jobs'[j] = Ended(jobs[j], "FAILED", None)
                         \/ jobs'[j] = jobs[j]
    BY <1>10 DEF CleanupStaleJobs
  <2>2. \A j \in Calls : jobs'[j] = jobs[j] => RowMove(j)
    BY DEF RowMove, Rests, SameSql, SameResult, SameInsight
  <2> QED
    BY <1>10, <2>1, <2>2, EndedMove DEF CleanupStaleJobs, TerminalStates
<1>11. CASE UNCHANGED <<jobs, pc, sql, reply, insights, asked>>
  BY <1>a, <1>b, <1>11, SameRows, SameCalls
<1> QED
  BY <1>a, <1>b, <1>1, <1>2, <1>3, <1>4, <1>5, <1>6, <1>7, <1>8, <1>9, <1>10,
     <1>11, SameRows, SameCalls
  DEF Next, SocketStep, KeyExpires, AgentStatus, vars

----------------------------------------------------------------------------
(* The invariant is inductive                                              *)

\* Moves keep what is known about a row from the progress of its call.
LEMMA KeepsInserted ==
  ASSUME IInv, TypeOK', Moves
  PROVE  RowsAreInsertedOnce'
<1> SUFFICES ASSUME NEW r \in Calls
             PROVE  /\ pc'[r] \in Early \cup {"idle"} =>
                         jobs'[r].status = "ABSENT"
                    /\ pc'[r] \in Sent => /\ jobs'[r].status # "ABSENT"
                                         /\ jobs'[r].sql = sql'[r]
                    /\ pc'[r] = "idle" => reply'[r].job = None
  BY DEF RowsAreInsertedOnce, Early, Sent
<1>1. /\ pc[r] \in Early \cup {"idle"} => jobs[r].status = "ABSENT"
      /\ pc[r] \in Sent => jobs[r].status # "ABSENT" /\ jobs[r].sql = sql[r]
      /\ pc[r] = "idle" => reply[r].job = None
  BY DEF IInv, RowsAreInsertedOnce, Early, Sent
<1>2. RowMove(r) /\ CallMove(r)
  BY DEF Moves
<1>3. jobs[r].status = "ABSENT" => Rests(r) \/ Inserted(r)
  <2>1. ASSUME Commented(r), jobs[r].status = "ABSENT" PROVE FALSE
    BY <2>1, AgentJobAssumption
    DEF Commented, IInv, InsightIsOfResult, TypeOK
  <2> QED
    BY <1>2, <2>1 DEF RowMove, Runs, Ends, ActiveStates
<1>4. jobs[r].status # "ABSENT" =>
        Inserted(r) \/ (jobs'[r].status # "ABSENT" /\ SameSql(r))
  BY <1>2 DEF RowMove, Rests, Runs, Ends, Commented, ActiveStates
<1>5. CASE Replied(r)
  BY <1>5 DEF Replied, Early, Sent
<1>6. CASE Proceeds(r)
  BY <1>1, <1>3, <1>4, <1>6
  DEF Proceeds, Inserted, Rests, SameSql, Early, Sent
<1> QED
  BY <1>2, <1>5, <1>6 DEF CallMove

\* Moves keep that completed jobs were sent to an agent.
LEMMA KeepsAsked ==
  ASSUME IInv, Moves
  PROVE  CompletedWereAsked'
<1> SUFFICES ASSUME NEW j \in Calls
             PROVE  /\ j \in asked' => jobs'[j].status # "ABSENT"
                    /\ jobs'[j].status = "COMPLETED" => j \in asked'
  BY DEF CompletedWereAsked
<1>1. RowMove(j) /\ asked \subseteq asked'
  BY DEF Moves
<1>2. /\ j \in asked => jobs[j].status # "ABSENT"
      /\ jobs[j].status = "COMPLETED" => j \in asked
  BY DEF IInv, CompletedWereAsked
<1>3. jobs[j].status # "ABSENT" => jobs'[j].status # "ABSENT"
  BY <1>1 DEF RowMove, Rests, Inserted, Runs, Ends, Commented, ActiveStates
<1>4. j \in asked' => j \in asked \/ (pc[j] = "send" /\ jobs'[j] = jobs[j])
  BY DEF Moves, AskedMove
<1>5. pc[j] = "send" => jobs[j].status # "ABSENT"
  BY DEF IInv, RowsAreInsertedOnce
<1>6. jobs'[j].status = "COMPLETED" => j \in asked
  BY <1>1, <1>2
  DEF RowMove, Rests, Inserted, Runs, Ends, Commented, ActiveStates
<1> QED
  BY <1>1, <1>2, <1>3, <1>4, <1>5, <1>6

\* Moves keep insights and stored rows together: an open row has neither, and
\* an insight under way belongs to a row that will not change any more.
LEMMA KeepsInsights ==
  ASSUME IInv, TypeOK', Moves
  PROVE  InsightIsOfResult'
<1> SUFFICES ASSUME NEW j \in Calls
             PROVE  /\ jobs'[j].insight # None =>
                         jobs'[j].insight = jobs'[j].result
                    /\ \A i \in insights' : i.job = j => i.of = jobs'[j].result
                    /\ jobs'[j].result # None => jobs'[j].status = "COMPLETED"
  BY DEF InsightIsOfResult
<1>1. RowMove(j) /\ InsightMove
  BY DEF Moves
<1>2. /\ jobs[j].insight # None => jobs[j].insight = jobs[j].result
      /\ \A i \in insights : i.job = j => i.of = jobs[j].result
      /\ jobs[j].result # None => jobs[j].status = "COMPLETED"
  BY DEF IInv, InsightIsOfResult
<1>3. \A i \in insights : i.of # None
  BY AgentJobAssumption DEF IInv, TypeOK
<1>4. jobs[j].status # "COMPLETED" =>
        /\ jobs[j].insight = None /\ jobs[j].result = None
        /\ \A i \in insights : i.job # j
  BY <1>2, <1>3
<1>5. \A i \in insights' : i.job = j =>
        \/ i \in insights
        \/ jobs[j].status \in ActiveStates /\ jobs'[j].result = i.of
  BY <1>1 DEF InsightMove
<1>6. CASE Rests(j)
  BY <1>2, <1>5, <1>6, <1>4 DEF Rests, SameResult, SameInsight, ActiveStates
<1>7. CASE Inserted(j)
  <2>1. jobs[j].status = "ABSENT"
    BY <1>7 DEF Inserted, IInv, RowsAreInsertedOnce
  <2> QED
    BY <1>4, <1>5, <1>7, <2>1 DEF Inserted, ActiveStates
<1>8. CASE Runs(j)
  BY <1>4, <1>5, <1>8 DEF Runs, SameResult, SameInsight, ActiveStates
<1>9. CASE Ends(j)
  BY <1>4, <1>5, <1>9 DEF Ends, SameInsight, ActiveStates
<1>10. CASE Commented(j)
  BY <1>2, <1>4, <1>5, <1>10 DEF Commented, SameResult, ActiveStates
<1> QED
  BY <1>1, <1>6, <1>7, <1>8, <1>9, <1>10 DEF RowMove

\* Moves keep what was returned.
LEMMA KeepsReplies ==
  ASSUME IInv, Moves
  PROVE  RepliesAnswerTheirQuery'
<1> SUFFICES ASSUME NEW r \in Calls, reply'[r].job # None
             PROVE  /\ reply'[r].row.sql = sql'[r]
                    /\ reply'[r].row.status = "COMPLETED" =>
                         reply'[r].job \in asked'
  BY DEF RepliesAnswerTheirQuery
<1>1. CallMove(r) /\ asked \subseteq asked'
  BY DEF Moves
<1>2. CASE Replied(r)
  BY <1>1, <1>2 DEF Replied, IInv, CompletedWereAsked
<1>3. CASE Proceeds(r)
  <2>1. reply'[r] = reply[r] /\ sql'[r] = sql[r]
    BY <1>3 DEF Proceeds, IInv, RowsAreInsertedOnce
  <2> QED
    BY <1>1, <2>1 DEF IInv, RepliesAnswerTheirQuery
<1> QED
  BY <1>1, <1>2, <1>3 DEF CallMove

\* Every step keeps the invariant.
LEMMA NextIInv == IInv /\ [Next]_vars => IInv'
<1> SUFFICES ASSUME IInv, [Next]_vars PROVE IInv'
  OBVIOUS
<1>1. TypeOK'
  BY NextType DEF IInv
<1>2. Moves
  BY NextMoves DEF IInv
<1> QED
  BY <1>1, <1>2, KeepsInserted, KeepsAsked, KeepsInsights, KeepsReplies DEF IInv

----------------------------------------------------------------------------
(* Theorems                                                                *)

\* The V1 path keeps its types.
THEOREM TypeCorrect == Spec => []TypeOK
<1>1. IInv => TypeOK
  BY DEF IInv
<1> QED
  BY <1>1, InitIInv, NextIInv, PTL DEF Spec

\* An insight, stored or under way, is of the rows that are stored, although
\* it is generated long after the answer it was started by, and a job that
\* failed has no rows: updateJobResult and generateAndStoreInsight under late
\* and repeated answers, sweeps and disconnections.
THEOREM InsightsAreOfResults == Spec => []InsightIsOfResult
<1>1. IInv => InsightIsOfResult
  BY DEF IInv
<1> QED
  BY <1>1, InitIInv, NextIInv, PTL DEF Spec

\* What executeRealTimeQuery returns is a row of the SQL it was called with,
\* from the cache too, and rows come from jobs that were sent to an agent.
THEOREM RepliesAreAnswers == Spec => []RepliesAnswerTheirQuery
<1>1. IInv => RepliesAnswerTheirQuery
  BY DEF IInv
<1> QED
  BY <1>1, InitIInv, NextIInv, PTL DEF Spec

\* No step of anybody changes the status or the rows of a finished job.
THEOREM FinishedJobsStay == Spec => TerminalIsFinal
<1> DEFINE Stays == \A j \in Calls : jobs[j].status \in TerminalStates =>
                      /\ jobs'[j].status = jobs[j].status
                      /\ jobs'[j].result = jobs[j].result
<1>1. IInv /\ [Next]_vars => [Stays]_vars
  <2> SUFFICES ASSUME IInv, [Next]_vars, NEW j \in Calls,
                      jobs[j].status \in TerminalStates
               PROVE  /\ jobs'[j].status = jobs[j].status
                      /\ jobs'[j].result = jobs[j].result
    OBVIOUS
  <2>1. RowMove(j)
    BY NextMoves DEF IInv, Moves
  <2>2. ~Inserted(j)
    BY DEF Inserted, IInv, RowsAreInsertedOnce, TerminalStates
  <2> QED
    BY <2>1, <2>2
    DEF RowMove, Rests, Runs, Ends, Commented, SameResult, ActiveStates,
        TerminalStates
<1> QED
  BY <1>1, InitIInv, NextIInv, PTL DEF Spec, TerminalIsFinal

============================================================================
