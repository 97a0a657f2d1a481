----------------------------- MODULE AgentJobV1 -----------------------------
(***************************************************************************)
(* The V1 real-time query path of one organisation:                        *)
(* AgentsService.executeRealTimeQuery, the execute_sql / sql_result events *)
(* of AgentsGateway, the distributed rate limit, the background insight    *)
(* and the sweeps that fail abandoned jobs.                                *)
(*                                                                         *)
(* One action is one database or Redis statement, or one run of            *)
(* synchronous code, with the code up to the next await.                   *)
(***************************************************************************)
EXTENDS Naturals, FiniteSets

CONSTANTS
  Calls,     \* calls of executeRealTimeQuery; a job carries its call's name
  Queries,   \* SQL texts after placeholder substitution and validation
  Answers,   \* distinct row sets an agent may send
  Sockets, Workers,
  SockHome,  \* SockHome[s]: the worker that holds socket s
  HomeOf,    \* HomeOf[r]: the worker that serves call r
  MaxHits,   \* MAX_REQUESTS_PER_MINUTE
  None, Dead

ASSUME AgentJobAssumption ==
  /\ SockHome \in [Sockets -> Workers]
  /\ HomeOf \in [Calls -> Workers]
  /\ MaxHits \in Nat
  /\ None \notin Queries \cup Answers \cup Sockets
  /\ Dead \notin Sockets \cup {None}

VARIABLES
  jobs,      \* table agent_jobs, by the call that inserted the row
  pc, sql,   \* progress and query of each call
  reply,     \* what each call returned
  insights,  \* generateAndStoreInsight runs in the background
  hits,      \* the Redis counter sql_rl:<organisation>; 0: no key
  ttl,       \* whether that key has a time to live
  online,    \* some agent of the organisation has status online, not revoked
  sock,      \* life of each agent socket
  active,    \* AgentsGateway.activeAgents of the organisation, per worker
  present,   \* AgentsService.connectedAgents has the organisation, per worker
  failing,   \* failActiveJobsForOrg is under way, per worker
  asked      \* jobs whose execute_sql reached an agent

vars == <<jobs, pc, sql, reply, insights, hits, ttl, online, sock, active,
          present, failing, asked>>

net == <<sock, active, present, failing>>

----------------------------------------------------------------------------

ActiveStates == {"PENDING", "RUNNING"}

TerminalStates == {"COMPLETED", "FAILED"}

\* late: created more than JOB_TIMEOUT_MS ago; fresh: completed less than
\* CACHE_TTL_MS ago.
Rows == [status : ActiveStates \cup TerminalStates \cup {"ABSENT"},
         sql : Queries \cup {None}, result : Answers \cup {None},
         insight : Answers \cup {None}, late : BOOLEAN, fresh : BOOLEAN]

NoRow == [status |-> "ABSENT", sql |-> None, result |-> None,
          insight |-> None, late |-> FALSE, fresh |-> FALSE]

PCs == {"idle", "expire", "lookup", "findAgent", "create", "send", "sleep",
        "giveUp", "mark", "read", "done", "lost"}

\* A call returns the row of a job as it read it, or an error.
Replies == [job : Calls \cup {None}, row : Rows]

NoReply == [job |-> None, row |-> NoRow]

TypeOK ==
  /\ jobs \in [Calls -> Rows]
  /\ pc \in [Calls -> PCs]
  /\ sql \in [Calls -> Queries \cup {None}]
  /\ reply \in [Calls -> Replies]
  /\ insights \subseteq [job : Calls, of : Answers]
  /\ hits \in Nat /\ ttl \in BOOLEAN /\ online \in BOOLEAN
  /\ sock \in [Sockets -> {"closed", "handshake", "abandoned", "connected"}]
  /\ active \in [Workers -> Sockets \cup {None, Dead}]
  /\ present \in [Workers -> BOOLEAN]
  /\ failing \in [Workers -> BOOLEAN]
  /\ asked \subseteq Calls

Init ==
  /\ jobs = [r \in Calls |-> NoRow]
  /\ pc = [r \in Calls |-> "idle"]
  /\ sql = [r \in Calls |-> None]
  /\ reply = [r \in Calls |-> NoReply]
  /\ insights = {}
  /\ hits = 0 /\ ttl = FALSE /\ online = FALSE
  /\ sock = [s \in Sockets |-> "closed"]
  /\ active = [w \in Workers |-> None]
  /\ present = [w \in Workers |-> FALSE]
  /\ failing = [w \in Workers |-> FALSE]
  /\ asked = {}

IsActive(j) == jobs[j].status \in ActiveStates

\* The row an updateMany WHERE status IN (PENDING, RUNNING) leaves.
Ended(row, status, result) ==
  IF row.status \in ActiveStates
  THEN [row EXCEPT !.status = status, !.result = result,
                   !.fresh = (status = "COMPLETED"), !.late = FALSE]
  ELSE row

Goto(r, label) == pc' = [pc EXCEPT ![r] = label]

\* The call answers with job j as it stands, or with an error (None).
Return(r, j) ==
  /\ Goto(r, "done")
  /\ reply' = [reply EXCEPT ![r] =
                 IF j = None THEN NoReply ELSE [job |-> j, row |-> jobs[j]]]

----------------------------------------------------------------------------
(* executeRealTimeQuery                                                    *)

\* Up to the INCR of checkRateLimit.  Redis may be unavailable: fail-open.
CheckRateLimit(r, q) ==
  /\ pc[r] = "idle"
  /\ sql' = [sql EXCEPT ![r] = q]
  /\ \/ /\ hits' = hits + 1
        /\ CASE hits = 0 -> Goto(r, "expire") /\ UNCHANGED reply
             [] hits > 0 /\ hits < MaxHits ->
                  Goto(r, "lookup") /\ UNCHANGED reply
             [] OTHER -> Return(r, None)
     \/ Goto(r, "lookup") /\ UNCHANGED <<hits, reply>>
  /\ UNCHANGED <<jobs, insights, ttl, online, net, asked>>

\* The EXPIRE of the first request of the window, which may fail too.  The
\* counter is compared with the limit after it.
ExpireKey(r) ==
  /\ pc[r] = "expire"
  /\ \/ ttl' = (hits > 0)
     \/ UNCHANGED ttl
  /\ IF MaxHits = 0 THEN Return(r, None)
     ELSE Goto(r, "lookup") /\ UNCHANGED reply
  /\ UNCHANGED <<jobs, sql, insights, hits, online, net, asked>>

\* Mutant: the lookup of the cache leaves the SQL out.
FindCachedJobAnySql(r) ==
  /\ pc[r] = "lookup"
  /\ LET cached == {j \in Calls : jobs[j].status = "COMPLETED" /\ jobs[j].fresh}
     IN  \/ cached = {} /\ Goto(r, "findAgent") /\ UNCHANGED reply
         \/ \E j \in cached : Return(r, j)
  /\ UNCHANGED <<jobs, sql, insights, hits, ttl, online, net, asked>>

\* The cache: a job of the same SQL completed in the last five minutes.
FindCachedJob(r) ==
  /\ pc[r] = "lookup"
  /\ LET cached == {j \in Calls : /\ jobs[j].status = "COMPLETED"
                                  /\ jobs[j].sql = sql[r] /\ jobs[j].fresh}
     IN  \/ cached = {} /\ Goto(r, "findAgent") /\ UNCHANGED reply
         \/ \E j \in cached : Return(r, j)
  /\ UNCHANGED <<jobs, sql, insights, hits, ttl, online, net, asked>>

\* An agent that is online by heartbeat and not revoked.
FindAgent(r) ==
  /\ pc[r] = "findAgent"
  /\ IF online THEN Goto(r, "create") /\ UNCHANGED reply
     ELSE Return(r, None)
  /\ UNCHANGED <<jobs, sql, insights, hits, ttl, online, net, asked>>

CreateJob(r) ==
  /\ pc[r] = "create"
  /\ jobs' = [jobs EXCEPT ![r] = [NoRow EXCEPT !.status = "PENDING",
                                              !.sql = sql[r]]]
  /\ Goto(r, "send")
  /\ UNCHANGED <<sql, reply, insights, hits, ttl, online, net, asked>>

\* emitExecuteSql: true whenever activeAgents has an entry, also a dead one.
EmitExecuteSql(r) ==
  /\ pc[r] = "send"
  /\ LET a == active[HomeOf[r]]
     IN  /\ Goto(r, IF a = None THEN "sleep" ELSE "mark")
         /\ asked' = IF a \in Sockets THEN asked \cup {r} ELSE asked
  /\ UNCHANGED <<jobs, sql, reply, insights, hits, ttl, online, net>>

\* Mutant: the loop has no deadline.
RetryForever(r) ==
  /\ pc[r] = "sleep"
  /\ Goto(r, "send")
  /\ UNCHANGED <<jobs, sql, reply, insights, hits, ttl, online, net, asked>>

\* 500 ms later: another try, or the 15 s are over.
Retry(r) ==
  /\ pc[r] = "sleep"
  /\ Goto(r, "send") \/ Goto(r, "giveUp")
  /\ UNCHANGED <<jobs, sql, reply, insights, hits, ttl, online, net, asked>>

\* updateJobResult with an error, then the exception.
GiveUp(r) ==
  /\ pc[r] = "giveUp"
  /\ jobs' = [jobs EXCEPT ![r] = Ended(@, "FAILED", None)]
  /\ Return(r, None)
  /\ UNCHANGED <<sql, insights, hits, ttl, online, net, asked>>

\* Mutant: RUNNING is written whatever the status is by now.
MarkRunningAlways(r) ==
  /\ pc[r] = "mark"
  /\ jobs' = [jobs EXCEPT ![r].status = "RUNNING"]
  /\ Goto(r, "read")
  /\ UNCHANGED <<sql, reply, insights, hits, ttl, online, net, asked>>

\* updateMany WHERE status = PENDING: an answer may have come first.
MarkRunning(r) ==
  /\ pc[r] = "mark"
  /\ jobs' = IF jobs[r].status = "PENDING"
               THEN [jobs EXCEPT ![r].status = "RUNNING"] ELSE jobs
  /\ Goto(r, "read")
  /\ UNCHANGED <<sql, reply, insights, hits, ttl, online, net, asked>>

ReadJob(r) ==
  /\ pc[r] = "read"
  /\ Return(r, r)
  /\ UNCHANGED <<jobs, sql, insights, hits, ttl, online, net, asked>>

----------------------------------------------------------------------------
(* AgentsGateway and the background                                        *)

Connect(s) ==
  /\ sock[s] = "closed"
  /\ sock' = [sock EXCEPT ![s] = "handshake"]
  /\ UNCHANGED <<jobs, pc, sql, reply, insights, hits, ttl, online, active,
                 present, failing, asked>>

\* handleConnection after validateAgentToken, which may refuse the token.  A
\* client that left meanwhile is recorded all the same.
HandleConnection(s) ==
  /\ sock[s] \in {"handshake", "abandoned"}
  /\ LET w == SockHome[s]
         here == sock[s] = "handshake"
     IN  \/ /\ sock' = [sock EXCEPT ![s] = IF here THEN "connected"
                                          ELSE "closed"]
            /\ active' = [active EXCEPT ![w] = IF here THEN s ELSE Dead]
            /\ present' = [present EXCEPT ![w] = TRUE]
         \/ /\ sock' = [sock EXCEPT ![s] = "closed"]
            /\ UNCHANGED <<active, present>>
  /\ UNCHANGED <<jobs, pc, sql, reply, insights, hits, ttl, online, failing,
                 asked>>

\* handleDisconnect.  activeAgents is cleared for this socket only, while
\* connectedAgents and the jobs are the organisation's.
HandleDisconnect(s) ==
  /\ LET w == SockHome[s]
     IN  \/ /\ sock[s] = "handshake"
            /\ sock' = [sock EXCEPT ![s] = "abandoned"]
            /\ UNCHANGED <<active, present, failing>>
         \/ /\ sock[s] = "connected"
            /\ sock' = [sock EXCEPT ![s] = "closed"]
            /\ active' = [active EXCEPT ![w] = IF @ = s THEN None ELSE @]
            /\ present' = [present EXCEPT ![w] = FALSE]
            /\ failing' = [failing EXCEPT ![w] = TRUE]
  /\ UNCHANGED <<jobs, pc, sql, reply, insights, hits, ttl, online, asked>>

\* The updateMany of failActiveJobsForOrg, which handleDisconnect does not
\* await.
FailActiveJobsForOrg(w) ==
  /\ failing[w]
  /\ failing' = [failing EXCEPT ![w] = FALSE]
  /\ jobs' = [j \in Calls |-> Ended(jobs[j], "FAILED", None)]
  /\ UNCHANGED <<pc, sql, reply, insights, hits, ttl, online, sock, active,
                 present, asked>>

\* Mutant: the result is written whatever the status is by now.
HandleSqlResultAlways(s, j, x) ==
  /\ sock[s] = "connected" /\ j \in asked
  /\ jobs' = [jobs EXCEPT ![j].result = x, ![j].status = "COMPLETED",
                          ![j].fresh = TRUE]
  /\ insights' = IF x = None THEN insights
                 ELSE insights \cup {[job |-> j, of |-> x]}
  /\ UNCHANGED <<pc, sql, reply, hits, ttl, online, net, asked>>

\* sql_result: updateJobResult.  Agents may answer twice, late or with other
\* rows.  x = None: no rows; a non-empty result starts an insight.
HandleSqlResult(s, j, x) ==
  /\ sock[s] = "connected" /\ j \in asked
  /\ \/ /\ jobs' = [jobs EXCEPT ![j] = Ended(@, "COMPLETED", x)]
        /\ insights' = IF IsActive(j) /\ x # None
                         THEN insights \cup {[job |-> j, of |-> x]}
                         ELSE insights
     \/ /\ x = None
        /\ jobs' = [jobs EXCEPT ![j] = Ended(@, "FAILED", None)]
        /\ UNCHANGED insights
  /\ UNCHANGED <<pc, sql, reply, hits, ttl, online, net, asked>>

\* The AI answers, or has nothing to say; the row is written by its id.
StoreInsight(i) ==
  /\ i \in insights
  /\ insights' = insights \ {i}
  /\ \/ jobs' = [jobs EXCEPT ![i.job].insight = i.of]
     \/ UNCHANGED jobs
  /\ UNCHANGED <<pc, sql, reply, hits, ttl, online, net, asked>>

----------------------------------------------------------------------------
(* Clocks, sweeps, heartbeats and restarts                                 *)

JobAges(j) ==
  /\ \/ IsActive(j) /\ ~jobs[j].late /\ jobs' = [jobs EXCEPT ![j].late = TRUE]
     \/ jobs[j].fresh /\ jobs' = [jobs EXCEPT ![j].fresh = FALSE]
  /\ UNCHANGED <<pc, sql, reply, insights, hits, ttl, online, net, asked>>

\* Mutant: the sweep knows RUNNING jobs only.
CleanupRunningOnly ==
  /\ \E j \in Calls : jobs[j].status = "RUNNING" /\ jobs[j].late
  /\ jobs' = [j \in Calls |->
       IF jobs[j].late /\ jobs[j].status = "RUNNING"
       THEN Ended(jobs[j], "FAILED", None) ELSE jobs[j]]
  /\ UNCHANGED <<pc, sql, reply, insights, hits, ttl, online, net, asked>>

\* cleanupStaleJobs, every minute on the leader.
CleanupStaleJobs ==
  /\ \E j \in Calls : IsActive(j) /\ jobs[j].late
  /\ jobs' = [j \in Calls |-> IF jobs[j].late
                              THEN Ended(jobs[j], "FAILED", None) ELSE jobs[j]]
  /\ UNCHANGED <<pc, sql, reply, insights, hits, ttl, online, net, asked>>

\* The rate-limit window ends.
KeyExpires ==
  /\ ttl
  /\ hits' = 0 /\ ttl' = FALSE
  /\ UNCHANGED <<jobs, pc, sql, reply, insights, online, net, asked>>

\* Registration, heartbeats, revocation and the offline sweep.
AgentStatus ==
  /\ online' = ~online
  /\ UNCHANGED <<jobs, pc, sql, reply, insights, hits, ttl, net, asked>>

\* Worker w dies with its calls, sockets and maps; insights run anywhere.
Restart(w) ==
  /\ pc' = [r \in Calls |->
       IF HomeOf[r] = w /\ pc[r] \notin {"idle", "done"} THEN "lost" ELSE pc[r]]
  /\ sock' = [s \in Sockets |-> IF SockHome[s] = w THEN "closed" ELSE sock[s]]
  /\ active' = [active EXCEPT ![w] = None]
  /\ present' = [present EXCEPT ![w] = FALSE]
  /\ failing' = [failing EXCEPT ![w] = FALSE]
  /\ \E kept \in SUBSET insights : insights' = kept
  /\ UNCHANGED <<jobs, sql, reply, hits, ttl, online, asked>>

----------------------------------------------------------------------------
(* Specification                                                           *)

CallStep(r) ==
  \/ ExpireKey(r) \/ FindCachedJob(r) \/ FindAgent(r) \/ CreateJob(r)
  \/ EmitExecuteSql(r) \/ GiveUp(r) \/ MarkRunning(r) \/ ReadJob(r)

SocketStep(s) ==
  \/ Connect(s) \/ HandleConnection(s) \/ HandleDisconnect(s)
  \/ \E j \in asked, x \in Answers \cup {None} : HandleSqlResult(s, j, x)

Next ==
  \/ \E r \in Calls : CallStep(r) \/ Retry(r)
                        \/ \E q \in Queries : CheckRateLimit(r, q)
  \/ \E s \in Sockets : SocketStep(s)
  \/ \E w \in Workers : FailActiveJobsForOrg(w) \/ Restart(w)
  \/ \E i \in insights : StoreInsight(i)
  \/ \E j \in Calls : JobAges(j)
  \/ CleanupStaleJobs \/ KeyExpires \/ AgentStatus

Spec == Init /\ [][Next]_vars

\* Statements end, the retry loop has a deadline (it cannot retry for ever),
\* clocks advance and the leader's sweep runs.
Fairness ==
  /\ \A r \in Calls : WF_vars(CallStep(r)) /\ WF_vars(Retry(r))
  /\ \A r \in Calls : SF_vars(Retry(r) /\ pc'[r] = "giveUp")
  /\ \A j \in Calls : WF_vars(JobAges(j))
  /\ WF_vars(CleanupStaleJobs)

FairSpec == Spec /\ Fairness

----------------------------------------------------------------------------
(* Properties                                                              *)

\* A finished job keeps its status and result: late or repeated answers, the
\* disconnect sweep, the timeout sweep and the caller's own RUNNING update
\* lose (agents.service.spec: "ne remplace pas un job terminal après une
\* réponse tardive").
TerminalIsFinal ==
  [][\A j \in Calls : jobs[j].status \in TerminalStates =>
       /\ jobs'[j].status = jobs[j].status
       /\ jobs'[j].result = jobs[j].result]_vars

\* An insight comments the rows that are stored, never those of an answer
\* that lost, and a failed job has neither rows nor an insight.
InsightIsOfResult ==
  \A j \in Calls :
    /\ jobs[j].insight # None => jobs[j].insight = jobs[j].result
    /\ \A i \in insights : i.job = j => i.of = jobs[j].result
    /\ jobs[j].result # None => jobs[j].status = "COMPLETED"

\* What a call returns is a job of its own SQL; rows only ever come from a
\* job that was sent to an agent, through the cache too.
RepliesAnswerTheirQuery ==
  \A r \in Calls : reply[r].job # None =>
    /\ reply[r].row.sql = sql[r]
    /\ reply[r].row.status = "COMPLETED" => reply[r].job \in asked

\* A job ends, whether its agent answers, leaves or stays silent and even if
\* the worker that created it dies.
JobsEnd == \A j \in Calls : IsActive(j) ~> jobs[j].status \in TerminalStates

\* A started call returns unless its worker dies.
CallsReturn == \A r \in Calls : pc[r] # "idle" ~> pc[r] \in {"done", "lost"}

============================================================================
