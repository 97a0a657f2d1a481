----------------------------- MODULE DataJobV2 -----------------------------
(***************************************************************************)
(* Data Engine V2: one organisation's query jobs, from the HTTP call to    *)
(* the stored result.                                                      *)
(*                                                                         *)
(* The actors are the API calls inside DataService.runQuery, the sockets   *)
(* of the on-premise agents, the handlers of AgentsGateway, cancel         *)
(* requests, the 10 s sweep and the workers of the PM2 cluster.  The       *)
(* tables data_jobs_v2 and data_query_cache_v2 are shared; the             *)
(* dispatcher's pending map and the gateway's activeAgents map belong to   *)
(* one worker and are lost with it.                                        *)
(*                                                                         *)
(* One action is one database statement, or one run of synchronous code,   *)
(* together with the code up to the next await.  transition() and          *)
(* complete() are therefore two actions each: the findFirst that takes a   *)
(* snapshot of the row's version, and the conditional updateMany.          *)
(***************************************************************************)
EXTENDS Naturals, Sequences, FiniteSets

CONSTANTS
  Calls,         \* API calls; the row a call inserts carries its name
  Fingerprints,  \* canonical queries of the organisation
  Compared,      \* the fingerprints whose plan has a comparisonExecution
  Certified,     \* the fingerprints of certification campaigns (no cache)
  Agents, Sockets, Workers,
  AgentOf,       \* AgentOf[s]: the agent whose token socket s presents
  SockHome,      \* SockHome[s]: the worker that holds socket s
  HomeOf,        \* HomeOf[r]: the worker that serves call r
  MaxWrites,     \* bound: handler transitions in flight at a time
  None,          \* undefined / null
  Dead           \* the id of a socket the server no longer knows

ASSUME DataJobAssumption ==
  /\ Compared \subseteq Fingerprints
  /\ Certified \subseteq Fingerprints
  /\ AgentOf \in [Sockets -> Agents]
  /\ SockHome \in [Sockets -> Workers]
  /\ HomeOf \in [Calls -> Workers]
  /\ MaxWrites \in Nat
  /\ None \notin Calls \cup Agents \cup Sockets \cup Fingerprints
  /\ Dead \notin Sockets

VARIABLES
  jobs,     \* table data_jobs_v2, by the call that inserted the row
  cache,    \* table data_query_cache_v2, by fingerprint
  call,     \* progress and locals of each API call
  reply,    \* what each API call returned
  pending,  \* DataJobV2Dispatcher.pending, per worker and job
  writes,   \* transition() calls of handlers, between read and update
  sock,     \* life of each agent socket
  active,   \* AgentsGateway.activeAgents of the organisation, per worker
  asked     \* execute_query_v2 events emitted so far

vars == <<jobs, cache, call, reply, pending, writes, sock, active, asked>>

----------------------------------------------------------------------------
(* Rows, locals and messages                                               *)

ActiveStates == {"PENDING", "DISPATCHED", "RUNNING"}

TerminalStates == {"COMPLETED", "FAILED", "TIMED_OUT", "CANCELLED"}

ErrorCodes == {"AGENT_OFFLINE", "QUERY_TIMEOUT", "QUERY_ERROR"}

\* What names an execution: the agent asked, the job, its queryId and the
\* sequence (1: the period, 2: the comparison period).
Messages == [agent : Agents, job : Calls, query : Calls, seq : {1, 2}]

\* A result remembers its job and which execution answered each sequence.
Results == [job : Calls, by : Seq(Messages)]

\* "due": the deadline in force in the row's state has passed, that is
\* dispatchDeadlineAt, executionDeadlineAt or resultExpiresAt.
Rows == [state : ActiveStates \cup TerminalStates \cup {"ABSENT"},
         version : Nat, agent : Agents \cup {None},
         fp : Fingerprints \cup {None}, due : BOOLEAN,
         result : Results \cup {None}, code : ErrorCodes \cup {None}]

NoRow == [state |-> "ABSENT", version |-> 0, agent |-> None, fp |-> None,
          due |-> FALSE, result |-> None, code |-> None]

\* The awaits of runQuery, in order.
PCs == {"idle", "create", "findActive", "findCompleted", "getResult",
        "claim", "claimCAS", "execute", "awaiting", "runRead", "runCAS",
        "completeRead", "completeCAS", "cachePut", "failRead", "failCAS",
        "done", "lost"}

Locals == [pc : PCs, fp : Fingerprints \cup {None},
           job : Calls \cup {None}, query : Calls \cup {None}, seq : {0, 1, 2},
           agent : Agents \cup {None}, seen : Nat, parts : Seq(Messages),
           code : ErrorCodes \cup {None}]

NoCall == [pc |-> "idle", fp |-> None, job |-> None, query |-> None,
           seq |-> 0, agent |-> None, seen |-> 0, parts |-> <<>>,
           code |-> None]

Replies == [status : {"none", "completed", "pending", "error"},
            result : Results \cup {None}]

\* A PendingExecution; owner is the call whose promise it settles.
Entries == [agent : Agents, query : Calls, seq : {1, 2}, owner : Calls]

ASSUME NoneAssumption == None \notin Entries /\ None \notin Results

Writes == [worker : Workers, job : Calls, to : {"RUNNING", "CANCELLED"},
           seen : Nat, agent : Agents \cup {None}]

CacheRows == [result : Results \cup {None}, fresh : BOOLEAN]

NoCache == [result |-> None, fresh |-> FALSE]

TypeOK ==
  /\ jobs \in [Calls -> Rows]
  /\ cache \in [Fingerprints -> CacheRows]
  /\ call \in [Calls -> Locals]
  /\ reply \in [Calls -> Replies]
  /\ pending \in [Workers -> [Calls -> Entries \cup {None}]]
  /\ writes \subseteq Writes
  /\ sock \in [Sockets -> {"closed", "handshake", "abandoned",
                           "connected", "capable"}]
  /\ active \in [Workers -> Sockets \cup {None, Dead}]
  /\ asked \subseteq Messages

Init ==
  /\ jobs = [r \in Calls |-> NoRow]
  /\ cache = [f \in Fingerprints |-> NoCache]
  /\ call = [r \in Calls |-> NoCall]
  /\ reply = [r \in Calls |-> [status |-> "none", result |-> None]]
  /\ pending = [w \in Workers |-> [j \in Calls |-> None]]
  /\ writes = {}
  /\ sock = [s \in Sockets |-> "closed"]
  /\ active = [w \in Workers |-> None]
  /\ asked = {}

----------------------------------------------------------------------------
(* DataJobV2Service.transition and the routing of AgentsGateway            *)

IsActive(j) == jobs[j].state \in ActiveStates

\* What the findFirst of transition() lets through: the state is allowed
\* and, for a write in an agent's name, the row is bound to that agent.
Allowed(j, from, to, a) ==
  /\ jobs[j].state \in from
  /\ a # None /\ to # "DISPATCHED" => jobs[j].agent = a

\* Mutant: the update names the row by its id alone.
MatchesById(j, from, to, a, seen) == TRUE

\* The WHERE clause of the updateMany: the same test and the version read.
Matches(j, from, to, a, seen) ==
  Allowed(j, from, to, a) /\ jobs[j].version = seen

\* The row after the update.  Entering RUNNING starts the execution
\* deadline; a terminal row has no deadline left but its result's.
Moved(row, to, a, code) ==
  [row EXCEPT
     !.state = to, !.version = @ + 1,
     !.agent = IF to = "DISPATCHED" THEN a ELSE @,
     !.due = IF to = "DISPATCHED" THEN @ ELSE FALSE,
     !.code = IF code = None THEN @ ELSE code]

\* The transport's agentFor: the agent behind activeAgents, if that socket
\* is still known to the server and has announced V2.
AgentFor(w) ==
  IF active[w] \in Sockets /\ sock[active[w]] = "capable"
  THEN AgentOf[active[w]] ELSE None

At(r, pc) == call[r].pc = pc

\* Call r goes on with new locals.
Goes(r, locals) == call' = [call EXCEPT ![r] = locals]

\* The call returns; its locals are gone.
Return(r, status, result) ==
  /\ reply' = [reply EXCEPT ![r] = [status |-> status, result |-> result]]
  /\ Goes(r, [NoCall EXCEPT !.pc = "done", !.fp = call[r].fp,
                            !.job = call[r].job])

\* The locals of a call whose try block threw.
Caught(locals, code) ==
  [locals EXCEPT !.pc = "failRead", !.code = code, !.seen = 0,
                 !.parts = <<>>, !.seq = 0, !.agent = None]

\* The try block of runQuery throws.
Throw(r, code) ==
  /\ Goes(r, Caught(call[r], code))
  /\ UNCHANGED reply

----------------------------------------------------------------------------
(* The steps of DataService.runQuery                                       *)

\* runQuery up to the cache lookup (a campaign never reads the cache).
Query(r, f) ==
  /\ At(r, "idle")
  /\ IF f \notin Certified /\ cache[f].fresh
       THEN /\ reply' = [reply EXCEPT ![r] = [status |-> "completed",
                                              result |-> cache[f].result]]
            /\ Goes(r, [call[r] EXCEPT !.pc = "done", !.fp = f])
       ELSE /\ Goes(r, [call[r] EXCEPT !.pc = "create", !.fp = f])
            /\ UNCHANGED reply
  /\ UNCHANGED <<jobs, cache, pending, writes, sock, active, asked>>

\* Mutant: the table without its partial unique index.
CreateUnindexed(r) ==
  /\ At(r, "create")
  /\ jobs' = [jobs EXCEPT ![r] = [NoRow EXCEPT !.state = "PENDING",
                                             !.fp = call[r].fp]]
  /\ Goes(r, [call[r] EXCEPT !.pc = "claim", !.job = r, !.query = r])
  /\ UNCHANGED <<cache, reply, pending, writes, sock, active, asked>>

\* createOrGet: the INSERT.  The partial unique index refuses a second
\* active row of the fingerprint (P2002).
Create(r) ==
  /\ At(r, "create")
  /\ IF \E j \in Calls : IsActive(j) /\ jobs[j].fp = call[r].fp
       THEN /\ Goes(r, [call[r] EXCEPT !.pc = "findActive"])
            /\ UNCHANGED jobs
       ELSE /\ jobs' = [jobs EXCEPT ![r] = [NoRow EXCEPT
                          !.state = "PENDING", !.fp = call[r].fp]]
            /\ Goes(r, [call[r] EXCEPT !.pc = "claim", !.job = r,
                                       !.query = r])
  /\ UNCHANGED <<cache, reply, pending, writes, sock, active, asked>>

\* Mutant: the adopting call goes on under the queryId of its own plan.
FindActiveOwnQuery(r) ==
  /\ At(r, "findActive")
  /\ \E j \in Calls :
       /\ jobs[j].state = "PENDING" /\ jobs[j].fp = call[r].fp
       /\ Goes(r, [call[r] EXCEPT !.pc = "claim", !.job = j, !.query = r])
  /\ UNCHANGED <<jobs, cache, reply, pending, writes, sock, active, asked>>

\* createOrGet after P2002: the active row, which may be gone by now.  Only
\* a PENDING duplicate goes on, under the row's queryId.
FindActive(r) ==
  /\ At(r, "findActive")
  /\ \/ /\ \A j \in Calls : ~(IsActive(j) /\ jobs[j].fp = call[r].fp)
        /\ Goes(r, [call[r] EXCEPT !.pc = "findCompleted"])
        /\ UNCHANGED reply
     \/ \E j \in Calls :
          /\ IsActive(j) /\ jobs[j].fp = call[r].fp
          /\ IF jobs[j].state = "PENDING"
               THEN /\ Goes(r, [call[r] EXCEPT !.pc = "claim", !.job = j,
                                               !.query = j])
                    /\ UNCHANGED reply
               ELSE Return(r, "pending", None)
  /\ UNCHANGED <<jobs, cache, pending, writes, sock, active, asked>>

\* createOrGet: the winner finished meanwhile.  The P2002 is rethrown when
\* no completed row with a live result is left.
FindCompleted(r) ==
  /\ At(r, "findCompleted")
  /\ LET done == {j \in Calls : /\ jobs[j].state = "COMPLETED"
                                /\ jobs[j].fp = call[r].fp
                                /\ ~jobs[j].due}
     IN  \/ /\ done = {}
            /\ Return(r, "error", None)
         \/ \E j \in done :
              /\ Goes(r, [call[r] EXCEPT !.pc = "getResult", !.job = j])
              /\ UNCHANGED reply
  /\ UNCHANGED <<jobs, cache, pending, writes, sock, active, asked>>

\* DataJobV2Service.get on the completed row: the result may have expired.
GetResult(r) ==
  /\ At(r, "getResult")
  /\ LET row == jobs[call[r].job]
     IN  IF row.result # None /\ ~row.due
           THEN Return(r, "completed", row.result)
           ELSE Return(r, "pending", None)
  /\ UNCHANGED <<jobs, cache, pending, writes, sock, active, asked>>

\* agentFor, then the read of transition(PENDING -> DISPATCHED).
Claim(r) ==
  /\ At(r, "claim")
  /\ LET j == call[r].job
         a == AgentFor(HomeOf[r])
     IN  \/ a = None /\ Throw(r, "AGENT_OFFLINE")
         \/ /\ a # None /\ Allowed(j, {"PENDING"}, "DISPATCHED", a)
            /\ Goes(r, [call[r] EXCEPT !.pc = "claimCAS", !.agent = a,
                                       !.seen = jobs[j].version])
            /\ UNCHANGED reply
         \/ /\ a # None /\ ~Allowed(j, {"PENDING"}, "DISPATCHED", a)
            /\ Return(r, "pending", None)
  /\ UNCHANGED <<jobs, cache, pending, writes, sock, active, asked>>

\* The conditional update that selects one claimant.
ClaimCAS(r) ==
  /\ At(r, "claimCAS")
  /\ LET j == call[r].job
         a == call[r].agent
     IN  IF Matches(j, {"PENDING"}, "DISPATCHED", a, call[r].seen)
           THEN /\ jobs' = [jobs EXCEPT ![j] = Moved(@, "DISPATCHED", a, None)]
                /\ Goes(r, [call[r] EXCEPT !.pc = "execute", !.seq = 1,
                                           !.agent = None, !.seen = 0])
                /\ UNCHANGED reply
           ELSE Return(r, "pending", None) /\ UNCHANGED jobs
  /\ UNCHANGED <<cache, pending, writes, sock, active, asked>>

\* DataJobV2Dispatcher.execute: the agent is looked up again, which need
\* not be the one the row was bound to.
Execute(r) ==
  /\ At(r, "execute")
  /\ LET j == call[r].job
         w == HomeOf[r]
         a == AgentFor(w)
     IN  \/ /\ a = None
            /\ Throw(r, "AGENT_OFFLINE")
            /\ UNCHANGED <<pending, asked>>
         \/ /\ a # None /\ pending[w][j] # None
            /\ Throw(r, "QUERY_ERROR")
            /\ UNCHANGED <<pending, asked>>
         \/ /\ a # None /\ pending[w][j] = None
            /\ pending' = [pending EXCEPT ![w][j] =
                 [agent |-> a, query |-> call[r].query,
                  seq |-> call[r].seq, owner |-> r]]
            /\ asked' = asked \cup
                 {[agent |-> a, job |-> j, query |-> call[r].query,
                   seq |-> call[r].seq]}
            /\ Goes(r, [call[r] EXCEPT !.pc = "awaiting"])
            /\ UNCHANGED reply
  /\ UNCHANGED <<jobs, cache, writes, sock, active>>

\* Mutants: the timer rejects but leaves the entry; there is no timer.
TimeoutKeepsEntry(r) ==
  /\ At(r, "awaiting")
  /\ Throw(r, "QUERY_TIMEOUT")
  /\ UNCHANGED <<jobs, cache, pending, writes, sock, active, asked>>

TimeoutMissing(r) == FALSE

\* The dispatcher's timer fires.
Timeout(r) ==
  /\ At(r, "awaiting")
  /\ pending' = [pending EXCEPT ![HomeOf[r]][call[r].job] = None]
  /\ Throw(r, "QUERY_TIMEOUT")
  /\ UNCHANGED <<jobs, cache, writes, sock, active, asked>>

\* The rows are in: the read of transition(DISPATCHED -> RUNNING), which
\* only finds something to do when no acknowledgement came first.
RunRead(r) ==
  /\ At(r, "runRead")
  /\ LET j == call[r].job
     IN  IF Allowed(j, {"DISPATCHED"}, "RUNNING", None)
           THEN Goes(r, [call[r] EXCEPT !.pc = "runCAS",
                                        !.seen = jobs[j].version])
           ELSE Goes(r, [call[r] EXCEPT !.pc = "completeRead"])
  /\ UNCHANGED <<jobs, cache, reply, pending, writes, sock, active, asked>>

RunCAS(r) ==
  /\ At(r, "runCAS")
  /\ LET j == call[r].job
     IN  jobs' = IF Matches(j, {"DISPATCHED"}, "RUNNING", None, call[r].seen)
                   THEN [jobs EXCEPT ![j] = Moved(@, "RUNNING", None, None)]
                   ELSE jobs
  /\ Goes(r, [call[r] EXCEPT !.pc = "completeRead", !.seen = 0])
  /\ UNCHANGED <<cache, reply, pending, writes, sock, active, asked>>

\* The size check of the joined rows, the read of complete() and the
\* encryption, either of which may refuse the result.
CompleteRead(r) ==
  /\ At(r, "completeRead")
  /\ LET j == call[r].job
     IN  \/ Throw(r, "QUERY_ERROR")
         \/ /\ jobs[j].state \in {"DISPATCHED", "RUNNING"}
            /\ Goes(r, [call[r] EXCEPT !.pc = "completeCAS",
                                       !.seen = jobs[j].version])
            /\ UNCHANGED reply
         \/ /\ jobs[j].state \notin {"DISPATCHED", "RUNNING"}
            /\ Return(r, "pending", None)
  /\ UNCHANGED <<jobs, cache, pending, writes, sock, active, asked>>

\* The conditional update of complete(); resultExpiresAt starts.
CompleteCAS(r) ==
  /\ At(r, "completeCAS")
  /\ LET j == call[r].job
         result == [job |-> j, by |-> call[r].parts]
     IN  IF Matches(j, {"DISPATCHED", "RUNNING"}, "COMPLETED", None,
                    call[r].seen)
           THEN /\ jobs' = [jobs EXCEPT ![j] =
                     [Moved(@, "COMPLETED", None, None)
                        EXCEPT !.result = result]]
                /\ IF call[r].fp \in Certified
                     THEN Return(r, "completed", result)
                     ELSE /\ Goes(r, [call[r] EXCEPT !.pc = "cachePut",
                                                     !.seen = 0])
                          /\ UNCHANGED reply
           ELSE Return(r, "pending", None) /\ UNCHANGED jobs
  /\ UNCHANGED <<cache, pending, writes, sock, active, asked>>

\* QueryCacheService.put; its failure is only logged.
CachePut(r) ==
  /\ At(r, "cachePut")
  /\ LET result == [job |-> call[r].job, by |-> call[r].parts]
     IN  /\ \/ cache' = [cache EXCEPT ![call[r].fp] =
                           [result |-> result, fresh |-> TRUE]]
            \/ UNCHANGED cache
         /\ Return(r, "completed", result)
  /\ UNCHANGED <<jobs, pending, writes, sock, active, asked>>

\* The catch block: transition(any active state -> FAILED or TIMED_OUT).
FailRead(r) ==
  /\ At(r, "failRead")
  /\ LET j == call[r].job
     IN  IF Allowed(j, ActiveStates, "FAILED", None)
           THEN /\ Goes(r, [call[r] EXCEPT !.pc = "failCAS",
                                           !.seen = jobs[j].version])
                /\ UNCHANGED reply
           ELSE Return(r, "error", None)
  /\ UNCHANGED <<jobs, cache, pending, writes, sock, active, asked>>

FailCAS(r) ==
  /\ At(r, "failCAS")
  /\ LET j == call[r].job
         to == IF call[r].code = "QUERY_TIMEOUT" THEN "TIMED_OUT"
               ELSE "FAILED"
     IN  jobs' = IF Matches(j, ActiveStates, to, None, call[r].seen)
                   THEN [jobs EXCEPT ![j] = Moved(@, to, None, call[r].code)]
                   ELSE jobs
  /\ Return(r, "error", None)
  /\ UNCHANGED <<cache, pending, writes, sock, active, asked>>

----------------------------------------------------------------------------
(* AgentsGateway                                                           *)

\* A client connects; handleConnection awaits validateAgentToken.
Connect(s) ==
  /\ sock[s] = "closed"
  /\ sock' = [sock EXCEPT ![s] = "handshake"]
  /\ UNCHANGED <<jobs, cache, call, reply, pending, writes, active, asked>>

\* Mutant: activeAgents records the agent instead of its socket.
HandleConnectionAgentId(s) ==
  /\ sock[s] = "handshake"
  /\ sock' = [sock EXCEPT ![s] = "connected"]
  /\ active' = [active EXCEPT ![SockHome[s]] = AgentOf[s]]
  /\ UNCHANGED <<jobs, cache, call, reply, pending, writes, asked>>

\* handleConnection resumes.  A refused token closes the socket.  The entry
\* of activeAgents is overwritten, also when the client has left meanwhile.
HandleConnection(s) ==
  /\ \/ /\ sock[s] = "handshake"
        /\ \/ /\ sock' = [sock EXCEPT ![s] = "connected"]
              /\ active' = [active EXCEPT ![SockHome[s]] = s]
           \/ /\ sock' = [sock EXCEPT ![s] = "closed"]
              /\ UNCHANGED active
     \/ /\ sock[s] = "abandoned"
        /\ sock' = [sock EXCEPT ![s] = "closed"]
        /\ \/ active' = [active EXCEPT ![SockHome[s]] = Dead]
           \/ UNCHANGED active
  /\ UNCHANGED <<jobs, cache, call, reply, pending, writes, asked>>

\* agent_hello_v2 with protocol 2 and the two required capabilities.
HandleAgentHelloV2(s) ==
  /\ sock[s] = "connected"
  /\ sock' = [sock EXCEPT ![s] = "capable"]
  /\ UNCHANGED <<jobs, cache, call, reply, pending, writes, active, asked>>

\* The entries that DataJobV2Dispatcher.disconnected rejects.
Dropped(w, a) ==
  {j \in Calls : pending[w][j] # None /\ pending[w][j].agent = a}

\* handleDisconnect.  The entry of activeAgents goes only when it is this
\* socket's; the agent's executions are rejected in every case.  A client
\* that leaves during the handshake has no identity yet.
HandleDisconnect(s) ==
  /\ \/ /\ sock[s] = "handshake"
        /\ sock' = [sock EXCEPT ![s] = "abandoned"]
        /\ UNCHANGED <<active, pending, call>>
     \/ /\ sock[s] \in {"connected", "capable"}
        /\ sock' = [sock EXCEPT ![s] = "closed"]
        /\ LET w == SockHome[s]
               gone == Dropped(w, AgentOf[s])
           IN  /\ active' = [active EXCEPT ![w] = IF @ = s THEN None ELSE @]
               /\ pending' = [pending EXCEPT ![w] =
                    [j \in Calls |-> IF j \in gone THEN None ELSE @[j]]]
               /\ call' = [r \in Calls |->
                    IF \E j \in gone : pending[w][j].owner = r
                    THEN Caught(call[r], "AGENT_OFFLINE")
                    ELSE call[r]]
  /\ UNCHANGED <<jobs, cache, reply, writes, asked>>

\* DataJobV2Dispatcher.isPending, for event m arriving on socket s.
IsPending(s, m) ==
  LET e == pending[SockHome[s]][m.job]
  IN  /\ m.agent = AgentOf[s] /\ e # None
      /\ e.agent = m.agent /\ e.query = m.query /\ e.seq = m.seq

\* query_acknowledged_v2: the correlation test and the read of transition().
\* Agents may repeat or delay any event of a query they were sent.
HandleQueryAcknowledgedV2(s, m) ==
  /\ sock[s] = "capable" /\ IsPending(s, m)
  /\ Allowed(m.job, {"DISPATCHED"}, "RUNNING", m.agent)
  /\ Cardinality(writes) < MaxWrites
  /\ writes' = writes \cup
       {[worker |-> SockHome[s], job |-> m.job, to |-> "RUNNING",
         seen |-> jobs[m.job].version, agent |-> m.agent]}
  /\ UNCHANGED <<jobs, cache, call, reply, pending, sock, active, asked>>

\* query_result_v2: the promise of execute() settles.  Rows of the first
\* sequence start the second one when the plan compares; rows that
\* validateMetricRows refuses, and errors of the agent, throw.
HandleQueryResultV2(s, m) ==
  LET w == SockHome[s]
      r == pending[w][m.job].owner
  IN  /\ sock[s] = "capable" /\ IsPending(s, m)
      /\ pending' = [pending EXCEPT ![w][m.job] = None]
      /\ \/ \E code \in {"QUERY_TIMEOUT", "QUERY_ERROR"} : Throw(r, code)
         \/ /\ m.seq = 1 /\ call[r].fp \in Compared
            /\ Goes(r, [call[r] EXCEPT !.pc = "execute", !.seq = 2,
                                       !.parts = <<m>>])
            /\ UNCHANGED reply
         \/ /\ m.seq = 2 \/ call[r].fp \notin Compared
            /\ Goes(r, [call[r] EXCEPT !.pc = "runRead", !.seq = 0,
                                       !.parts = Append(@, m)])
            /\ UNCHANGED reply
      /\ UNCHANGED <<jobs, cache, writes, sock, active, asked>>

----------------------------------------------------------------------------
(* Cancellation, deadlines, the sweeps and a worker's restart              *)

\* cancelJob: the read of transition(any active state -> CANCELLED).  The
\* agent and the dispatcher are not told.
CancelJob(w, j) ==
  /\ Allowed(j, ActiveStates, "CANCELLED", None)
  /\ Cardinality(writes) < MaxWrites
  /\ writes' = writes \cup
       {[worker |-> w, job |-> j, to |-> "CANCELLED",
         seen |-> jobs[j].version, agent |-> None]}
  /\ UNCHANGED <<jobs, cache, call, reply, pending, sock, active, asked>>

\* The conditional update of a handler's transition().
FinishWrite(x) ==
  /\ x \in writes
  /\ LET from == IF x.to = "RUNNING" THEN {"DISPATCHED"} ELSE ActiveStates
     IN  jobs' = IF Matches(x.job, from, x.to, x.agent, x.seen)
                   THEN [jobs EXCEPT ![x.job] = Moved(@, x.to, None, None)]
                   ELSE jobs
  /\ writes' = writes \ {x}
  /\ UNCHANGED <<cache, call, reply, pending, sock, active, asked>>

\* Mutant: a completed row is given no resultExpiresAt.
DeadlinePassesOpenOnly(j) ==
  /\ IsActive(j) /\ ~jobs[j].due
  /\ jobs' = [jobs EXCEPT ![j].due = TRUE]
  /\ UNCHANGED <<cache, call, reply, pending, writes, sock, active, asked>>

\* The clock reaches the row's deadline.
DeadlinePasses(j) ==
  /\ IsActive(j) \/ jobs[j].state = "COMPLETED"
  /\ ~jobs[j].due
  /\ jobs' = [jobs EXCEPT ![j].due = TRUE]
  /\ UNCHANGED <<cache, call, reply, pending, writes, sock, active, asked>>

\* Mutant: the sweep does not look at the state of an overdue row.
SweptInAnyState(row) ==
  IF row.due THEN Moved(row, "TIMED_OUT", None, "QUERY_TIMEOUT") ELSE row

\* What the sweep makes of a row.
Swept(row) ==
  IF ~row.due THEN row
  ELSE IF row.state \in ActiveStates
         THEN Moved(row, "TIMED_OUT", None, "QUERY_TIMEOUT")
         ELSE [row EXCEPT !.result = None]

\* expireDueJobs, every 10 s.  Its three updates concern disjoint rows and
\* depend on nothing a step between them could change.
ExpireDueJobs ==
  /\ \E j \in Calls : Swept(jobs[j]) # jobs[j]
  /\ jobs' = [j \in Calls |-> Swept(jobs[j])]
  /\ UNCHANGED <<cache, call, reply, pending, writes, sock, active, asked>>

\* A cache row reaches expiresAt; purgeExpired, every 60 s, deletes it.
CacheExpires(f) ==
  /\ cache[f].fresh
  /\ cache' = [cache EXCEPT ![f].fresh = FALSE]
  /\ UNCHANGED <<jobs, call, reply, pending, writes, sock, active, asked>>

PurgeExpired ==
  /\ \E f \in Fingerprints : cache[f].result # None /\ ~cache[f].fresh
  /\ cache' = [f \in Fingerprints |->
                 IF cache[f].fresh THEN cache[f] ELSE NoCache]
  /\ UNCHANGED <<jobs, call, reply, pending, writes, sock, active, asked>>

\* Worker w dies and PM2 starts it again: its calls, handlers, sockets and
\* maps are gone, the tables stay.
Restart(w) ==
  /\ call' = [r \in Calls |->
       IF HomeOf[r] = w /\ call[r].pc \notin {"idle", "done", "lost"}
       THEN [NoCall EXCEPT !.pc = "lost"] ELSE call[r]]
  /\ pending' = [pending EXCEPT ![w] = [j \in Calls |-> None]]
  /\ writes' = {x \in writes : x.worker # w}
  /\ sock' = [s \in Sockets |-> IF SockHome[s] = w THEN "closed" ELSE sock[s]]
  /\ active' = [active EXCEPT ![w] = None]
  /\ UNCHANGED <<jobs, cache, reply, asked>>

----------------------------------------------------------------------------
(* Specification                                                           *)

CallStep(r) ==
  \/ Create(r) \/ FindActive(r) \/ FindCompleted(r) \/ GetResult(r)
  \/ Claim(r) \/ ClaimCAS(r) \/ Execute(r) \/ Timeout(r)
  \/ RunRead(r) \/ RunCAS(r) \/ CompleteRead(r) \/ CompleteCAS(r)
  \/ CachePut(r) \/ FailRead(r) \/ FailCAS(r)

SocketStep(s) ==
  \/ Connect(s) \/ HandleConnection(s) \/ HandleAgentHelloV2(s)
  \/ HandleDisconnect(s)
  \/ \E m \in asked :
       HandleQueryAcknowledgedV2(s, m) \/ HandleQueryResultV2(s, m)

Next ==
  \/ \E r \in Calls : CallStep(r) \/ \E f \in Fingerprints : Query(r, f)
  \/ \E s \in Sockets : SocketStep(s)
  \/ \E w \in Workers : Restart(w) \/ \E j \in Calls : CancelJob(w, j)
  \/ \E x \in writes : FinishWrite(x)
  \/ \E j \in Calls : DeadlinePasses(j)
  \/ ExpireDueJobs
  \/ \E f \in Fingerprints : CacheExpires(f)
  \/ PurgeExpired

Spec == Init /\ [][Next]_vars

\* Clocks advance, intervals fire, and a promise the code awaits settles:
\* statements of the database end, and the dispatcher's timer bounds the
\* only other await.  Agents, users and connections owe nothing.
Fairness ==
  /\ \A r \in Calls : WF_vars(CallStep(r))
  /\ \A j \in Calls : WF_vars(DeadlinePasses(j))
  /\ WF_vars(ExpireDueJobs)
  /\ \A f \in Fingerprints : WF_vars(CacheExpires(f))
  /\ WF_vars(PurgeExpired)

FairSpec == Spec /\ Fairness

----------------------------------------------------------------------------
(* Properties                                                              *)

\* The states of a call that has won a job.
Owning == {"execute", "awaiting", "runRead", "runCAS", "completeRead",
           "completeCAS"}

\* The conditional update PENDING -> DISPATCHED selects one claimant
\* (data.service.ts:73): two calls never drive the same job, so the agent is
\* never sent a query twice and "execution already in progress" cannot occur.
SingleClaimant ==
  \A r, q \in Calls :
    call[r].pc \in Owning /\ call[q].pc \in Owning
      /\ call[r].job = call[q].job => r = q

\* Every promise execute() returned can still be settled, by exactly one
\* entry of its worker's pending map, and no entry outlives its promise.
AwaitingIsPending ==
  /\ \A r \in Calls : At(r, "awaiting") =>
       LET e == pending[HomeOf[r]][call[r].job]
       IN  /\ e # None /\ e.owner = r
           /\ e.query = call[r].query /\ e.seq = call[r].seq
  /\ \A w \in Workers, j \in Calls : pending[w][j] # None =>
       LET r == pending[w][j].owner
       IN  At(r, "awaiting") /\ call[r].job = j /\ HomeOf[r] = w

\* result is an answer to query f: it was computed for a job of that query
\* which is COMPLETED, it has every sequence of the plan, and each part is
\* the answer to that sequence of that job, sent by an agent that was asked.
IsAnswer(result, f) ==
  /\ jobs[result.job].state = "COMPLETED" /\ jobs[result.job].fp = f
  /\ Len(result.by) = IF f \in Compared THEN 2 ELSE 1
  /\ \A i \in 1..Len(result.by) :
       /\ result.by[i] \in asked
       /\ result.by[i].job = result.job /\ result.by[i].query = result.job
       /\ result.by[i].seq = i

\* Whatever is stored, cached or returned as a result answers the query it
\* is filed under, across late and repeated events, adoption of a job by
\* another call, reuse of a finished job and the cache.
ResultsAnswerTheirQuery ==
  /\ \A j \in Calls : jobs[j].result # None =>
       jobs[j].result.job = j /\ IsAnswer(jobs[j].result, jobs[j].fp)
  /\ \A f \in Fingerprints : cache[f].result # None =>
       IsAnswer(cache[f].result, f)
  /\ \A r \in Calls : reply[r].status = "completed" =>
       reply[r].result # None /\ IsAnswer(reply[r].result, call[r].fp)

\* An event after the end changes nothing (ADR-003: "terminal | tout
\* événement ultérieur | inchangé"): neither a late result, nor a late
\* acknowledgement, nor a cancellation that read the row earlier, nor a losing
\* duplicate, nor the sweep reopens or reclassifies a finished job.
TerminalIsFinal ==
  [][\A j \in Calls : jobs[j].state \in TerminalStates =>
       /\ jobs'[j].state = jobs[j].state
       /\ jobs'[j].version = jobs[j].version]_vars

\* The engine implements the life cycle of JobLifecycleV2, eventual end
\* included: a job left behind by a lost call, a lost update or a restart is
\* closed by the sweep.  That life cycle is the table of ADR-003
\* (ADR-003-job-engine.md:39-51) with one more line, PENDING to FAILED, which
\* the catch of runQuery takes (data.service.ts:141); in particular only a RUNNING job is COMPLETED,
\* although complete() would also take a DISPATCHED one, and although runQuery
\* itself moves a job to RUNNING when an answer comes without acknowledgement.
Lifecycle == INSTANCE JobLifecycleV2 WITH
  Jobs <- Calls, Queries <- Fingerprints, Answers <- Results,
  Nothing <- None,
  status <- [j \in Calls |-> jobs[j].state],
  query <- [j \in Calls |-> jobs[j].fp],
  answer <- [j \in Calls |-> jobs[j].result]

ImplementsLifecycle == Lifecycle!Spec

\* A started call returns, unless its worker dies.
CallsReturn ==
  \A r \in Calls : ~At(r, "idle") ~> call[r].pc \in {"done", "lost"}

\* No result outlives its retention: job ciphertexts and cache rows are
\* eventually erased (ADR-005).
ResultsAreErased ==
  /\ \A j \in Calls : jobs[j].result # None ~> jobs[j].result = None
  /\ \A f \in Fingerprints : cache[f].result # None ~> cache[f].result = None

============================================================================
