-------------------------- MODULE DataJobV2Proofs --------------------------
(***************************************************************************)
(* Theorems about DataJobV2, for any number of calls, queries, agents,     *)
(* sockets and workers.                                                    *)
(***************************************************************************)
EXTENDS DataJobV2, TLAPS

----------------------------------------------------------------------------
(* The inductive invariant                                                 *)

\* The states of a call that works on a job.
Driving == Owning \cup {"claim", "claimCAS", "cachePut", "failRead", "failCAS"}

\* A call that works on a job names it and its queryId, and a call about to
\* send, or waiting, is in one of the two sequences.
CallsNameTheirJob ==
  \A r \in Calls :
    /\ call[r].pc \in Driving => call[r].job \in Calls /\ call[r].query \in Calls
    /\ At(r, "getResult") => call[r].job \in Calls
    /\ call[r].pc \in {"execute", "awaiting"} => call[r].seq \in {1, 2}

\* The row of a call is inserted by that call, once.
RowsAreInsertedOnce ==
  \A r \in Calls : call[r].pc \in {"idle", "create"} => jobs[r].state = "ABSENT"

\* Once a call owns a job, the row is never PENDING again.
OwnedIsClaimed ==
  \A r \in Calls : call[r].pc \in Owning =>
    jobs[call[r].job].state \notin {"ABSENT", "PENDING"}

IInv == /\ TypeOK
        /\ CallsNameTheirJob
        /\ RowsAreInsertedOnce
        /\ OwnedIsClaimed
        /\ SingleClaimant
        /\ AwaitingIsPending

----------------------------------------------------------------------------
(* Types                                                                   *)

\* A call that has received no rows holds a sequence of messages.
LEMMA EmptyParts == <<>> \in Seq(Messages)
OBVIOUS

\* A row that transition() updates is a row.
LEMMA MovedType ==
  ASSUME NEW row \in Rows, NEW to \in ActiveStates \cup TerminalStates,
         NEW a \in Agents \cup {None}, NEW code \in ErrorCodes \cup {None}
  PROVE  Moved(row, to, a, code) \in Rows
<1> DEFINE v == row.version + 1
           b == IF to = "DISPATCHED" THEN a ELSE row.agent
           d == IF to = "DISPATCHED" THEN row.due ELSE FALSE
           c == IF code = None THEN row.code ELSE code
<1>1. /\ v \in Nat
      /\ b \in Agents \cup {None}
      /\ d \in BOOLEAN
      /\ c \in ErrorCodes \cup {None}
  <2>1. v \in Nat /\ b \in Agents \cup {None} /\ c \in ErrorCodes \cup {None}
    BY DEF Rows
  <2>2. row.due \in BOOLEAN
    BY DEF Rows
  <2>3. d \in BOOLEAN
    BY <2>2, Zenon
  <2> QED
    BY <2>1, <2>3
<1>2. Moved(row, to, a, code) =
        [row EXCEPT !.state = to, !.version = v, !.agent = b, !.due = d,
                    !.code = c]
  BY DEF Moved
<1> HIDE DEF v, b, d, c
<1> QED
  BY <1>1, <1>2 DEF Rows

\* Locals after an exception are locals.
LEMMA CaughtType ==
  ASSUME NEW l \in Locals, NEW code \in ErrorCodes
  PROVE  Caught(l, code) \in Locals
<1>1. \A p \in Seq(Messages) :
        [l EXCEPT !.pc = "failRead", !.code = code, !.seen = 0, !.parts = p,
                  !.seq = 0, !.agent = None] \in Locals
  BY DEF Locals, PCs
<1> QED
  BY <1>1, EmptyParts DEF Caught

\* A call that goes on with well-typed locals keeps the type of call.
LEMMA GoesType ==
  ASSUME NEW r \in Calls, NEW l \in Locals, Goes(r, l),
         call \in [Calls -> Locals]
  PROVE  call' \in [Calls -> Locals]
BY DEF Goes

\* The throw of the try block keeps the types of the calls and replies.
LEMMA ThrowType ==
  ASSUME TypeOK, NEW r \in Calls, NEW code \in ErrorCodes, Throw(r, code)
  PROVE  call' \in [Calls -> Locals] /\ reply' \in [Calls -> Replies]
BY CaughtType, GoesType DEF Throw, TypeOK

\* A call that returns keeps the types of the calls and replies.
LEMMA ReturnType ==
  ASSUME TypeOK, NEW r \in Calls,
         NEW status \in {"none", "completed", "pending", "error"},
         NEW result \in Results \cup {None}, Return(r, status, result)
  PROVE  call' \in [Calls -> Locals] /\ reply' \in [Calls -> Replies]
<1>1. [NoCall EXCEPT !.pc = "done", !.fp = call[r].fp, !.job = call[r].job]
        \in Locals
  <2>1. \A p \in Seq(Messages) :
          [[pc |-> "idle", fp |-> None, job |-> None, query |-> None,
            seq |-> 0, agent |-> None, seen |-> 0, parts |-> p,
            code |-> None]
           EXCEPT !.pc = "done", !.fp = call[r].fp, !.job = call[r].job]
          \in Locals
    BY DEF Locals, PCs, TypeOK
  <2> QED
    BY <2>1, EmptyParts DEF NoCall
<1> QED
  BY <1>1, GoesType DEF Return, TypeOK, Replies

\* The locals of an idle call, and of one its worker lost, are locals.
LEMMA NoCallType == NoCall \in Locals /\ [NoCall EXCEPT !.pc = "lost"] \in Locals
<1>1. \A p \in Seq(Messages), pc \in PCs :
        [pc |-> pc, fp |-> None, job |-> None, query |-> None,
         seq |-> 0, agent |-> None, seen |-> 0, parts |-> p,
         code |-> None] \in Locals
  BY DEF Locals
<1>2. [NoCall EXCEPT !.pc = "lost"] =
        [pc |-> "lost", fp |-> None, job |-> None, query |-> None,
         seq |-> 0, agent |-> None, seen |-> 0, parts |-> <<>>,
         code |-> None]
  BY DEF NoCall
<1> QED
  BY <1>1, <1>2, EmptyParts DEF NoCall, PCs

\* The initial state is well typed.
LEMMA InitType == Init => TypeOK
<1> SUFFICES ASSUME Init PROVE TypeOK
  OBVIOUS
<1>1. NoRow \in Rows
  BY DEF NoRow, Rows
<1>2. NoCache \in CacheRows
  BY DEF NoCache, CacheRows
<1> QED
  BY <1>1, <1>2, NoCallType DEF Init, TypeOK, Replies

\* Every step of a call keeps the types.
LEMMA CallStepType ==
  ASSUME TypeOK, CallsNameTheirJob, NEW r \in Calls, CallStep(r)
  PROVE  TypeOK'
<1> USE DataJobAssumption DEF TypeOK
<1> DEFINE j == call[r].job
<1>0. call[r] \in Locals
  OBVIOUS
<1>1. CASE Create(r)
  <2>1. [NoRow EXCEPT !.state = "PENDING", !.fp = call[r].fp] \in Rows
    BY <1>0 DEF NoRow, Rows, ActiveStates, Locals
  <2>2. [call[r] EXCEPT !.pc = "findActive"] \in Locals
    BY <1>0 DEF Locals, PCs
  <2>3. [call[r] EXCEPT !.pc = "claim", !.job = r, !.query = r] \in Locals
    BY <1>0 DEF Locals, PCs
  <2> QED
    BY <1>1, <2>1, <2>2, <2>3, GoesType DEF Create
<1>2. CASE FindActive(r)
  <2>1. [call[r] EXCEPT !.pc = "findCompleted"] \in Locals
    BY <1>0 DEF Locals, PCs
  <2>2. \A i \in Calls :
          [call[r] EXCEPT !.pc = "claim", !.job = i, !.query = i] \in Locals
    BY <1>0 DEF Locals, PCs
  <2> QED
    BY <1>2, <2>1, <2>2, GoesType, ReturnType DEF FindActive
<1>3. CASE FindCompleted(r)
  <2>1. \A i \in Calls :
          [call[r] EXCEPT !.pc = "getResult", !.job = i] \in Locals
    BY <1>0 DEF Locals, PCs
  <2> QED
    BY <1>3, <2>1, GoesType, ReturnType DEF FindCompleted
<1>4. CASE GetResult(r)
  <2>1. jobs[j] \in Rows
    BY <1>4 DEF GetResult, CallsNameTheirJob
  <2>2. jobs[j].result \in Results \cup {None}
    BY <2>1 DEF Rows
  <2> QED
    BY <1>4, <2>2, ReturnType DEF GetResult
<1>5. CASE Claim(r)
  <2>1. jobs[j] \in Rows
    BY <1>5 DEF Claim, CallsNameTheirJob, Driving, At
  <2>2. AgentFor(HomeOf[r]) \in Agents \cup {None}
    BY DEF AgentFor
  <2>3. \A a \in Agents \cup {None} :
          [call[r] EXCEPT !.pc = "claimCAS", !.agent = a,
                          !.seen = jobs[j].version] \in Locals
    BY <1>0, <2>1 DEF Locals, PCs, Rows
  <2>4. "AGENT_OFFLINE" \in ErrorCodes
    BY DEF ErrorCodes
  <2> QED
    BY <1>5, <2>2, <2>3, <2>4, GoesType, ReturnType, ThrowType DEF Claim
<1>6. CASE ClaimCAS(r)
  <2>1. jobs[j] \in Rows /\ j \in Calls
    BY <1>6 DEF ClaimCAS, CallsNameTheirJob, Driving, At
  <2>2. Moved(jobs[j], "DISPATCHED", call[r].agent, None) \in Rows
    BY <1>0, <2>1, MovedType DEF Locals, ActiveStates
  <2>3. [call[r] EXCEPT !.pc = "execute", !.seq = 1, !.agent = None,
                        !.seen = 0] \in Locals
    BY <1>0 DEF Locals, PCs
  <2>4. /\ \/ jobs' = [jobs EXCEPT ![j] =
                         Moved(jobs[j], "DISPATCHED", call[r].agent, None)]
           \/ jobs' = jobs
        /\ \/ Return(r, "pending", None)
           \/ /\ Goes(r, [call[r] EXCEPT !.pc = "execute", !.seq = 1,
                            !.agent = None, !.seen = 0])
              /\ UNCHANGED reply
        /\ UNCHANGED <<cache, pending, writes, sock, active, asked>>
    BY <1>6 DEF ClaimCAS
  <2>5. call' \in [Calls -> Locals] /\ reply' \in [Calls -> Replies]
    BY <2>3, <2>4, GoesType, ReturnType
  <2> QED
    BY <2>1, <2>2, <2>4, <2>5
<1>7. CASE Execute(r)
  <2>1. j \in Calls /\ call[r].query \in Calls /\ call[r].seq \in {1, 2}
    BY <1>7 DEF Execute, CallsNameTheirJob, Driving, Owning, At
  <2>2. AgentFor(HomeOf[r]) \in Agents \cup {None}
    BY DEF AgentFor
  <2>3. [call[r] EXCEPT !.pc = "awaiting"] \in Locals
    BY <1>0 DEF Locals, PCs
  <2>4. {"AGENT_OFFLINE", "QUERY_ERROR"} \subseteq ErrorCodes
    BY DEF ErrorCodes
  <2>5. call' \in [Calls -> Locals] /\ reply' \in [Calls -> Replies]
    BY <1>7, <2>3, <2>4, GoesType, ThrowType DEF Execute
  <2>6. \A a \in Agents :
          /\ [agent |-> a, query |-> call[r].query, seq |-> call[r].seq,
              owner |-> r] \in Entries
          /\ [agent |-> a, job |-> j, query |-> call[r].query,
              seq |-> call[r].seq] \in Messages
    BY <2>1 DEF Entries, Messages
  <2>7. /\ pending' \in [Workers -> [Calls -> Entries \cup {None}]]
        /\ asked' \subseteq Messages
    <3> DEFINE w == HomeOf[r]
               a == AgentFor(w)
               e == [agent |-> a, query |-> call[r].query,
                     seq |-> call[r].seq, owner |-> r]
               m == [agent |-> a, job |-> j, query |-> call[r].query,
                     seq |-> call[r].seq]
    <3>1. CASE UNCHANGED <<pending, asked>>
      BY <3>1
    <3>2. CASE /\ a # None
               /\ pending' = [pending EXCEPT ![w][j] = e]
               /\ asked' = asked \cup {m}
      <4>1. e \in Entries /\ m \in Messages
        BY <2>2, <2>6, <3>2
      <4> HIDE DEF e, m, a
      <4> QED
        BY <2>1, <3>2, <4>1
    <3> QED
      BY <1>7, <3>1, <3>2 DEF Execute
  <2> QED
    BY <1>7, <2>5, <2>7 DEF Execute
<1>8. CASE Timeout(r)
  <2>1. "QUERY_TIMEOUT" \in ErrorCodes
    BY DEF ErrorCodes
  <2> QED
    BY <1>8, <2>1, ThrowType DEF Timeout
<1>9. CASE RunRead(r)
  <2>1. jobs[j] \in Rows
    BY <1>9 DEF RunRead, CallsNameTheirJob, Driving, Owning, At
  <2>2. /\ [call[r] EXCEPT !.pc = "runCAS", !.seen = jobs[j].version] \in Locals
        /\ [call[r] EXCEPT !.pc = "completeRead"] \in Locals
    BY <1>0, <2>1 DEF Locals, PCs, Rows
  <2> QED
    BY <1>9, <2>2, GoesType DEF RunRead
<1>10. CASE RunCAS(r)
  <2>1. jobs[j] \in Rows
    BY <1>10 DEF RunCAS, CallsNameTheirJob, Driving, Owning, At
  <2>2. Moved(jobs[j], "RUNNING", None, None) \in Rows
    BY <2>1, MovedType DEF ActiveStates
  <2>3. [call[r] EXCEPT !.pc = "completeRead", !.seen = 0] \in Locals
    BY <1>0 DEF Locals, PCs
  <2> QED
    BY <1>10, <2>2, <2>3, GoesType DEF RunCAS
<1>11. CASE CompleteRead(r)
  <2>1. jobs[j] \in Rows
    BY <1>11 DEF CompleteRead, CallsNameTheirJob, Driving, Owning, At
  <2>2. [call[r] EXCEPT !.pc = "completeCAS", !.seen = jobs[j].version]
          \in Locals
    BY <1>0, <2>1 DEF Locals, PCs, Rows
  <2>3. "QUERY_ERROR" \in ErrorCodes
    BY DEF ErrorCodes
  <2> QED
    BY <1>11, <2>2, <2>3, GoesType, ReturnType, ThrowType DEF CompleteRead
<1>12. CASE CompleteCAS(r)
  <2> DEFINE result == [job |-> j, by |-> call[r].parts]
             row == [Moved(jobs[j], "COMPLETED", None, None)
                       EXCEPT !.result = result]
  <2>1. j \in Calls /\ jobs[j] \in Rows
    BY <1>12 DEF CompleteCAS, CallsNameTheirJob, Driving, Owning, At
  <2>2. result \in Results
    BY <1>0, <2>1 DEF Results, Locals
  <2>3. Moved(jobs[j], "COMPLETED", None, None) \in Rows
    BY <2>1, MovedType DEF TerminalStates
  <2>4. row \in Rows
    <3> HIDE DEF result
    <3> QED
      BY <2>2, <2>3 DEF Rows
  <2>5. [call[r] EXCEPT !.pc = "cachePut", !.seen = 0] \in Locals
    BY <1>0 DEF Locals, PCs
  <2>6. jobs' = [jobs EXCEPT ![j] = row] \/ jobs' = jobs
    BY <1>12 DEF CompleteCAS
  <2>7. \/ Return(r, "completed", result) \/ Return(r, "pending", None)
        \/ /\ Goes(r, [call[r] EXCEPT !.pc = "cachePut", !.seen = 0])
           /\ UNCHANGED reply
    BY <1>12 DEF CompleteCAS
  <2>8. UNCHANGED <<cache, pending, writes, sock, active, asked>>
    BY <1>12 DEF CompleteCAS
  <2> HIDE DEF row, result
  <2> QED
    BY <2>2, <2>4, <2>5, <2>6, <2>7, <2>8, GoesType, ReturnType
<1>13. CASE CachePut(r)
  <2> DEFINE result == [job |-> j, by |-> call[r].parts]
  <2>1. result \in Results
    BY <1>0, <1>13 DEF CachePut, CallsNameTheirJob, Driving, At, Results, Locals
  <2>2. Return(r, "completed", result)
    BY <1>13 DEF CachePut
  <2>3. \/ cache' = [cache EXCEPT ![call[r].fp] =
                       [result |-> result, fresh |-> TRUE]]
        \/ UNCHANGED cache
    BY <1>13 DEF CachePut
  <2>4. UNCHANGED <<jobs, pending, writes, sock, active, asked>>
    BY <1>13 DEF CachePut
  <2> HIDE DEF result
  <2>5. [result |-> result, fresh |-> TRUE] \in CacheRows
    BY <2>1 DEF CacheRows
  <2>6. call' \in [Calls -> Locals] /\ reply' \in [Calls -> Replies]
    BY <2>1, <2>2, ReturnType
  <2>7. cache' \in [Fingerprints -> CacheRows]
    BY <2>3, <2>5
  <2> QED
    BY <2>4, <2>6, <2>7
<1>14. CASE FailRead(r)
  <2>1. jobs[j] \in Rows
    BY <1>14 DEF FailRead, CallsNameTheirJob, Driving, At
  <2>2. [call[r] EXCEPT !.pc = "failCAS", !.seen = jobs[j].version] \in Locals
    BY <1>0, <2>1 DEF Locals, PCs, Rows
  <2> QED
    BY <1>14, <2>2, GoesType, ReturnType DEF FailRead
<1>15. CASE FailCAS(r)
  <2> DEFINE to == IF call[r].code = "QUERY_TIMEOUT" THEN "TIMED_OUT"
                   ELSE "FAILED"
  <2>1. jobs[j] \in Rows /\ call[r].code \in ErrorCodes \cup {None}
    BY <1>0, <1>15 DEF FailCAS, CallsNameTheirJob, Driving, At, Locals
  <2>2. to \in TerminalStates
    BY DEF TerminalStates
  <2>3. jobs' = [jobs EXCEPT ![j] = Moved(@, to, None, call[r].code)]
          \/ jobs' = jobs
    BY <1>15 DEF FailCAS
  <2> HIDE DEF to
  <2>4. Moved(jobs[j], to, None, call[r].code) \in Rows
    BY <2>1, <2>2, MovedType
  <2> QED
    BY <1>15, <2>3, <2>4, ReturnType DEF FailCAS
<1> QED
  BY <1>1, <1>2, <1>3, <1>4, <1>5, <1>6, <1>7, <1>8, <1>9, <1>10, <1>11,
     <1>12, <1>13, <1>14, <1>15 DEF CallStep

\* The handlers of the gateway keep the types.
LEMMA SocketStepType ==
  ASSUME TypeOK, NEW s \in Sockets, SocketStep(s)
  PROVE  TypeOK'
<1> USE DataJobAssumption DEF TypeOK
<1>1. CASE Connect(s)
  BY <1>1 DEF Connect
<1>2. CASE HandleConnection(s)
  <2>1. sock' \in [Sockets -> {"closed", "handshake", "abandoned",
                               "connected", "capable"}]
    BY <1>2 DEF HandleConnection
  <2>2. active' \in [Workers -> Sockets \cup {None, Dead}]
    BY <1>2 DEF HandleConnection
  <2> QED
    BY <1>2, <2>1, <2>2 DEF HandleConnection
<1>3. CASE HandleAgentHelloV2(s)
  BY <1>3 DEF HandleAgentHelloV2
<1>4. CASE HandleDisconnect(s)
  <2>1. /\ sock' \in [Sockets -> {"closed", "handshake", "abandoned",
                                  "connected", "capable"}]
        /\ active' \in [Workers -> Sockets \cup {None, Dead}]
    BY <1>4 DEF HandleDisconnect
  <2> DEFINE w == SockHome[s]
             gone == Dropped(w, AgentOf[s])
  <2>2. "AGENT_OFFLINE" \in ErrorCodes
    BY DEF ErrorCodes
  <2>3. \/ UNCHANGED <<pending, call>>
        \/ /\ pending' = [pending EXCEPT ![w] =
                [j \in Calls |-> IF j \in gone THEN None ELSE pending[w][j]]]
           /\ call' = [r \in Calls |->
                IF \E j \in gone : pending[w][j].owner = r
                THEN Caught(call[r], "AGENT_OFFLINE") ELSE call[r]]
    BY <1>4 DEF HandleDisconnect
  <2>4. /\ pending' \in [Workers -> [Calls -> Entries \cup {None}]]
        /\ call' \in [Calls -> Locals]
    <3> HIDE DEF gone
    <3>1. \A r \in Calls : Caught(call[r], "AGENT_OFFLINE") \in Locals
      BY <2>2, CaughtType
    <3>2. w \in Workers /\ pending[w] \in [Calls -> Entries \cup {None}]
      OBVIOUS
    <3> HIDE DEF w
    <3>3. [j \in Calls |-> IF j \in gone THEN None ELSE pending[w][j]]
            \in [Calls -> Entries \cup {None}]
      BY <3>2
    <3>4. pending' \in [Workers -> [Calls -> Entries \cup {None}]]
      BY <2>3, <3>2, <3>3
    <3>5. call' \in [Calls -> Locals]
      BY <2>3, <3>1
    <3> QED
      BY <3>4, <3>5
  <2> QED
    BY <1>4, <2>1, <2>4 DEF HandleDisconnect
<1>5. ASSUME NEW m \in asked, HandleQueryAcknowledgedV2(s, m)
      PROVE  TypeOK'
  <2>1. m \in Messages /\ jobs[m.job] \in Rows
    BY DEF Messages
  <2>2. [worker |-> SockHome[s], job |-> m.job, to |-> "RUNNING",
         seen |-> jobs[m.job].version, agent |-> m.agent] \in Writes
    BY <2>1 DEF Messages, Rows, Writes
  <2> QED
    BY <1>5, <2>2 DEF HandleQueryAcknowledgedV2
<1>6. ASSUME NEW m \in asked, HandleQueryResultV2(s, m)
      PROVE  TypeOK'
  <2> DEFINE w == SockHome[s]
             r == pending[w][m.job].owner
  <2>1. m \in Messages /\ m.job \in Calls
    BY DEF Messages
  <2>2. pending[w][m.job] \in Entries
    BY <1>6, <2>1 DEF HandleQueryResultV2, IsPending
  <2>3. r \in Calls /\ call[r] \in Locals
    BY <2>2 DEF Entries
  <2>4. pending' \in [Workers -> [Calls -> Entries \cup {None}]]
    BY <1>6, <2>1 DEF HandleQueryResultV2
  <2>5. {"QUERY_TIMEOUT", "QUERY_ERROR"} \subseteq ErrorCodes
    BY DEF ErrorCodes
  <2>6. /\ <<m>> \in Seq(Messages)
        /\ Append(call[r].parts, m) \in Seq(Messages)
    BY <2>1, <2>3 DEF Locals
  <2>7. \A p \in Seq(Messages) :
          /\ [call[r] EXCEPT !.pc = "execute", !.seq = 2, !.parts = p]
               \in Locals
          /\ [call[r] EXCEPT !.pc = "runRead", !.seq = 0, !.parts = p]
               \in Locals
    BY <2>3 DEF Locals, PCs
  <2>8. /\ \/ \E code \in {"QUERY_TIMEOUT", "QUERY_ERROR"} : Throw(r, code)
           \/ /\ Goes(r, [call[r] EXCEPT !.pc = "execute", !.seq = 2,
                                         !.parts = <<m>>])
              /\ UNCHANGED reply
           \/ /\ Goes(r, [call[r] EXCEPT !.pc = "runRead", !.seq = 0,
                            !.parts = Append(call[r].parts, m)])
              /\ UNCHANGED reply
        /\ UNCHANGED <<jobs, cache, writes, sock, active, asked>>
    BY <1>6 DEF HandleQueryResultV2
  <2> HIDE DEF r, w
  <2>9. call' \in [Calls -> Locals] /\ reply' \in [Calls -> Replies]
    BY <2>3, <2>5, <2>6, <2>7, <2>8, GoesType, ThrowType
  <2> QED
    BY <2>4, <2>8, <2>9
<1> QED
  BY <1>1, <1>2, <1>3, <1>4, <1>5, <1>6 DEF SocketStep

\* The sweep keeps the type of a row.
LEMMA SweptType ==
  ASSUME NEW row \in Rows
  PROVE  Swept(row) \in Rows
<1>1. Moved(row, "TIMED_OUT", None, "QUERY_TIMEOUT") \in Rows
  BY MovedType DEF TerminalStates, ErrorCodes
<1>2. [row EXCEPT !.result = None] \in Rows
  BY DEF Rows
<1> QED
  BY <1>1, <1>2 DEF Swept

\* Every step keeps the types.
LEMMA NextType ==
  ASSUME TypeOK, CallsNameTheirJob, [Next]_vars
  PROVE  TypeOK'
<1> USE DataJobAssumption DEF TypeOK
<1>1. ASSUME NEW r \in Calls, CallStep(r)
      PROVE  TypeOK'
  BY <1>1, CallStepType
<1>2. ASSUME NEW r \in Calls, NEW f \in Fingerprints, Query(r, f)
      PROVE  TypeOK'
  <2>0. call[r] \in Locals
    OBVIOUS
  <2>1. /\ [call[r] EXCEPT !.pc = "done", !.fp = f] \in Locals
        /\ [call[r] EXCEPT !.pc = "create", !.fp = f] \in Locals
    BY <2>0 DEF Locals, PCs
  <2>2. [status |-> "completed", result |-> cache[f].result] \in Replies
    BY DEF Replies, CacheRows
  <2> QED
    BY <1>2, <2>1, <2>2, GoesType DEF Query
<1>3. ASSUME NEW s \in Sockets, SocketStep(s)
      PROVE  TypeOK'
  BY <1>3, SocketStepType
<1>4. ASSUME NEW w \in Workers, Restart(w)
      PROVE  TypeOK'
  BY <1>4, NoCallType DEF Restart
<1>5. ASSUME NEW w \in Workers, NEW j \in Calls, CancelJob(w, j)
      PROVE  TypeOK'
  <2>1. [worker |-> w, job |-> j, to |-> "CANCELLED",
         seen |-> jobs[j].version, agent |-> None] \in Writes
    BY DEF Writes, Rows
  <2> QED
    BY <1>5, <2>1 DEF CancelJob
<1>6. ASSUME NEW x \in writes, FinishWrite(x)
      PROVE  TypeOK'
  <2>1. x.job \in Calls /\ x.to \in ActiveStates \cup TerminalStates
    BY DEF Writes, ActiveStates, TerminalStates
  <2>2. Moved(jobs[x.job], x.to, None, None) \in Rows
    BY <2>1, MovedType
  <2>3. \/ jobs' = [jobs EXCEPT ![x.job] = Moved(jobs[x.job], x.to, None, None)]
        \/ jobs' = jobs
    BY <1>6 DEF FinishWrite
  <2>4. jobs' \in [Calls -> Rows]
    BY <2>2, <2>3
  <2> QED
    BY <1>6, <2>4 DEF FinishWrite
<1>7. ASSUME NEW j \in Calls, DeadlinePasses(j)
      PROVE  TypeOK'
  <2>0. jobs[j] \in Rows
    OBVIOUS
  <2>1. [jobs[j] EXCEPT !.due = TRUE] \in Rows
    BY <2>0 DEF Rows
  <2> QED
    BY <1>7, <2>1 DEF DeadlinePasses
<1>8. CASE ExpireDueJobs
  BY <1>8, SweptType DEF ExpireDueJobs
<1>9. ASSUME NEW f \in Fingerprints, CacheExpires(f)
      PROVE  TypeOK'
  <2>1. [cache[f] EXCEPT !.fresh = FALSE] \in CacheRows
    BY DEF CacheRows
  <2> QED
    BY <1>9, <2>1 DEF CacheExpires
<1>10. CASE PurgeExpired
  <2>1. NoCache \in CacheRows
    BY DEF NoCache, CacheRows
  <2> QED
    BY <1>10, <2>1 DEF PurgeExpired
<1>11. CASE UNCHANGED vars
  BY <1>11 DEF vars
<1> QED
  BY <1>1, <1>2, <1>3, <1>4, <1>5, <1>6, <1>7, <1>8, <1>9, <1>10, <1>11
     DEF Next

----------------------------------------------------------------------------
(* What a step does to the rows                                            *)

\* A finished row keeps its state and version, a row that left PENDING does
\* not return to it, and only the call that owns its name inserts a row.
RowStep ==
  \A j \in Calls :
    /\ jobs[j].state \in TerminalStates =>
         jobs'[j].state = jobs[j].state /\ jobs'[j].version = jobs[j].version
    /\ jobs[j].state \notin {"ABSENT", "PENDING"} =>
         jobs'[j].state \notin {"ABSENT", "PENDING"}
    /\ jobs[j].state = "ABSENT" =>
         jobs'[j].state = "ABSENT" \/ (At(j, "create") /\ At(j, "claim")')

\* transition() gives the row the state it was asked for.
LEMMA MovedState ==
  ASSUME NEW row \in Rows, NEW to, NEW a, NEW code
  PROVE  Moved(row, to, a, code).state = to
BY DEF Moved, Rows

\* The conditional update of an active row.
LEMMA UpdateRow ==
  ASSUME TypeOK, NEW j \in Calls, jobs[j].state \in ActiveStates,
         NEW row, row.state \notin {"ABSENT", "PENDING"},
         jobs' = [jobs EXCEPT ![j] = row]
  PROVE  RowStep
BY DEF RowStep, TypeOK, ActiveStates, TerminalStates

\* A step that leaves the table alone moves no row.
LEMMA SameRows == ASSUME UNCHANGED jobs PROVE RowStep
BY DEF RowStep

\* Every step moves rows only as transition(), complete() and the sweep do.
LEMMA NextRows ==
  ASSUME TypeOK, CallsNameTheirJob, RowsAreInsertedOnce, [Next]_vars
  PROVE  RowStep
<1>1. ASSUME NEW r \in Calls, CallStep(r)
      PROVE  RowStep
  <2> DEFINE j == call[r].job
  <2>0. call[r].pc \in Driving => j \in Calls /\ jobs[j] \in Rows
    BY DEF CallsNameTheirJob, TypeOK
  <2>1. CASE Create(r)
    <3>1. CASE UNCHANGED jobs
      BY <3>1, SameRows
    <3>2. CASE /\ jobs' = [jobs EXCEPT ![r] = [NoRow EXCEPT
                             !.state = "PENDING", !.fp = call[r].fp]]
               /\ Goes(r, [call[r] EXCEPT !.pc = "claim", !.job = r,
                                          !.query = r])
      <4>1. jobs[r].state = "ABSENT"
        BY <2>1 DEF Create, At, RowsAreInsertedOnce
      <4>2. At(r, "claim")'
        BY <3>2 DEF Goes, TypeOK, Locals, At
      <4>3. At(r, "create")
        BY <2>1 DEF Create
      <4> QED
        BY <3>2, <4>1, <4>2, <4>3 DEF RowStep, TypeOK, TerminalStates
    <3> QED
      BY <2>1, <3>1, <3>2 DEF Create
  <2>2. CASE ClaimCAS(r)
    <3>1. Moved(jobs[j], "DISPATCHED", call[r].agent, None).state = "DISPATCHED"
      BY <2>0, <2>2, MovedState DEF ClaimCAS, At, Driving
    <3>2. \/ UNCHANGED jobs
          \/ /\ jobs[j].state = "PENDING"
             /\ jobs' = [jobs EXCEPT ![j] =
                          Moved(jobs[j], "DISPATCHED", call[r].agent, None)]
      BY <2>2 DEF ClaimCAS, Matches, Allowed
    <3> QED
      BY <2>0, <2>2, <3>1, <3>2, SameRows, UpdateRow
      DEF ClaimCAS, At, Driving, ActiveStates
  <2>3. CASE RunCAS(r)
    <3>1. Moved(jobs[j], "RUNNING", None, None).state = "RUNNING"
      BY <2>0, <2>3, MovedState DEF RunCAS, At, Driving, Owning
    <3>2. \/ UNCHANGED jobs
          \/ /\ jobs[j].state = "DISPATCHED"
             /\ jobs' = [jobs EXCEPT ![j] = Moved(jobs[j], "RUNNING", None, None)]
      BY <2>3 DEF RunCAS, Matches, Allowed
    <3> QED
      BY <2>0, <2>3, <3>1, <3>2, SameRows, UpdateRow
      DEF RunCAS, At, Driving, Owning, ActiveStates
  <2>4. CASE CompleteCAS(r)
    <3> DEFINE row == [Moved(jobs[j], "COMPLETED", None, None)
                         EXCEPT !.result = [job |-> j, by |-> call[r].parts]]
    <3>1. Moved(jobs[j], "COMPLETED", None, None) \in Rows
          /\ Moved(jobs[j], "COMPLETED", None, None).state = "COMPLETED"
      BY <2>0, <2>4, MovedState, MovedType
      DEF CompleteCAS, At, Driving, Owning, TerminalStates
    <3>2. row.state = "COMPLETED"
      BY <3>1 DEF Rows
    <3>3. \/ UNCHANGED jobs
          \/ /\ jobs[j].state \in {"DISPATCHED", "RUNNING"}
             /\ jobs' = [jobs EXCEPT ![j] = row]
      BY <2>4 DEF CompleteCAS, Matches, Allowed
    <3> HIDE DEF row
    <3> QED
      BY <2>0, <2>4, <3>2, <3>3, SameRows, UpdateRow
      DEF CompleteCAS, At, Driving, Owning, ActiveStates
  <2>5. CASE FailCAS(r)
    <3> DEFINE to == IF call[r].code = "QUERY_TIMEOUT" THEN "TIMED_OUT"
                     ELSE "FAILED"
    <3>1. Moved(jobs[j], to, None, call[r].code).state = to
      BY <2>0, <2>5, MovedState DEF FailCAS, At, Driving
    <3>2. \/ UNCHANGED jobs
          \/ /\ jobs[j].state \in ActiveStates
             /\ jobs' = [jobs EXCEPT ![j] = Moved(jobs[j], to, None, call[r].code)]
      BY <2>5 DEF FailCAS, Matches, Allowed
    <3>3. to \notin {"ABSENT", "PENDING"}
      OBVIOUS
    <3> HIDE DEF to
    <3> QED
      BY <2>0, <2>5, <3>1, <3>2, <3>3, SameRows, UpdateRow
      DEF FailCAS, At, Driving
  <2>6. CASE UNCHANGED jobs
    BY <2>6, SameRows
  <2> QED
    BY <1>1, <2>1, <2>2, <2>3, <2>4, <2>5, <2>6
    DEF CallStep, FindActive, FindCompleted, GetResult, Claim, Execute,
        Timeout, RunRead, CompleteRead, CachePut, FailRead
<1>2. ASSUME NEW x \in writes, FinishWrite(x)
      PROVE  RowStep
  <2>1. x.job \in Calls /\ x.to \notin {"ABSENT", "PENDING"}
    BY DEF TypeOK, Writes
  <2>2. Moved(jobs[x.job], x.to, None, None).state = x.to
    BY <2>1, MovedState DEF TypeOK
  <2>3. \/ UNCHANGED jobs
        \/ /\ jobs[x.job].state \in ActiveStates
           /\ jobs' = [jobs EXCEPT ![x.job] =
                         Moved(jobs[x.job], x.to, None, None)]
    BY <1>2 DEF FinishWrite, Matches, Allowed, ActiveStates
  <2> QED
    BY <2>1, <2>2, <2>3, SameRows, UpdateRow
<1>3. ASSUME NEW j \in Calls, DeadlinePasses(j)
      PROVE  RowStep
  <2>1. \A i \in Calls : jobs'[i].state = jobs[i].state
                      /\ jobs'[i].version = jobs[i].version
    BY <1>3 DEF DeadlinePasses, TypeOK, Rows
  <2> QED
    BY <2>1 DEF RowStep
<1>4. CASE ExpireDueJobs
  <2> SUFFICES ASSUME NEW j \in Calls
               PROVE  /\ jobs[j].state \in TerminalStates \cup {"ABSENT"} =>
                           /\ jobs'[j].state = jobs[j].state
                           /\ jobs'[j].version = jobs[j].version
                      /\ jobs[j].state \in ActiveStates =>
                           jobs'[j].state \in {jobs[j].state, "TIMED_OUT"}
    BY DEF RowStep, TypeOK, Rows, TerminalStates, ActiveStates
  <2>1. jobs'[j] = Swept(jobs[j]) /\ jobs[j] \in Rows
    BY <1>4 DEF ExpireDueJobs, TypeOK
  <2>2. Moved(jobs[j], "TIMED_OUT", None, "QUERY_TIMEOUT").state = "TIMED_OUT"
    BY <2>1, MovedState
  <2>3. /\ [jobs[j] EXCEPT !.result = None].state = jobs[j].state
        /\ [jobs[j] EXCEPT !.result = None].version = jobs[j].version
    BY <2>1 DEF Rows
  <2> QED
    BY <2>1, <2>2, <2>3 DEF Swept, TerminalStates, ActiveStates
<1>5. CASE UNCHANGED jobs
  BY <1>5, SameRows
<1> QED
  BY <1>1, <1>2, <1>3, <1>4, <1>5
  DEF Next, vars, Query, SocketStep, Connect, HandleConnection,
      HandleAgentHelloV2, HandleDisconnect, HandleQueryAcknowledgedV2,
      HandleQueryResultV2, Restart, CancelJob, CacheExpires, PurgeExpired

----------------------------------------------------------------------------
(* What a step does to the calls                                           *)

SameJob(r) == call'[r].job = call[r].job /\ call'[r].query = call[r].query

\* Call r wins its job.
Wins(r) ==
  /\ At(r, "claimCAS") /\ At(r, "execute")'
  /\ SameJob(r) /\ call'[r].seq = 1
  /\ jobs[call[r].job].state = "PENDING"
  /\ jobs'[call[r].job].state = "DISPATCHED"

\* Before it completes its job, call r has moved it to RUNNING or has found
\* that it is no longer DISPATCHED.
RunsFirst(r) ==
  \/ /\ At(r, "runCAS")' /\ UNCHANGED jobs
     /\ call'[r].seen = jobs[call[r].job].version
  \/ /\ At(r, "completeRead")' /\ UNCHANGED jobs
     /\ jobs[call[r].job].state # "DISPATCHED"
  \/ /\ At(r, "runCAS") /\ At(r, "completeRead")'
     /\ jobs[call[r].job].state = "DISPATCHED"
          /\ jobs[call[r].job].version = call[r].seen =>
            jobs'[call[r].job].state # "DISPATCHED"
  \/ At(r, "completeRead") /\ At(r, "completeCAS")'

\* Call r stays an owner of its job.
Works(r) ==
  /\ call[r].pc \in Owning /\ call'[r].pc \in Owning /\ SameJob(r)
  /\ call'[r].pc \in {"execute", "awaiting"} => call'[r].seq \in {1, 2}
  /\ call'[r].pc \in {"runCAS", "completeRead", "completeCAS"} => RunsFirst(r)

\* What a step may make of call r.
CallMove(r) ==
  \/ call'[r] = call[r]
  \/ call'[r].pc \in {"findActive", "findCompleted", "done", "lost"}
  \/ At(r, "idle") /\ At(r, "create")'
  \/ At(r, "claim")' /\ call'[r].job \in Calls /\ call'[r].query \in Calls
  \/ At(r, "getResult")' /\ call'[r].job \in Calls
  \/ At(r, "claim") /\ At(r, "claimCAS")' /\ SameJob(r)
  \/ Wins(r)
  \/ Works(r)
  \/ /\ call[r].pc \in Driving /\ SameJob(r)
     /\ call'[r].pc \in {"cachePut", "failRead", "failCAS"}

\* An exception is a move of its call, which stops owning its job.
LEMMA CaughtMove ==
  ASSUME NEW r \in Calls, call[r] \in Locals, NEW code,
         call'[r] = Caught(call[r], code), call[r].pc \in Driving
  PROVE  CallMove(r)
BY DEF CallMove, Caught, Locals, SameJob

\* A return is a move of its call, which stops owning its job.
LEMMA ReturnMove ==
  ASSUME TypeOK, NEW r \in Calls, NEW status, NEW result,
         Return(r, status, result)
  PROVE  CallMove(r)
BY DEF CallMove, Return, Goes, TypeOK, NoCall

\* Each step of a call is one of its moves.
LEMMA OwnMove ==
  ASSUME TypeOK, CallsNameTheirJob, NEW r \in Calls, CallStep(r)
  PROVE  CallMove(r)
<1> DEFINE j == call[r].job
<1>0. call[r] \in Locals
  BY DEF TypeOK
<1>a. \A l : Goes(r, l) => call'[r] = l
  BY DEF Goes, TypeOK
<1>b. ASSUME NEW code, Throw(r, code), call[r].pc \in Driving
      PROVE  CallMove(r)
  BY <1>0, <1>a, <1>b, CaughtMove DEF Throw
<1>1. CASE Create(r)
  BY <1>0, <1>1, <1>a DEF Create, CallMove, Locals, At
<1>2. CASE FindActive(r)
  BY <1>0, <1>2, <1>a, ReturnMove DEF FindActive, CallMove, Locals, At
<1>3. CASE FindCompleted(r)
  BY <1>0, <1>3, <1>a, ReturnMove DEF FindCompleted, CallMove, Locals, At
<1>4. CASE GetResult(r)
  BY <1>4, ReturnMove DEF GetResult
<1>5. CASE Claim(r)
  <2>1. call[r].pc \in Driving
    BY <1>5 DEF Claim, At, Driving
  <2> QED
    BY <1>0, <1>5, <1>a, <1>b, <2>1, ReturnMove
    DEF Claim, CallMove, Locals, At, SameJob
<1>6. CASE ClaimCAS(r)
  <2>1. j \in Calls /\ jobs[j] \in Rows
    BY <1>6 DEF ClaimCAS, CallsNameTheirJob, Driving, At, TypeOK
  <2>2. CASE Return(r, "pending", None)
    BY <2>2, ReturnMove
  <2>3. CASE /\ jobs[j].state = "PENDING"
             /\ jobs' = [jobs EXCEPT ![j] =
                  Moved(jobs[j], "DISPATCHED", call[r].agent, None)]
             /\ Goes(r, [call[r] EXCEPT !.pc = "execute", !.seq = 1,
                                        !.agent = None, !.seen = 0])
    <3>1. jobs'[j].state = "DISPATCHED"
      BY <2>1, <2>3, MovedState DEF TypeOK
    <3>2. At(r, "claimCAS")
      BY <1>6 DEF ClaimCAS
    <3>3. At(r, "execute")' /\ SameJob(r) /\ call'[r].seq = 1
      BY <1>0, <1>a, <2>3 DEF Locals, At, SameJob
    <3> QED
      BY <2>3, <3>1, <3>2, <3>3 DEF CallMove, Wins
  <2> QED
    BY <1>6, <2>2, <2>3 DEF ClaimCAS, Matches, Allowed
<1>7. CASE Execute(r)
  <2>1. call[r].pc \in Driving /\ call[r].pc \in Owning
    BY <1>7 DEF Execute, At, Driving, Owning
  <2>2. call[r].seq \in {1, 2}
    BY <1>7 DEF Execute, At, CallsNameTheirJob
  <2>3. CASE Goes(r, [call[r] EXCEPT !.pc = "awaiting"])
    BY <1>0, <1>a, <2>1, <2>2, <2>3
    DEF CallMove, Works, Locals, SameJob, Owning
  <2> QED
    BY <1>7, <1>b, <2>1, <2>3 DEF Execute
<1>8. CASE Timeout(r)
  BY <1>8, <1>b DEF Timeout, At, Driving, Owning
<1>9. CASE RunRead(r)
  <2>1. \/ Goes(r, [call[r] EXCEPT !.pc = "runCAS", !.seen = jobs[j].version])
        \/ /\ Goes(r, [call[r] EXCEPT !.pc = "completeRead"])
           /\ jobs[j].state # "DISPATCHED"
    BY <1>9 DEF RunRead, Allowed
  <2>2. RunsFirst(r) /\ SameJob(r) /\ call'[r].pc \in {"runCAS", "completeRead"}
    BY <1>0, <1>9, <1>a, <2>1 DEF RunRead, RunsFirst, At, Locals, SameJob
  <2> QED
    BY <1>9, <2>2 DEF RunRead, At, CallMove, Works, Owning
<1>10. CASE RunCAS(r)
  <2>1. j \in Calls /\ jobs[j] \in Rows
    BY <1>10 DEF RunCAS, CallsNameTheirJob, Driving, Owning, At, TypeOK
  <2>2. jobs[j].state = "DISPATCHED" /\ jobs[j].version = call[r].seen =>
          jobs'[j].state # "DISPATCHED"
    <3> SUFFICES ASSUME jobs[j].state = "DISPATCHED",
                        jobs[j].version = call[r].seen
                 PROVE  jobs'[j].state # "DISPATCHED"
      OBVIOUS
    <3>1. jobs' = [jobs EXCEPT ![j] = Moved(jobs[j], "RUNNING", None, None)]
      BY <1>10 DEF RunCAS, Matches, Allowed
    <3>2. Moved(jobs[j], "RUNNING", None, None).state = "RUNNING"
      BY <2>1, MovedState
    <3> QED
      BY <2>1, <3>1, <3>2 DEF TypeOK
  <2>3. At(r, "runCAS") /\ At(r, "completeRead")' /\ SameJob(r)
    BY <1>0, <1>10, <1>a DEF RunCAS, At, Locals, SameJob
  <2> QED
    BY <2>2, <2>3 DEF At, CallMove, Works, RunsFirst, Owning
<1>11. CASE CompleteRead(r)
  <2>1. call[r].pc \in Driving /\ call[r].pc \in Owning
    BY <1>11 DEF CompleteRead, At, Driving, Owning
  <2>2. CASE Goes(r, [call[r] EXCEPT !.pc = "completeCAS",
                                     !.seen = jobs[j].version])
    <3>1. At(r, "completeRead") /\ At(r, "completeCAS")' /\ SameJob(r)
      BY <1>0, <1>11, <1>a, <2>2 DEF CompleteRead, At, Locals, SameJob
    <3> QED
      BY <2>1, <3>1 DEF CallMove, Works, RunsFirst, At, Owning
  <2> QED
    BY <1>11, <1>b, <2>1, <2>2, ReturnMove DEF CompleteRead
<1>12. CASE CompleteCAS(r)
  <2>1. call[r].pc \in Driving
    BY <1>12 DEF CompleteCAS, At, Driving, Owning
  <2>2. CASE Goes(r, [call[r] EXCEPT !.pc = "cachePut", !.seen = 0])
    BY <1>0, <1>a, <2>1, <2>2 DEF CallMove, Locals, SameJob
  <2> QED
    BY <1>12, <2>2, ReturnMove DEF CompleteCAS
<1>13. CASE CachePut(r)
  BY <1>13, ReturnMove DEF CachePut
<1>14. CASE FailRead(r)
  <2>1. call[r].pc \in Driving
    BY <1>14 DEF FailRead, At, Driving
  <2>2. CASE Goes(r, [call[r] EXCEPT !.pc = "failCAS",
                                     !.seen = jobs[j].version])
    BY <1>0, <1>a, <2>1, <2>2 DEF CallMove, Locals, SameJob
  <2> QED
    BY <1>14, <2>2, ReturnMove DEF FailRead
<1>15. CASE FailCAS(r)
  BY <1>15, ReturnMove DEF FailCAS
<1> QED
  BY <1>1, <1>2, <1>3, <1>4, <1>5, <1>6, <1>7, <1>8, <1>9, <1>10, <1>11,
     <1>12, <1>13, <1>14, <1>15 DEF CallStep

\* A step of call r leaves the other calls alone.
LEMMA OthersStay ==
  ASSUME TypeOK, NEW r \in Calls, CallStep(r)
  PROVE  \A q \in Calls \ {r} : call'[q] = call[q]
<1>1. \A l : Goes(r, l) => \A q \in Calls \ {r} : call'[q] = call[q]
  BY DEF Goes, TypeOK
<1> QED
  BY <1>1
  DEF CallStep, Create, FindActive, FindCompleted, GetResult, Claim, ClaimCAS,
      Execute, Timeout, RunRead, RunCAS, CompleteRead, CompleteCAS, CachePut,
      FailRead, FailCAS, Return, Throw

\* The call whose promise a result settles was waiting for it.
LEMMA ResultMove ==
  ASSUME TypeOK, AwaitingIsPending, NEW s \in Sockets, NEW m \in asked,
         HandleQueryResultV2(s, m)
  PROVE  \E r \in Calls :
           /\ r = pending[SockHome[s]][m.job].owner
           /\ m.job \in Calls /\ At(r, "awaiting") /\ call[r].job = m.job
           /\ HomeOf[r] = SockHome[s] /\ ~At(r, "awaiting")'
           /\ CallMove(r)
           /\ \A q \in Calls \ {r} : call'[q] = call[q]
<1> DEFINE w == SockHome[s]
<1>w. w \in Workers
  BY DataJobAssumption
<1>m. m \in Messages
  BY DEF TypeOK
<1>1. m.job \in Calls /\ w \in Workers
  BY <1>w, <1>m DEF Messages
<1>t. pending[w][m.job] \in Entries \cup {None}
  BY <1>1 DEF TypeOK
<1>2. pending[w][m.job] # None /\ pending[w][m.job] \in Entries
  BY <1>t DEF HandleQueryResultV2, IsPending
<1>3. PICK r \in Calls : r = pending[w][m.job].owner
  BY <1>2 DEF Entries
<1>4. At(r, "awaiting") /\ call[r].job = m.job /\ HomeOf[r] = w
  BY <1>1, <1>2, <1>3 DEF AwaitingIsPending
<1>5. call[r] \in Locals
  BY DEF TypeOK
<1>6. \/ \E code : Throw(r, code)
      \/ Goes(r, [call[r] EXCEPT !.pc = "execute", !.seq = 2,
                                 !.parts = <<m>>])
      \/ Goes(r, [call[r] EXCEPT !.pc = "runRead", !.seq = 0,
                                 !.parts = Append(call[r].parts, m)])
  BY <1>3 DEF HandleQueryResultV2
<1>7. \A l : Goes(r, l) =>
        call'[r] = l /\ \A q \in Calls \ {r} : call'[q] = call[q]
  BY <1>3 DEF Goes, TypeOK
<1>8. \A q \in Calls \ {r} : call'[q] = call[q]
  BY <1>6, <1>7 DEF Throw
<1>9. CallMove(r) /\ ~At(r, "awaiting")'
  <2>1. ASSUME NEW code, Throw(r, code)
        PROVE  CallMove(r) /\ ~At(r, "awaiting")'
    <3>1. call'[r] = Caught(call[r], code)
      BY <1>7, <2>1 DEF Throw
    <3>2. call[r].pc \in Driving
      BY <1>4 DEF At, Driving, Owning
    <3> QED
      BY <1>3, <1>5, <3>1, <3>2, CaughtMove DEF Caught, Locals, At
  <2>2. ASSUME NEW p, Goes(r, [call[r] EXCEPT !.pc = "execute", !.seq = 2,
                                              !.parts = p])
        PROVE  CallMove(r) /\ ~At(r, "awaiting")'
    <3>1. call'[r] = [call[r] EXCEPT !.pc = "execute", !.seq = 2, !.parts = p]
      BY <1>7, <2>2
    <3>2. At(r, "execute")' /\ call'[r].seq = 2 /\ SameJob(r)
      BY <1>5, <3>1 DEF Locals, At, SameJob
    <3> QED
      BY <1>4, <3>2 DEF CallMove, Works, Owning, At
  <2>3. ASSUME NEW p, Goes(r, [call[r] EXCEPT !.pc = "runRead", !.seq = 0,
                                              !.parts = p])
        PROVE  CallMove(r) /\ ~At(r, "awaiting")'
    <3>1. call'[r] = [call[r] EXCEPT !.pc = "runRead", !.seq = 0, !.parts = p]
      BY <1>7, <2>3
    <3>2. At(r, "runRead")' /\ call'[r].seq = 0 /\ SameJob(r)
      BY <1>5, <3>1 DEF Locals, At, SameJob
    <3> QED
      BY <1>4, <3>2 DEF CallMove, Works, Owning, At
  <2> QED
    BY <1>6, <2>1, <2>2, <2>3
<1> QED
  BY <1>1, <1>3, <1>4, <1>8, <1>9

\* A disconnection makes the calls that wait for the agent throw.
LEMMA DisconnectMove ==
  ASSUME TypeOK, AwaitingIsPending, NEW s \in Sockets, HandleDisconnect(s),
         NEW r \in Calls
  PROVE  CallMove(r) /\ ~Wins(r)
<1> DEFINE w == SockHome[s]
           gone == Dropped(w, AgentOf[s])
<1>0. call[r] \in Locals /\ w \in Workers
  BY DataJobAssumption DEF TypeOK
<1>1. CASE call'[r] = call[r]
  BY <1>1 DEF CallMove, Wins, At
<1>2. CASE /\ \E j \in gone : pending[w][j].owner = r
           /\ call'[r] = Caught(call[r], "AGENT_OFFLINE")
  <2>1. At(r, "awaiting")
    BY <1>0, <1>2 DEF Dropped, AwaitingIsPending
  <2>2. call[r].pc \in Driving /\ ~At(r, "claimCAS")
    BY <2>1 DEF At, Driving, Owning
  <2> QED
    BY <1>0, <1>2, <2>2, CaughtMove DEF Wins
<1> QED
  BY <1>1, <1>2 DEF HandleDisconnect

\* Every step moves every call by one of its moves, and at most one call
\* wins a job.
LEMMA NextCalls ==
  ASSUME TypeOK, CallsNameTheirJob, AwaitingIsPending, [Next]_vars
  PROVE  /\ \A r \in Calls : CallMove(r)
         /\ \A r, q \in Calls : Wins(r) /\ Wins(q) => r = q
<1>0. \A q \in Calls : call'[q] = call[q] => CallMove(q) /\ ~Wins(q)
  BY DEF CallMove, Wins, At
<1>1. ASSUME NEW r \in Calls, CallStep(r)
      PROVE  /\ \A q \in Calls : CallMove(q)
             /\ \A q \in Calls \ {r} : ~Wins(q)
  BY <1>0, <1>1, OwnMove, OthersStay
<1>2. ASSUME NEW r \in Calls, NEW f \in Fingerprints, Query(r, f)
      PROVE  \A q \in Calls : CallMove(q) /\ ~Wins(q)
  <2>1. \A q \in Calls \ {r} : call'[q] = call[q]
    BY <1>2 DEF Query, Goes, TypeOK
  <2>2. CallMove(r) /\ ~Wins(r)
    <3>1. call[r] \in Locals
      BY DEF TypeOK
    <3>2. \/ call'[r] = [call[r] EXCEPT !.pc = "done", !.fp = f]
          \/ call'[r] = [call[r] EXCEPT !.pc = "create", !.fp = f]
      BY <1>2 DEF Query, Goes, TypeOK
    <3>3. At(r, "idle")
      BY <1>2 DEF Query
    <3> QED
      BY <3>1, <3>2, <3>3 DEF Locals, CallMove, Wins, At
  <2> QED
    BY <1>0, <2>1, <2>2
<1>3. ASSUME NEW s \in Sockets, SocketStep(s)
      PROVE  \A q \in Calls : CallMove(q) /\ ~Wins(q)
  <2>1. CASE UNCHANGED call
    BY <1>0, <2>1
  <2>2. CASE HandleDisconnect(s)
    BY <2>2, DisconnectMove
  <2>3. ASSUME NEW m \in asked, HandleQueryResultV2(s, m)
        PROVE  \A q \in Calls : CallMove(q) /\ ~Wins(q)
    BY <1>0, <2>3, ResultMove DEF Wins, At
  <2> QED
    BY <1>3, <2>1, <2>2, <2>3
    DEF SocketStep, Connect, HandleConnection, HandleAgentHelloV2,
        HandleQueryAcknowledgedV2
<1>4. ASSUME NEW w \in Workers, Restart(w)
      PROVE  \A q \in Calls : CallMove(q) /\ ~Wins(q)
  <2> SUFFICES ASSUME NEW q \in Calls PROVE CallMove(q) /\ ~Wins(q)
    OBVIOUS
  <2>1. call'[q] = call[q] \/ call'[q] = [NoCall EXCEPT !.pc = "lost"]
    BY <1>4 DEF Restart
  <2> QED
    BY <1>0, <2>1 DEF NoCall, CallMove, Wins, At
<1>5. CASE UNCHANGED call
  BY <1>0, <1>5
<1> QED
  BY <1>1, <1>2, <1>3, <1>4, <1>5
  DEF Next, vars, CancelJob, FinishWrite, DeadlinePasses, ExpireDueJobs,
      CacheExpires, PurgeExpired

----------------------------------------------------------------------------
(* The pending maps                                                        *)

\* Only execute() makes a call wait, and among a call's own steps only its
\* timer makes it stop waiting.
LEMMA NotAwaiting ==
  ASSUME TypeOK, NEW r \in Calls, CallStep(r), ~Execute(r), ~Timeout(r)
  PROVE  ~At(r, "awaiting") /\ ~At(r, "awaiting")' /\ UNCHANGED pending
<1>0. call[r] \in Locals
  BY DEF TypeOK
<1>a. \A l : Goes(r, l) => call'[r] = l
  BY DEF Goes, TypeOK
<1>b. \A code : Throw(r, code) => ~At(r, "awaiting")'
  BY <1>0, <1>a DEF Throw, Caught, Locals, At
<1>c. \A status, result : Return(r, status, result) => ~At(r, "awaiting")'
  BY <1>a DEF Return, NoCall, At
<1>1. CASE Create(r) \/ FindActive(r) \/ FindCompleted(r) \/ GetResult(r)
  BY <1>0, <1>1, <1>a, <1>c
  DEF Create, FindActive, FindCompleted, GetResult, Locals, At
<1>2. CASE Claim(r)
  BY <1>0, <1>2, <1>a, <1>b, <1>c DEF Claim, Locals, At
<1>3. CASE ClaimCAS(r)
  BY <1>0, <1>3, <1>a, <1>c DEF ClaimCAS, Locals, At
<1>4. CASE RunRead(r) \/ RunCAS(r)
  BY <1>0, <1>4, <1>a DEF RunRead, RunCAS, Locals, At
<1>5. CASE CompleteRead(r)
  BY <1>0, <1>5, <1>a, <1>b, <1>c DEF CompleteRead, Locals, At
<1>6. CASE CompleteCAS(r)
  BY <1>0, <1>6, <1>a, <1>c DEF CompleteCAS, Locals, At
<1>7. CASE CachePut(r)
  BY <1>7, <1>c DEF CachePut, At
<1>8. CASE FailRead(r)
  BY <1>0, <1>8, <1>a, <1>c DEF FailRead, Locals, At
<1>9. CASE FailCAS(r)
  BY <1>9, <1>c DEF FailCAS, At
<1> QED
  BY <1>1, <1>2, <1>3, <1>4, <1>5, <1>6, <1>7, <1>8, <1>9 DEF CallStep

\* A step that leaves the maps and the waiting calls alone.
LEMMA QuietPending ==
  ASSUME TypeOK, AwaitingIsPending, UNCHANGED pending,
         \A q \in Calls :
           At(q, "awaiting") \/ At(q, "awaiting")' => call'[q] = call[q]
  PROVE  AwaitingIsPending'
<1>1. \A w \in Workers, j \in Calls : pending[w][j] # None =>
        pending[w][j].owner \in Calls
  BY DEF TypeOK, Entries
<1> QED
  BY <1>1 DEF AwaitingIsPending, At

\* A step that settles the promise of one waiting call.
LEMMA SettlePending ==
  ASSUME TypeOK, CallsNameTheirJob, AwaitingIsPending,
         NEW r \in Calls, NEW w \in Workers, NEW j \in Calls,
         At(r, "awaiting"), call[r].job = j, HomeOf[r] = w,
         ~At(r, "awaiting")',
         \A q \in Calls \ {r} : call'[q] = call[q],
         pending' = [pending EXCEPT ![w][j] = None]
  PROVE  AwaitingIsPending'
<1>1. /\ pending'[w][j] = None
      /\ \A v \in Workers, i \in Calls :
           v # w \/ i # j => pending'[v][i] = pending[v][i]
  BY DEF TypeOK
<1>2. pending[w][j].owner = r
  BY DEF AwaitingIsPending
<1>3. ASSUME NEW q \in Calls, At(q, "awaiting")'
      PROVE  LET e == pending'[HomeOf[q]][call'[q].job]
             IN  /\ e # None /\ e.owner = q
                 /\ e.query = call'[q].query /\ e.seq = call'[q].seq
  <2>1. q # r /\ call'[q] = call[q] /\ At(q, "awaiting")
    BY <1>3 DEF At
  <2>2. call[q].job \in Calls /\ HomeOf[q] \in Workers
    BY <2>1, DataJobAssumption DEF CallsNameTheirJob, Driving, Owning, At
  <2>3. /\ pending[HomeOf[q]][call[q].job] # None
        /\ pending[HomeOf[q]][call[q].job].owner = q
        /\ pending[HomeOf[q]][call[q].job].query = call[q].query
        /\ pending[HomeOf[q]][call[q].job].seq = call[q].seq
    BY <2>1 DEF AwaitingIsPending
  <2>4. HomeOf[q] # w \/ call[q].job # j
    BY <1>2, <2>1, <2>3
  <2> QED
    BY <1>1, <2>1, <2>2, <2>3, <2>4
<1>4. ASSUME NEW v \in Workers, NEW i \in Calls, pending'[v][i] # None
      PROVE  LET q == pending'[v][i].owner
             IN  /\ call'[q].pc = "awaiting"
                 /\ call'[q].job = i /\ HomeOf[q] = v
  <2>1. pending'[v][i] = pending[v][i] /\ (v # w \/ i # j)
    BY <1>1, <1>4
  <2>2. pending[v][i].owner \in Calls
    BY <1>4, <2>1 DEF TypeOK, Entries
  <2>3. /\ call[pending[v][i].owner].pc = "awaiting"
        /\ call[pending[v][i].owner].job = i
        /\ HomeOf[pending[v][i].owner] = v
    BY <1>4, <2>1 DEF AwaitingIsPending, At
  <2>4. pending[v][i].owner # r
    BY <2>1, <2>3
  <2> QED
    BY <2>1, <2>2, <2>3, <2>4
<1> QED
  BY <1>3, <1>4 DEF AwaitingIsPending, At

\* Every step keeps waiting calls and pending entries in correspondence.
LEMMA NextPending ==
  ASSUME TypeOK, CallsNameTheirJob, AwaitingIsPending, [Next]_vars
  PROVE  AwaitingIsPending'
<1>0. \A w \in Workers, j \in Calls : pending[w][j] # None =>
        pending[w][j] \in Entries /\ pending[w][j].owner \in Calls
  BY DEF TypeOK, Entries
<1>1. ASSUME NEW r \in Calls, Execute(r)
      PROVE  AwaitingIsPending'
  <2> DEFINE j == call[r].job
             w == HomeOf[r]
  <2>1. /\ call[r] \in Locals /\ j \in Calls /\ w \in Workers
        /\ ~At(r, "awaiting")
    BY <1>1, DataJobAssumption
    DEF TypeOK, Execute, CallsNameTheirJob, Driving, Owning, At
  <2>2. \A q \in Calls \ {r} : call'[q] = call[q]
    BY <1>1, OthersStay DEF CallStep
  <2>3. ASSUME NEW code, Throw(r, code), UNCHANGED pending
        PROVE  AwaitingIsPending'
    <3>1. ~At(r, "awaiting")'
      BY <2>1, <2>3 DEF Throw, Goes, Caught, Locals, TypeOK, At
    <3> QED
      BY <2>1, <2>2, <2>3, <3>1, QuietPending
  <2>4. ASSUME NEW a \in Agents, pending[w][j] = None,
               pending' = [pending EXCEPT ![w][j] =
                 [agent |-> a, query |-> call[r].query,
                  seq |-> call[r].seq, owner |-> r]],
               Goes(r, [call[r] EXCEPT !.pc = "awaiting"])
        PROVE  AwaitingIsPending'
    <3> DEFINE e == [agent |-> a, query |-> call[r].query,
                     seq |-> call[r].seq, owner |-> r]
    <3>1. /\ At(r, "awaiting")' /\ call'[r].job = j
          /\ call'[r].query = call[r].query /\ call'[r].seq = call[r].seq
      BY <2>1, <2>4 DEF Goes, Locals, TypeOK, At
    <3>2. e # None
      <4>1. call[r].query \in Calls /\ call[r].seq \in {1, 2}
        BY <1>1 DEF Execute, At, CallsNameTheirJob, Driving, Owning
      <4>2. e \in Entries
        BY <4>1 DEF Entries
      <4> QED
        BY <4>2, NoneAssumption
    <3>3. /\ pending'[w][j] = e
          /\ \A v \in Workers, i \in Calls :
               <<v, i>> # <<w, j>> => pending'[v][i] = pending[v][i]
      BY <2>1, <2>4 DEF TypeOK
    <3>4. e.owner = r /\ e.query = call[r].query /\ e.seq = call[r].seq
      OBVIOUS
    <3>5. \A v \in Workers, i \in Calls :
            pending'[v][i] = IF v = w /\ i = j THEN e ELSE pending[v][i]
      BY <3>3
    <3> HIDE DEF e
    <3>6. ASSUME NEW q \in Calls, At(q, "awaiting")'
          PROVE  LET x == pending'[HomeOf[q]][call'[q].job]
                 IN  /\ x # None /\ x.owner = q
                     /\ x.query = call'[q].query /\ x.seq = call'[q].seq
      <4>1. CASE q = r
        BY <4>1, <3>1, <3>2, <3>3, <3>4
      <4>2. CASE q # r
        <5>1. call'[q] = call[q] /\ At(q, "awaiting")
          BY <2>2, <3>6, <4>2 DEF At
        <5>2. HomeOf[q] \in Workers /\ call[q].job \in Calls
          BY <5>1, DataJobAssumption DEF CallsNameTheirJob, Driving, Owning, At
        <5>3. pending[HomeOf[q]][call[q].job] # None
          BY <5>1 DEF AwaitingIsPending
        <5>4. ~(HomeOf[q] = w /\ call[q].job = j)
          BY <2>4, <5>3
        <5>5. pending'[HomeOf[q]][call[q].job] = pending[HomeOf[q]][call[q].job]
          BY <3>5, <5>2, <5>4
        <5> QED
          BY <5>1, <5>5 DEF AwaitingIsPending
      <4> QED
        BY <4>1, <4>2
    <3>7. ASSUME NEW v \in Workers, NEW i \in Calls, pending'[v][i] # None
          PROVE  LET q == pending'[v][i].owner
                 IN  call'[q].pc = "awaiting" /\ call'[q].job = i /\ HomeOf[q] = v
      <4>1. CASE v = w /\ i = j
        BY <4>1, <3>1, <3>3, <3>4 DEF At
      <4>2. CASE ~(v = w /\ i = j)
        <5>1. pending'[v][i] = pending[v][i]
          BY <3>5, <4>2
        <5>2. pending[v][i].owner \in Calls /\ At(pending[v][i].owner, "awaiting")
          BY <1>0, <3>7, <5>1 DEF AwaitingIsPending
        <5>3. call'[pending[v][i].owner] = call[pending[v][i].owner]
          BY <2>1, <2>2, <5>2
        <5> QED
          BY <3>7, <5>1, <5>3 DEF AwaitingIsPending, At
      <4> QED
        BY <4>1, <4>2
    <3> QED
      BY <3>6, <3>7 DEF AwaitingIsPending, At
  <2>5. AgentFor(w) \in Agents \cup {None}
    BY DataJobAssumption DEF AgentFor, TypeOK
  <2> QED
    BY <1>1, <2>3, <2>4, <2>5 DEF Execute
<1>2. ASSUME NEW r \in Calls, Timeout(r)
      PROVE  AwaitingIsPending'
  <2> DEFINE j == call[r].job
             w == HomeOf[r]
  <2>1. /\ call[r] \in Locals /\ j \in Calls /\ w \in Workers
        /\ At(r, "awaiting")
    BY <1>2, DataJobAssumption
    DEF TypeOK, Timeout, CallsNameTheirJob, Driving, Owning, At
  <2>2. \A q \in Calls \ {r} : call'[q] = call[q]
    BY <1>2, OthersStay DEF CallStep
  <2>3. ~At(r, "awaiting")'
    BY <1>2, <2>1 DEF Timeout, Throw, Goes, Caught, Locals, TypeOK, At
  <2> QED
    BY <1>2, <2>1, <2>2, <2>3, SettlePending DEF Timeout
<1>3. ASSUME NEW r \in Calls, CallStep(r), ~Execute(r), ~Timeout(r)
      PROVE  AwaitingIsPending'
  BY <1>3, NotAwaiting, OthersStay, QuietPending
<1>4. ASSUME NEW r \in Calls, NEW f \in Fingerprints, Query(r, f)
      PROVE  AwaitingIsPending'
  <2>1. call[r] \in Locals
    BY DEF TypeOK
  <2>2. \A q \in Calls \ {r} : call'[q] = call[q]
    BY <1>4 DEF Query, Goes, TypeOK
  <2>3. \/ call'[r] = [call[r] EXCEPT !.pc = "done", !.fp = f]
        \/ call'[r] = [call[r] EXCEPT !.pc = "create", !.fp = f]
    BY <1>4 DEF Query, Goes, TypeOK
  <2>4. ~At(r, "awaiting") /\ ~At(r, "awaiting")' /\ UNCHANGED pending
    BY <1>4, <2>1, <2>3 DEF Query, Locals, At
  <2> QED
    BY <2>2, <2>4, QuietPending
<1>5. ASSUME NEW s \in Sockets, HandleDisconnect(s)
      PROVE  AwaitingIsPending'
  <2> DEFINE w == SockHome[s]
             gone == Dropped(w, AgentOf[s])
             hit(r) == \E j \in gone : pending[w][j].owner = r
  <2>1. CASE UNCHANGED <<pending, call>>
    BY <2>1, QuietPending
  <2>2. CASE /\ pending' = [pending EXCEPT ![w] =
                  [j \in Calls |-> IF j \in gone THEN None ELSE pending[w][j]]]
             /\ call' = [r \in Calls |->
                  IF hit(r) THEN Caught(call[r], "AGENT_OFFLINE") ELSE call[r]]
    <3>1. w \in Workers /\ gone \subseteq Calls
      BY DataJobAssumption DEF Dropped
    <3>2. \A j \in gone : pending[w][j] # None
      BY DEF Dropped
    <3>3. \A v \in Workers, j \in Calls :
            pending'[v][j] =
              IF v = w /\ j \in gone THEN None ELSE pending[v][j]
      BY <2>2, <3>1 DEF TypeOK
    <3>4. \A r \in Calls : hit(r) => ~At(r, "awaiting")'
      <4> TAKE r \in Calls
      <4>1. call[r] \in Locals
        BY DEF TypeOK
      <4>2. hit(r) => call'[r] = Caught(call[r], "AGENT_OFFLINE")
        BY <2>2
      <4> QED
        BY <4>1, <4>2 DEF Caught, Locals, At
    <3>5. \A r \in Calls : ~hit(r) => call'[r] = call[r]
      BY <2>2
    <3>6. \A r \in Calls : At(r, "awaiting") /\ ~hit(r) =>
            ~(HomeOf[r] = w /\ call[r].job \in gone)
      BY DEF AwaitingIsPending
    <3>7. \A v \in Workers, j \in Calls :
            pending[v][j] # None /\ ~(v = w /\ j \in gone) =>
              ~hit(pending[v][j].owner)
      BY <3>1, <3>2 DEF AwaitingIsPending
    <3> HIDE DEF hit, gone, w
    <3>8. ASSUME NEW r \in Calls, At(r, "awaiting")'
          PROVE  LET e == pending'[HomeOf[r]][call'[r].job]
                 IN  /\ e # None /\ e.owner = r
                     /\ e.query = call'[r].query /\ e.seq = call'[r].seq
      <4>1. call'[r] = call[r] /\ ~hit(r) /\ At(r, "awaiting")
        BY <3>4, <3>5, <3>8 DEF At
      <4>2. call[r].job \in Calls /\ HomeOf[r] \in Workers
        BY <4>1, DataJobAssumption DEF CallsNameTheirJob, Driving, Owning, At
      <4>3. pending'[HomeOf[r]][call[r].job] = pending[HomeOf[r]][call[r].job]
        BY <3>3, <3>6, <4>1, <4>2
      <4> QED
        BY <4>1, <4>3 DEF AwaitingIsPending
    <3>9. ASSUME NEW v \in Workers, NEW j \in Calls, pending'[v][j] # None
          PROVE  LET r == pending'[v][j].owner
                 IN  /\ call'[r].pc = "awaiting"
                     /\ call'[r].job = j /\ HomeOf[r] = v
      <4>1. pending'[v][j] = pending[v][j] /\ ~(v = w /\ j \in gone)
        BY <3>3, <3>9
      <4>2. call'[pending[v][j].owner] = call[pending[v][j].owner]
        BY <1>0, <3>5, <3>7, <3>9, <4>1
      <4> QED
        BY <3>9, <4>1, <4>2 DEF AwaitingIsPending, At
    <3> QED
      BY <3>8, <3>9 DEF AwaitingIsPending, At
  <2> QED
    BY <1>5, <2>1, <2>2 DEF HandleDisconnect
<1>6. ASSUME NEW s \in Sockets, NEW m \in asked, HandleQueryResultV2(s, m)
      PROVE  AwaitingIsPending'
  <2> DEFINE w == SockHome[s]
  <2>1. PICK r \in Calls :
          /\ r = pending[w][m.job].owner
          /\ m.job \in Calls /\ At(r, "awaiting") /\ call[r].job = m.job
          /\ HomeOf[r] = w /\ ~At(r, "awaiting")'
          /\ \A q \in Calls \ {r} : call'[q] = call[q]
    BY <1>6, ResultMove
  <2>2. w \in Workers
    BY DataJobAssumption
  <2> QED
    BY <1>6, <2>1, <2>2, SettlePending DEF HandleQueryResultV2
<1>7. ASSUME NEW w \in Workers, Restart(w)
      PROVE  AwaitingIsPending'
  <2>1. \A v \in Workers, j \in Calls :
          pending'[v][j] = IF v = w THEN None ELSE pending[v][j]
    BY <1>7 DEF Restart, TypeOK
  <2>2. \A r \in Calls : HomeOf[r] = w => ~At(r, "awaiting")'
    <3> SUFFICES ASSUME NEW r \in Calls, HomeOf[r] = w
                 PROVE  call'[r].pc # "awaiting"
      BY DEF At
    <3>1. \/ call[r].pc \in {"idle", "done", "lost"} /\ call'[r] = call[r]
          \/ call'[r] = [NoCall EXCEPT !.pc = "lost"]
      BY <1>7 DEF Restart
    <3>2. [NoCall EXCEPT !.pc = "lost"].pc = "lost"
      BY DEF NoCall
    <3> QED
      BY <3>1, <3>2
  <2>3. \A r \in Calls : HomeOf[r] # w => call'[r] = call[r]
    BY <1>7 DEF Restart
  <2>4. \A r \in Calls : HomeOf[r] \in Workers
    BY DataJobAssumption
  <2>5. \A r \in Calls : At(r, "awaiting") => call[r].job \in Calls
    BY DEF CallsNameTheirJob, Driving, Owning, At
  <2>6. ASSUME NEW q \in Calls, At(q, "awaiting")'
        PROVE  LET e == pending'[HomeOf[q]][call'[q].job]
               IN  /\ e # None /\ e.owner = q
                   /\ e.query = call'[q].query /\ e.seq = call'[q].seq
    <3>1. HomeOf[q] # w /\ call'[q] = call[q] /\ At(q, "awaiting")
      BY <2>2, <2>3, <2>6 DEF At
    <3>2. pending'[HomeOf[q]][call[q].job] = pending[HomeOf[q]][call[q].job]
      BY <2>1, <2>4, <2>5, <3>1
    <3> QED
      BY <3>1, <3>2 DEF AwaitingIsPending
  <2>7. ASSUME NEW v \in Workers, NEW j \in Calls, pending'[v][j] # None
        PROVE  LET q == pending'[v][j].owner
               IN  call'[q].pc = "awaiting" /\ call'[q].job = j /\ HomeOf[q] = v
    <3>1. v # w /\ pending'[v][j] = pending[v][j]
      BY <2>1, <2>7
    <3>2. LET q == pending[v][j].owner
          IN  q \in Calls /\ At(q, "awaiting") /\ call[q].job = j /\ HomeOf[q] = v
      BY <1>0, <2>7, <3>1 DEF AwaitingIsPending
    <3>3. call'[pending[v][j].owner] = call[pending[v][j].owner]
      BY <2>3, <3>1, <3>2
    <3> QED
      BY <3>1, <3>2, <3>3 DEF At
  <2> QED
    BY <2>6, <2>7 DEF AwaitingIsPending, At
<1>8. CASE UNCHANGED <<pending, call>>
  BY <1>8, QuietPending
<1> QED
  BY <1>1, <1>2, <1>3, <1>4, <1>5, <1>6, <1>7, <1>8
  DEF Next, vars, SocketStep, Connect, HandleConnection, HandleAgentHelloV2,
      HandleQueryAcknowledgedV2, CancelJob, FinishWrite, DeadlinePasses,
      ExpireDueJobs, CacheExpires, PurgeExpired

----------------------------------------------------------------------------
(* Theorems                                                                *)

\* The initial state satisfies the inductive invariant.
LEMMA InitInv == Init => IInv
<1> SUFFICES ASSUME Init PROVE IInv
  OBVIOUS
<1>1. \A r \in Calls : At(r, "idle")
  BY DEF Init, NoCall, At
<1>2. \A r \in Calls : jobs[r].state = "ABSENT"
  BY DEF Init, NoRow
<1>3. \A w \in Workers, j \in Calls : pending[w][j] = None
  BY DEF Init
<1>4. CallsNameTheirJob /\ OwnedIsClaimed /\ SingleClaimant
  BY <1>1 DEF CallsNameTheirJob, OwnedIsClaimed, SingleClaimant, Driving,
              Owning, At
<1>5. RowsAreInsertedOnce
  BY <1>2 DEF RowsAreInsertedOnce
<1>6. AwaitingIsPending
  BY <1>1, <1>3 DEF AwaitingIsPending, At
<1> QED
  BY <1>4, <1>5, <1>6, InitType DEF IInv

\* Every step preserves the inductive invariant.
LEMMA NextInv == IInv /\ [Next]_vars => IInv'
<1> SUFFICES ASSUME IInv, [Next]_vars PROVE IInv'
  OBVIOUS
<1>1. TypeOK'
  BY NextType DEF IInv
<1>2. AwaitingIsPending'
  BY NextPending DEF IInv
<1>3. RowStep
  BY NextRows DEF IInv
<1>4. /\ \A r \in Calls : CallMove(r)
      /\ \A r, q \in Calls : Wins(r) /\ Wins(q) => r = q
  BY NextCalls DEF IInv
<1>5. CallsNameTheirJob'
  <2> SUFFICES ASSUME NEW r \in Calls
               PROVE  /\ call'[r].pc \in Driving =>
                           call'[r].job \in Calls /\ call'[r].query \in Calls
                      /\ call'[r].pc = "getResult" => call'[r].job \in Calls
                      /\ call'[r].pc \in {"execute", "awaiting"} =>
                           call'[r].seq \in {1, 2}
    BY DEF CallsNameTheirJob, At
  <2>1. CallMove(r)
    BY <1>4
  <2> QED
    BY <2>1 DEF IInv, CallsNameTheirJob, CallMove, Wins, Works, SameJob,
                Driving, Owning, At
<1>6. RowsAreInsertedOnce'
  <2> SUFFICES ASSUME NEW r \in Calls, call'[r].pc \in {"idle", "create"}
               PROVE  jobs'[r].state = "ABSENT"
    BY DEF RowsAreInsertedOnce
  <2>1. CallMove(r)
    BY <1>4
  <2>2. call[r].pc \in {"idle", "create"}
    BY <2>1 DEF CallMove, Wins, Works, Owning, At
  <2> QED
    BY <1>3, <2>2 DEF IInv, RowsAreInsertedOnce, RowStep, At
<1>7. ASSUME NEW r \in Calls, call'[r].pc \in Owning
      PROVE  /\ call'[r].job = call[r].job /\ call[r].job \in Calls
             /\ Wins(r) \/ call[r].pc \in Owning
  <2>1. CallMove(r)
    BY <1>4
  <2> QED
    BY <1>7, <2>1 DEF IInv, CallsNameTheirJob, CallMove, Wins, Works, SameJob,
                      Driving, Owning, At
<1>8. OwnedIsClaimed'
  <2> SUFFICES ASSUME NEW r \in Calls, call'[r].pc \in Owning
               PROVE  jobs'[call'[r].job].state \notin {"ABSENT", "PENDING"}
    BY DEF OwnedIsClaimed
  <2> QED
    BY <1>3, <1>7 DEF IInv, OwnedIsClaimed, RowStep, Wins
<1>9. SingleClaimant'
  <2> SUFFICES ASSUME NEW r \in Calls, NEW q \in Calls,
                      call'[r].pc \in Owning, call'[q].pc \in Owning,
                      call'[r].job = call'[q].job
               PROVE  r = q
    BY DEF SingleClaimant
  <2> QED
    BY <1>4, <1>7 DEF IInv, SingleClaimant, OwnedIsClaimed, Wins
<1> QED
  BY <1>1, <1>2, <1>5, <1>6, <1>8, <1>9 DEF IInv

\* The inductive invariant holds in every reachable state.
THEOREM Invariance == Spec => []IInv
BY InitInv, NextInv, PTL DEF Spec

\* The tables, the locals of runQuery and the two in-memory maps keep their
\* types; in particular a call never works on a row it does not name.
THEOREM TypeCorrect == Spec => []TypeOK
<1>1. IInv => TypeOK
  BY DEF IInv
<1> QED
  BY <1>1, Invariance, PTL

\* The conditional update PENDING -> DISPATCHED of runQuery selects at most
\* one claimant per job, however many calls adopt it and on whatever worker.
THEOREM ClaimIsExclusive == Spec => []SingleClaimant
<1>1. IInv => SingleClaimant
  BY DEF IInv
<1> QED
  BY <1>1, Invariance, PTL

\* Every promise of DataJobV2Dispatcher.execute has its entry in the pending
\* map of its worker, and no entry outlives its promise.
THEOREM PromisesAreKept == Spec => []AwaitingIsPending
<1>1. IInv => AwaitingIsPending
  BY DEF IInv
<1> QED
  BY <1>1, Invariance, PTL

\* No call, agent event, cancellation or sweep changes the state or the
\* version of a finished job (DataJobV2Service.transition and complete).
THEOREM FinishedJobsStay == Spec => TerminalIsFinal
<1>1. IInv /\ [Next]_vars =>
        [\A j \in Calls : jobs[j].state \in TerminalStates =>
           /\ jobs'[j].state = jobs[j].state
           /\ jobs'[j].version = jobs[j].version]_vars
  BY NextRows DEF IInv, RowStep
<1> QED
  BY <1>1, Invariance, PTL DEF Spec, TerminalIsFinal

----------------------------------------------------------------------------
(* Results: the inductive invariant on top of IInv                         *)

\* Calls that have not sent anything, and calls that have all the rows.
Unsent == {"idle", "create", "findActive", "findCompleted", "getResult",
           "claim", "claimCAS"}
Answered == {"runRead", "runCAS", "completeRead", "completeCAS", "cachePut"}

\* A call works on a row of its own query, under the queryId of that row.
QueriesAreKept ==
  \A r \in Calls :
    /\ call[r].pc \notin {"idle", "lost"} => call[r].fp \in Fingerprints
    /\ call[r].pc \in Driving => /\ call[r].query = call[r].job
                                 /\ jobs[call[r].job].state # "ABSENT"
                                 /\ jobs[call[r].job].fp = call[r].fp
    /\ At(r, "getResult") => jobs[call[r].job].fp = call[r].fp
    /\ call[r].pc \in {"getResult", "cachePut"} =>
         jobs[call[r].job].state = "COMPLETED"
    /\ At(r, "cachePut") => call[r].fp \notin Certified

\* The n parts are answers, among those sent for, to the first n sequences of
\* job j.
Answers(sent, parts, n, j) ==
  /\ Len(parts) = n
  /\ \A i \in 1..n : /\ parts[i] \in sent
                     /\ parts[i].job = j /\ parts[i].query = j
                     /\ parts[i].seq = i

\* The sequences a query needs.
Needed(f) == IF f \in Compared THEN 2 ELSE 1

\* The rows a call holds are those of the sequences it is past.
PartsAreAnswers ==
  \A r \in Calls :
    /\ call[r].pc \in Unsent => call[r].parts = <<>>
    /\ call[r].pc \in {"execute", "awaiting"} =>
         /\ Answers(asked, call[r].parts, call[r].seq - 1, call[r].job)
         /\ call[r].seq = 2 => call[r].fp \in Compared
    /\ call[r].pc \in Answered =>
         Answers(asked, call[r].parts, Needed(call[r].fp), call[r].job)

\* A call has its answer when it is done, and a fresh cache row has a result.
AnswersAreFiled ==
  /\ \A r \in Calls : reply[r].status = "completed" => At(r, "done")
  /\ \A f \in Fingerprints : cache[f].fresh => cache[f].result # None

\* A job about to be completed is no longer DISPATCHED; the version a call
\* has read of a DISPATCHED job it is about to move to RUNNING is current.
AnsweredIsRunning ==
  \A r \in Calls :
    /\ At(r, "runCAS") /\ jobs[call[r].job].state = "DISPATCHED" =>
         call[r].seen = jobs[call[r].job].version
    /\ call[r].pc \in {"completeRead", "completeCAS"} =>
         jobs[call[r].job].state # "DISPATCHED"

AInv == /\ QueriesAreKept
        /\ PartsAreAnswers
        /\ AnswersAreFiled
        /\ AnsweredIsRunning
        /\ ResultsAnswerTheirQuery

----------------------------------------------------------------------------
(* What a step does to the table                                           *)

\* transition() and DeadlinePasses leave the query and the result of a row.
LEMMA MovedColumns ==
  ASSUME NEW row \in Rows, NEW to, NEW a, NEW code
  PROVE  /\ Moved(row, to, a, code).state = to
         /\ Moved(row, to, a, code).fp = row.fp
         /\ Moved(row, to, a, code).result = row.result
BY DEF Moved, Rows

\* createOrGet inserts the row of call r.
Inserts(r) ==
  /\ At(r, "create") /\ jobs[r].state = "ABSENT"
  /\ \A j \in Calls : ~(IsActive(j) /\ jobs[j].fp = call[r].fp)
  /\ jobs' = [jobs EXCEPT ![r] = [NoRow EXCEPT !.state = "PENDING",
                                               !.fp = call[r].fp]]

\* transition() updates row j, or its deadline passes.
Updates(j, row) ==
  /\ jobs' = [jobs EXCEPT ![j] = row]
  /\ row.fp = jobs[j].fp /\ row.result = jobs[j].result
  /\ \/ /\ row.state = jobs[j].state /\ jobs[j].state # "ABSENT"
        /\ row.version = jobs[j].version
     \/ jobs[j].state = "PENDING" /\ row.state = "DISPATCHED"
     \/ jobs[j].state = "DISPATCHED" /\ row.state = "RUNNING"
     \/ /\ jobs[j].state \in ActiveStates
        /\ row.state \in TerminalStates \ {"COMPLETED"}

\* complete() stores the result of call r.
Completes(r, row) ==
  /\ At(r, "completeCAS") /\ call[r].job \in Calls
  /\ jobs[call[r].job].state \in {"DISPATCHED", "RUNNING"}
  /\ jobs' = [jobs EXCEPT ![call[r].job] = row]
  /\ row.fp = jobs[call[r].job].fp /\ row.state = "COMPLETED"
  /\ row.result = [job |-> call[r].job, by |-> call[r].parts]

\* The sweep closes open rows and erases results.
Sweeps ==
  /\ jobs' = [j \in Calls |-> Swept(jobs[j])]
  /\ \A j \in Calls :
       /\ jobs'[j].fp = jobs[j].fp
       /\ \/ jobs'[j] = jobs[j]
          \/ /\ jobs[j].state \in ActiveStates /\ jobs'[j].state = "TIMED_OUT"
             /\ jobs'[j].result = jobs[j].result
          \/ /\ jobs[j].state \notin ActiveStates
             /\ jobs'[j].state = jobs[j].state /\ jobs'[j].result = None

TableStep ==
  \/ UNCHANGED jobs
  \/ \E r \in Calls : Inserts(r)
  \/ \E j \in Calls, row \in Rows : Updates(j, row)
  \/ \E r \in Calls, row \in Rows : Completes(r, row)
  \/ Sweeps

\* Every step changes the table in one of these ways.
LEMMA NextTable ==
  ASSUME TypeOK, CallsNameTheirJob, RowsAreInsertedOnce, [Next]_vars
  PROVE  TableStep
<1>1. ASSUME NEW r \in Calls, CallStep(r)
      PROVE  TableStep
  <2> DEFINE j == call[r].job
  <2>0. call[r].pc \in Driving => j \in Calls /\ jobs[j] \in Rows
    BY DEF CallsNameTheirJob, TypeOK
  <2>1. CASE Create(r)
    <3>1. At(r, "create") /\ jobs[r].state = "ABSENT"
      BY <2>1 DEF Create, At, RowsAreInsertedOnce
    <3>2. UNCHANGED jobs \/ Inserts(r)
      BY <2>1, <3>1 DEF Create, Inserts
    <3> QED
      BY <3>2 DEF TableStep
  <2>2. CASE ClaimCAS(r)
    <3> DEFINE row == Moved(jobs[j], "DISPATCHED", call[r].agent, None)
    <3>1. j \in Calls /\ jobs[j] \in Rows /\ call[r].agent \in Agents \cup {None}
      BY <2>0, <2>2 DEF ClaimCAS, At, Driving, TypeOK, Locals
    <3>2. /\ row \in Rows /\ row.state = "DISPATCHED"
          /\ row.fp = jobs[j].fp /\ row.result = jobs[j].result
      <4>1. row \in Rows
        BY <3>1, MovedType DEF ActiveStates
      <4> QED
        BY <3>1, <4>1, MovedColumns
    <3>3. \/ UNCHANGED jobs
          \/ jobs[j].state = "PENDING" /\ jobs' = [jobs EXCEPT ![j] = row]
      BY <2>2 DEF ClaimCAS, Matches, Allowed
    <3> HIDE DEF row
    <3>4. UNCHANGED jobs \/ Updates(j, row)
      BY <3>2, <3>3 DEF Updates
    <3> QED
      BY <3>1, <3>2, <3>4 DEF TableStep
  <2>3. CASE RunCAS(r)
    <3> DEFINE row == Moved(jobs[j], "RUNNING", None, None)
    <3>1. j \in Calls /\ jobs[j] \in Rows
      BY <2>0, <2>3 DEF RunCAS, At, Driving, Owning
    <3>2. /\ row \in Rows /\ row.state = "RUNNING"
          /\ row.fp = jobs[j].fp /\ row.result = jobs[j].result
      BY <3>1, MovedType, MovedColumns DEF ActiveStates
    <3>3. \/ UNCHANGED jobs
          \/ jobs[j].state = "DISPATCHED" /\ jobs' = [jobs EXCEPT ![j] = row]
      BY <2>3 DEF RunCAS, Matches, Allowed
    <3> HIDE DEF row
    <3>4. UNCHANGED jobs \/ Updates(j, row)
      BY <3>2, <3>3 DEF Updates
    <3> QED
      BY <3>1, <3>2, <3>4 DEF TableStep
  <2>4. CASE CompleteCAS(r)
    <3> DEFINE old == Moved(jobs[j], "COMPLETED", None, None)
               result == [job |-> j, by |-> call[r].parts]
               row == [old EXCEPT !.result = result]
    <3>1. /\ j \in Calls /\ jobs[j] \in Rows /\ At(r, "completeCAS")
          /\ call[r] \in Locals
      BY <2>0, <2>4 DEF CompleteCAS, At, Driving, Owning, TypeOK
    <3>2. old \in Rows /\ old.state = "COMPLETED" /\ old.fp = jobs[j].fp
      BY <3>1, MovedType, MovedColumns DEF TerminalStates
    <3>3. result \in Results
      BY <3>1 DEF Locals, Results
    <3>4. \/ UNCHANGED jobs
          \/ /\ jobs[j].state \in {"DISPATCHED", "RUNNING"}
             /\ jobs' = [jobs EXCEPT ![j] = row]
      BY <2>4 DEF CompleteCAS, Matches, Allowed
    <3> HIDE DEF old
    <3>5. /\ row \in Rows /\ row.state = "COMPLETED"
          /\ row.fp = jobs[j].fp /\ row.result = result
      BY <3>2, <3>3 DEF Rows
    <3> HIDE DEF row
    <3>6. UNCHANGED jobs \/ Completes(r, row)
      BY <3>1, <3>4, <3>5 DEF Completes
    <3> QED
      BY <3>5, <3>6 DEF TableStep
  <2>5. CASE FailCAS(r)
    <3> DEFINE to == IF call[r].code = "QUERY_TIMEOUT" THEN "TIMED_OUT"
                     ELSE "FAILED"
               row == Moved(jobs[j], to, None, call[r].code)
    <3>1. /\ j \in Calls /\ jobs[j] \in Rows
          /\ call[r].code \in ErrorCodes \cup {None}
      BY <2>0, <2>5 DEF FailCAS, At, Driving, TypeOK, Locals
    <3>2. to \in TerminalStates \ {"COMPLETED"}
      BY DEF TerminalStates
    <3>3. \/ UNCHANGED jobs
          \/ jobs[j].state \in ActiveStates /\ jobs' = [jobs EXCEPT ![j] = row]
      BY <2>5 DEF FailCAS, Matches, Allowed
    <3> HIDE DEF to
    <3>4. /\ row \in Rows /\ row.state = to
          /\ row.fp = jobs[j].fp /\ row.result = jobs[j].result
      <4>1. row \in Rows
        BY <3>1, <3>2, MovedType
      <4> QED
        BY <3>1, <4>1, MovedColumns
    <3> HIDE DEF row
    <3>5. UNCHANGED jobs \/ Updates(j, row)
      BY <3>2, <3>3, <3>4 DEF Updates
    <3> QED
      BY <3>1, <3>4, <3>5 DEF TableStep
  <2>6. CASE UNCHANGED jobs
    BY <2>6 DEF TableStep
  <2> QED
    BY <1>1, <2>1, <2>2, <2>3, <2>4, <2>5, <2>6
    DEF CallStep, FindActive, FindCompleted, GetResult, Claim, Execute,
        Timeout, RunRead, CompleteRead, CachePut, FailRead
<1>2. ASSUME NEW x \in writes, FinishWrite(x)
      PROVE  TableStep
  <2> DEFINE row == Moved(jobs[x.job], x.to, None, None)
  <2>1. /\ x.job \in Calls /\ x.to \in {"RUNNING", "CANCELLED"}
        /\ jobs[x.job] \in Rows
    BY DEF TypeOK, Writes
  <2>2. /\ row \in Rows /\ row.state = x.to
        /\ row.fp = jobs[x.job].fp /\ row.result = jobs[x.job].result
    BY <2>1, MovedType, MovedColumns DEF ActiveStates, TerminalStates
  <2>3. \/ UNCHANGED jobs
        \/ /\ jobs[x.job].state \in IF x.to = "RUNNING" THEN {"DISPATCHED"}
                                    ELSE ActiveStates
           /\ jobs' = [jobs EXCEPT ![x.job] = row]
    BY <1>2 DEF FinishWrite, Matches, Allowed
  <2> HIDE DEF row
  <2>4. UNCHANGED jobs \/ Updates(x.job, row)
    BY <2>1, <2>2, <2>3 DEF Updates, TerminalStates
  <2> QED
    BY <2>1, <2>2, <2>4 DEF TableStep
<1>3. ASSUME NEW j \in Calls, DeadlinePasses(j)
      PROVE  TableStep
  <2> DEFINE row == [jobs[j] EXCEPT !.due = TRUE]
  <2>1. jobs[j] \in Rows /\ jobs[j].state # "ABSENT"
    BY <1>3 DEF DeadlinePasses, TypeOK, IsActive, ActiveStates
  <2>2. /\ row \in Rows /\ row.state = jobs[j].state
        /\ row.version = jobs[j].version
        /\ row.fp = jobs[j].fp /\ row.result = jobs[j].result
    BY <2>1 DEF Rows
  <2>3. jobs' = [jobs EXCEPT ![j] = row]
    BY <1>3 DEF DeadlinePasses, TypeOK
  <2> HIDE DEF row
  <2>4. Updates(j, row)
    BY <2>1, <2>2, <2>3 DEF Updates
  <2> QED
    BY <2>2, <2>4 DEF TableStep
<1>4. CASE ExpireDueJobs
  <2>1. \A j \in Calls :
          /\ jobs'[j].fp = jobs[j].fp
          /\ \/ jobs'[j] = jobs[j]
             \/ /\ jobs[j].state \in ActiveStates
                /\ jobs'[j].state = "TIMED_OUT"
                /\ jobs'[j].result = jobs[j].result
             \/ /\ jobs[j].state \notin ActiveStates
                /\ jobs'[j].state = jobs[j].state /\ jobs'[j].result = None
    <3> TAKE j \in Calls
    <3>1. jobs'[j] = Swept(jobs[j]) /\ jobs[j] \in Rows
      BY <1>4 DEF ExpireDueJobs, TypeOK
    <3> DEFINE out == Moved(jobs[j], "TIMED_OUT", None, "QUERY_TIMEOUT")
               erased == [jobs[j] EXCEPT !.result = None]
    <3>2. /\ out.state = "TIMED_OUT"
          /\ out.fp = jobs[j].fp /\ out.result = jobs[j].result
      BY <3>1, MovedColumns
    <3>3. /\ erased.state = jobs[j].state
          /\ erased.fp = jobs[j].fp /\ erased.result = None
      BY <3>1 DEF Rows
    <3>4. \/ jobs'[j] = jobs[j]
          \/ jobs[j].state \in ActiveStates /\ jobs'[j] = out
          \/ jobs[j].state \notin ActiveStates /\ jobs'[j] = erased
      BY <3>1 DEF Swept
    <3> HIDE DEF out, erased
    <3> QED
      BY <3>2, <3>3, <3>4
  <2>2. Sweeps
    BY <1>4, <2>1 DEF ExpireDueJobs, Sweeps
  <2> QED
    BY <2>2 DEF TableStep
<1>5. CASE UNCHANGED jobs
  BY <1>5 DEF TableStep
<1> QED
  BY <1>1, <1>2, <1>3, <1>4, <1>5
  DEF Next, vars, Query, SocketStep, Connect, HandleConnection,
      HandleAgentHelloV2, HandleDisconnect, HandleQueryAcknowledgedV2,
      HandleQueryResultV2, Restart, CancelJob, CacheExpires, PurgeExpired

\* A row keeps its query; a COMPLETED row stays so; a row becomes DISPATCHED
\* only from PENDING; a result is erased, kept, or stored by the call that
\* completes the job.
RowKeeps(j) ==
  /\ jobs[j].state # "ABSENT" => /\ jobs'[j].state # "ABSENT"
                                 /\ jobs'[j].fp = jobs[j].fp
  /\ jobs[j].state = "COMPLETED" => jobs'[j].state = "COMPLETED"
  /\ jobs'[j].state = "DISPATCHED" =>
       \/ jobs[j].state = "PENDING"
       \/ /\ jobs[j].state = "DISPATCHED"
          /\ jobs'[j].version = jobs[j].version
  /\ \/ jobs'[j].result = None
     \/ jobs'[j].result = jobs[j].result /\ jobs'[j].fp = jobs[j].fp
     \/ \E r \in Calls :
          /\ At(r, "completeCAS") /\ call[r].job = j
          /\ jobs'[j].state = "COMPLETED" /\ jobs'[j].fp = jobs[j].fp
          /\ jobs'[j].result = [job |-> j, by |-> call[r].parts]

\* A step of the table keeps each row's query, and its result once it has one.
LEMMA TableKeeps ==
  ASSUME TypeOK, TableStep
  PROVE  \A j \in Calls : RowKeeps(j)
<1> TAKE j \in Calls
<1>0. jobs \in [Calls -> Rows]
  BY DEF TypeOK
<1>1. CASE UNCHANGED jobs
  BY <1>1 DEF RowKeeps
<1>2. ASSUME NEW r \in Calls, Inserts(r)
      PROVE  RowKeeps(j)
  <2> DEFINE row == [NoRow EXCEPT !.state = "PENDING", !.fp = call[r].fp]
  <2>1. row.result = None /\ row.state = "PENDING"
    BY DEF NoRow
  <2>2. jobs[r].state = "ABSENT" /\ jobs' = [jobs EXCEPT ![r] = row]
    BY <1>2 DEF Inserts
  <2> HIDE DEF row
  <2> QED
    BY <1>0, <2>1, <2>2 DEF RowKeeps
<1>3. ASSUME NEW i \in Calls, NEW row \in Rows, Updates(i, row)
      PROVE  RowKeeps(j)
  BY <1>0, <1>3 DEF Updates, RowKeeps, ActiveStates, TerminalStates
<1>4. ASSUME NEW r \in Calls, NEW row \in Rows, Completes(r, row)
      PROVE  RowKeeps(j)
  BY <1>0, <1>4 DEF Completes, RowKeeps
<1>5. CASE Sweeps
  BY <1>5 DEF Sweeps, RowKeeps, ActiveStates
<1> QED
  BY <1>1, <1>2, <1>3, <1>4, <1>5 DEF TableStep

----------------------------------------------------------------------------
(* What a step does to the query and the rows of a call                    *)

SameQuery(r) == call'[r].fp = call[r].fp /\ call'[r].parts = call[r].parts

\* Call r goes on with a row of its query.
Adopts(r) ==
  /\ SameQuery(r) /\ call'[r].job \in Calls /\ call'[r].query = call'[r].job
  /\ jobs'[call'[r].job].state # "ABSENT"
  /\ jobs'[call'[r].job].fp = call[r].fp

\* Call r receives the rows of the sequence it waits for.
Receives(r, m) ==
  /\ At(r, "awaiting") /\ SameJob(r) /\ call'[r].fp = call[r].fp
  /\ m \in asked /\ m.job = call[r].job /\ m.query = call[r].query
  /\ m.seq = call[r].seq
  /\ \/ /\ At(r, "execute")' /\ call[r].seq = 1 /\ call'[r].seq = 2
        /\ call[r].fp \in Compared /\ call'[r].parts = <<m>>
     \/ /\ At(r, "runRead")'
        /\ call[r].seq = 2 \/ call[r].fp \notin Compared
        /\ call'[r].parts = Append(call[r].parts, m)

\* Call r starts, looks for a row of its query, takes one to work on, or finds
\* a finished one.
Starts(r) ==
  /\ At(r, "idle") /\ At(r, "create")'
  /\ call'[r].fp \in Fingerprints /\ call'[r].parts = call[r].parts

Looks(r) ==
  /\ call[r].pc \in {"create", "findActive"} /\ SameQuery(r)
  /\ call'[r].pc \in {"findActive", "findCompleted"}

Takes(r) ==
  call[r].pc \in {"create", "findActive"} /\ At(r, "claim")' /\ Adopts(r)

Finds(r) ==
  /\ At(r, "findCompleted") /\ At(r, "getResult")'
  /\ SameQuery(r) /\ call'[r].job \in Calls
  /\ jobs'[call'[r].job].state = "COMPLETED"
  /\ jobs'[call'[r].job].fp = call[r].fp

\* Call r goes on with its row and its parts.
Proceeds(r) ==
  /\ SameJob(r) /\ SameQuery(r)
  /\ \/ At(r, "claim") /\ At(r, "claimCAS")'
     \/ At(r, "claimCAS") /\ At(r, "execute")' /\ call'[r].seq = 1
     \/ /\ At(r, "execute") /\ At(r, "awaiting")'
        /\ call'[r].seq = call[r].seq
     \/ /\ call[r].pc \in Answered \ {"cachePut"}
        /\ call'[r].pc \in Answered \ {"cachePut"}

\* Call r has completed its job and is to fill the cache.
Stores(r) ==
  /\ At(r, "completeCAS") /\ At(r, "cachePut")' /\ SameJob(r) /\ SameQuery(r)
  /\ call[r].fp \notin Certified /\ jobs'[call[r].job].state = "COMPLETED"

Fails(r) ==
  /\ call[r].pc \in Driving /\ SameJob(r) /\ call'[r].fp = call[r].fp
  /\ call'[r].pc \in {"failRead", "failCAS"}

Ends(r) ==
  \/ At(r, "lost")'
  \/ /\ At(r, "done")' /\ ~At(r, "done")
     /\ \/ call'[r].fp \in Fingerprints
        \/ call'[r].fp = call[r].fp /\ call[r].pc \notin {"idle", "lost"}

DataMove(r) ==
  \/ call'[r] = call[r]
  \/ Starts(r) \/ Looks(r) \/ Takes(r) \/ Finds(r) \/ Proceeds(r)
  \/ \E m \in asked : Receives(r, m)
  \/ Stores(r) \/ Fails(r) \/ Ends(r)

\* An exception keeps the row of its call.
LEMMA CaughtData ==
  ASSUME NEW r \in Calls, call[r] \in Locals, NEW code,
         call'[r] = Caught(call[r], code), call[r].pc \in Driving
  PROVE  DataMove(r)
<1>1. At(r, "failRead")' /\ SameJob(r) /\ call'[r].fp = call[r].fp
  BY DEF Caught, Locals, SameJob, At
<1> QED
  BY <1>1 DEF DataMove, Fails, At

\* A return keeps the query of its call.
LEMMA ReturnData ==
  ASSUME TypeOK, NEW r \in Calls, NEW status, NEW result,
         call[r].pc \notin {"idle", "done", "lost"},
         Return(r, status, result)
  PROVE  DataMove(r) /\ At(r, "done")' /\ call'[r].fp = call[r].fp
<1>1. At(r, "done")' /\ call'[r].fp = call[r].fp
  BY DEF Return, Goes, TypeOK, NoCall, At
<1> QED
  BY <1>1 DEF DataMove, Ends, At

\* Each step of a call treats its query and its rows in one of these ways.
LEMMA OwnData ==
  ASSUME TypeOK, CallsNameTheirJob, NEW r \in Calls, CallStep(r)
  PROVE  DataMove(r)
<1> DEFINE j == call[r].job
<1>0. call[r] \in Locals /\ jobs \in [Calls -> Rows]
  BY DEF TypeOK
<1>a. \A l : Goes(r, l) => call'[r] = l
  BY DEF Goes, TypeOK
<1>b. ASSUME NEW code, Throw(r, code), call[r].pc \in Driving
      PROVE  DataMove(r)
  BY <1>0, <1>a, <1>b, CaughtData DEF Throw
<1>c. call[r].pc \notin {"idle", "done", "lost"}
  BY DEF CallStep, Create, FindActive, FindCompleted, GetResult, Claim,
         ClaimCAS, Execute, Timeout, RunRead, RunCAS, CompleteRead,
         CompleteCAS, CachePut, FailRead, FailCAS, At
<1>d. ASSUME NEW status, NEW result, Return(r, status, result)
      PROVE  DataMove(r)
  BY <1>c, <1>d, ReturnData
<1>1. CASE Create(r)
  <2>1. call[r].pc = "create"
    BY <1>1 DEF Create, At
  <2>2. CASE call'[r] = [call[r] EXCEPT !.pc = "findActive"]
    <3>1. SameQuery(r) /\ call'[r].pc = "findActive"
      BY <1>0, <2>2 DEF Locals, SameQuery
    <3> QED
      BY <2>1, <3>1 DEF DataMove, Looks
  <2>3. CASE /\ call'[r] = [call[r] EXCEPT !.pc = "claim", !.job = r,
                                           !.query = r]
             /\ jobs' = [jobs EXCEPT ![r] = [NoRow EXCEPT !.state = "PENDING",
                                               !.fp = call[r].fp]]
    <3>1. SameQuery(r) /\ At(r, "claim")' /\ call'[r].job = r
          /\ call'[r].query = r
      BY <1>0, <2>3 DEF Locals, SameQuery, At
    <3>2. jobs'[r].state = "PENDING" /\ jobs'[r].fp = call[r].fp
      BY <1>0, <2>3 DEF NoRow
    <3> QED
      BY <2>1, <3>1, <3>2 DEF DataMove, Takes, Adopts
  <2> QED
    BY <1>1, <1>a, <2>2, <2>3 DEF Create
<1>2. CASE FindActive(r)
  <2>1. call[r].pc = "findActive" /\ jobs' = jobs
    BY <1>2 DEF FindActive, At
  <2>2. CASE call'[r] = [call[r] EXCEPT !.pc = "findCompleted"]
    <3>1. SameQuery(r) /\ call'[r].pc = "findCompleted"
      BY <1>0, <2>2 DEF Locals, SameQuery
    <3> QED
      BY <2>1, <3>1 DEF DataMove, Looks
  <2>3. ASSUME NEW i \in Calls, IsActive(i), jobs[i].fp = call[r].fp,
               call'[r] = [call[r] EXCEPT !.pc = "claim", !.job = i,
                                          !.query = i]
        PROVE  DataMove(r)
    <3>1. SameQuery(r) /\ At(r, "claim")' /\ call'[r].job = i
          /\ call'[r].query = i
      BY <1>0, <2>3 DEF Locals, SameQuery, At
    <3>2. Adopts(r)
      BY <2>1, <2>3, <3>1 DEF Adopts, IsActive, ActiveStates
    <3> QED
      BY <2>1, <3>1, <3>2 DEF DataMove, Takes
  <2> QED
    BY <1>2, <1>a, <1>d, <2>2, <2>3 DEF FindActive
<1>3. CASE FindCompleted(r)
  <2>1. At(r, "findCompleted") /\ jobs' = jobs
    BY <1>3 DEF FindCompleted
  <2>2. ASSUME NEW i \in Calls, jobs[i].state = "COMPLETED",
               jobs[i].fp = call[r].fp,
               call'[r] = [call[r] EXCEPT !.pc = "getResult", !.job = i]
        PROVE  DataMove(r)
    <3>1. SameQuery(r) /\ At(r, "getResult")' /\ call'[r].job = i
      BY <1>0, <2>2 DEF Locals, SameQuery, At
    <3> QED
      BY <2>1, <2>2, <3>1 DEF DataMove, Finds
  <2> QED
    BY <1>3, <1>a, <1>d, <2>2 DEF FindCompleted
<1>4. CASE GetResult(r)
  BY <1>4, <1>d DEF GetResult
<1>5. CASE Claim(r)
  <2>1. call[r].pc \in Driving /\ At(r, "claim")
    BY <1>5 DEF Claim, At, Driving
  <2>2. ASSUME NEW a, NEW v,
               Goes(r, [call[r] EXCEPT !.pc = "claimCAS", !.agent = a,
                                       !.seen = v])
        PROVE  DataMove(r)
    <3>1. At(r, "claimCAS")' /\ SameJob(r) /\ SameQuery(r)
      BY <1>0, <1>a, <2>2 DEF Locals, SameJob, SameQuery, At
    <3> QED
      BY <2>1, <3>1 DEF DataMove, Proceeds
  <2> QED
    BY <1>5, <1>b, <1>d, <2>1, <2>2 DEF Claim
<1>6. CASE ClaimCAS(r)
  <2>1. At(r, "claimCAS")
    BY <1>6 DEF ClaimCAS
  <2>2. CASE Goes(r, [call[r] EXCEPT !.pc = "execute", !.seq = 1,
                                     !.agent = None, !.seen = 0])
    <3>1. At(r, "execute")' /\ SameJob(r) /\ SameQuery(r) /\ call'[r].seq = 1
      BY <1>0, <1>a, <2>2 DEF Locals, SameJob, SameQuery, At
    <3> QED
      BY <2>1, <3>1 DEF DataMove, Proceeds
  <2> QED
    BY <1>6, <1>d, <2>2 DEF ClaimCAS
<1>7. CASE Execute(r)
  <2>1. call[r].pc \in Driving /\ At(r, "execute")
    BY <1>7 DEF Execute, At, Driving, Owning
  <2>2. CASE Goes(r, [call[r] EXCEPT !.pc = "awaiting"])
    <3>1. At(r, "awaiting")' /\ SameJob(r) /\ SameQuery(r)
          /\ call'[r].seq = call[r].seq
      BY <1>0, <1>a, <2>2 DEF Locals, SameJob, SameQuery, At
    <3> QED
      BY <2>1, <3>1 DEF DataMove, Proceeds
  <2> QED
    BY <1>7, <1>b, <2>1, <2>2 DEF Execute
<1>8. CASE Timeout(r)
  BY <1>8, <1>b DEF Timeout, At, Driving, Owning
<1>9. ASSUME call[r].pc \in {"runRead", "runCAS", "completeRead"},
             NEW to \in {"runCAS", "completeRead", "completeCAS"}, NEW v,
             \/ Goes(r, [call[r] EXCEPT !.pc = to, !.seen = v])
             \/ Goes(r, [call[r] EXCEPT !.pc = to])
      PROVE  DataMove(r)
  <2>1. call'[r].pc = to /\ SameJob(r) /\ SameQuery(r)
    BY <1>0, <1>a, <1>9 DEF Locals, SameJob, SameQuery
  <2> QED
    BY <1>9, <2>1 DEF DataMove, Proceeds, Answered
<1>10. CASE RunRead(r)
  BY <1>9, <1>10 DEF RunRead, At
<1>11. CASE RunCAS(r)
  BY <1>9, <1>11 DEF RunCAS, At
<1>12. CASE CompleteRead(r)
  <2>1. call[r].pc \in Driving /\ call[r].pc = "completeRead"
    BY <1>12 DEF CompleteRead, At, Driving, Owning
  <2> QED
    BY <1>9, <1>12, <1>b, <1>d, <2>1 DEF CompleteRead
<1>13. CASE CompleteCAS(r)
  <2>1. At(r, "completeCAS") /\ j \in Calls
    BY <1>13 DEF CompleteCAS, CallsNameTheirJob, At, Driving, Owning
  <2>2. CASE /\ Goes(r, [call[r] EXCEPT !.pc = "cachePut", !.seen = 0])
             /\ call[r].fp \notin Certified
             /\ jobs' = [jobs EXCEPT ![j] =
                     [Moved(jobs[j], "COMPLETED", None, None)
                        EXCEPT !.result = [job |-> j, by |-> call[r].parts]]]
    <3>1. At(r, "cachePut")' /\ SameJob(r) /\ SameQuery(r)
      BY <1>0, <1>a, <2>2 DEF Locals, SameJob, SameQuery, At
    <3>2. /\ Moved(jobs[j], "COMPLETED", None, None) \in Rows
          /\ Moved(jobs[j], "COMPLETED", None, None).state = "COMPLETED"
      <4>1. /\ jobs[j] \in Rows /\ None \in Agents \cup {None}
            /\ None \in ErrorCodes \cup {None}
            /\ "COMPLETED" \in ActiveStates \cup TerminalStates
        BY <1>0, <2>1 DEF TerminalStates
      <4>2. Moved(jobs[j], "COMPLETED", None, None) \in Rows
        BY <4>1, MovedType
      <4> QED
        BY <4>1, <4>2, MovedColumns
    <3>3. jobs'[j].state = "COMPLETED"
      BY <1>0, <2>1, <2>2, <3>2 DEF Rows
    <3> QED
      BY <2>1, <2>2, <3>1, <3>3 DEF DataMove, Stores
  <2> QED
    BY <1>13, <1>d, <2>2 DEF CompleteCAS
<1>14. CASE CachePut(r)
  BY <1>14, <1>d DEF CachePut
<1>15. CASE FailRead(r)
  <2>1. call[r].pc \in Driving
    BY <1>15 DEF FailRead, At, Driving
  <2>2. CASE Goes(r, [call[r] EXCEPT !.pc = "failCAS",
                                     !.seen = jobs[j].version])
    <3>1. At(r, "failCAS")' /\ SameJob(r) /\ call'[r].fp = call[r].fp
      BY <1>0, <1>a, <2>2 DEF Locals, SameJob, At
    <3> QED
      BY <2>1, <3>1 DEF DataMove, Fails, At
  <2> QED
    BY <1>15, <1>d, <2>2 DEF FailRead
<1>16. CASE FailCAS(r)
  BY <1>16, <1>d DEF FailCAS
<1> QED
  BY <1>1, <1>2, <1>3, <1>4, <1>5, <1>6, <1>7, <1>8, <1>10, <1>11,
     <1>12, <1>13, <1>14, <1>15, <1>16 DEF CallStep

\* query_result_v2 gives the call its rows, or makes it throw.
LEMMA ResultData ==
  ASSUME TypeOK, AwaitingIsPending, NEW s \in Sockets, NEW m \in asked,
         HandleQueryResultV2(s, m)
  PROVE  \A q \in Calls : DataMove(q)
<1> DEFINE w == SockHome[s]
<1>1. PICK r \in Calls :
        /\ r = pending[w][m.job].owner
        /\ m.job \in Calls /\ At(r, "awaiting") /\ call[r].job = m.job
        /\ HomeOf[r] = w
        /\ \A q \in Calls \ {r} : call'[q] = call[q]
  BY ResultMove
<1>2. m.query = call[r].query /\ m.seq = call[r].seq
  <2>1. /\ pending[w][m.job].query = m.query
        /\ pending[w][m.job].seq = m.seq
    BY DEF HandleQueryResultV2, IsPending
  <2> QED
    BY <1>1, <2>1 DEF AwaitingIsPending
<1>3. call[r] \in Locals /\ call[r].pc \in Driving
  BY <1>1 DEF TypeOK, At, Driving, Owning
<1>4. \A l : Goes(r, l) => call'[r] = l
  BY <1>1 DEF Goes, TypeOK
<1>5. ASSUME NEW code, Throw(r, code)
      PROVE  DataMove(r)
  BY <1>1, <1>3, <1>4, <1>5, CaughtData DEF Throw
<1>6. ASSUME m.seq = 1, call[r].fp \in Compared,
             Goes(r, [call[r] EXCEPT !.pc = "execute", !.seq = 2,
                                     !.parts = <<m>>])
      PROVE  DataMove(r)
  <2>1. call'[r] = [call[r] EXCEPT !.pc = "execute", !.seq = 2, !.parts = <<m>>]
    BY <1>4, <1>6
  <2>2. /\ At(r, "execute")' /\ SameJob(r) /\ call'[r].fp = call[r].fp
        /\ call'[r].seq = 2 /\ call'[r].parts = <<m>>
    BY <1>3, <2>1 DEF Locals, SameJob, At
  <2>3. Receives(r, m)
    BY <1>1, <1>2, <1>6, <2>2 DEF Receives
  <2> QED
    BY <2>3 DEF DataMove
<1>7. ASSUME m.seq = 2 \/ call[r].fp \notin Compared,
             Goes(r, [call[r] EXCEPT !.pc = "runRead", !.seq = 0,
                                     !.parts = Append(call[r].parts, m)])
      PROVE  DataMove(r)
  <2> DEFINE p == Append(call[r].parts, m)
  <2>1. call'[r] = [call[r] EXCEPT !.pc = "runRead", !.seq = 0, !.parts = p]
    BY <1>4, <1>7
  <2> HIDE DEF p
  <2>2. /\ At(r, "runRead")' /\ SameJob(r) /\ call'[r].fp = call[r].fp
        /\ call'[r].parts = p
    BY <1>3, <2>1 DEF Locals, SameJob, At
  <2>3. Receives(r, m)
    BY <1>1, <1>2, <1>7, <2>2 DEF Receives, p
  <2> QED
    BY <2>3 DEF DataMove
<1>8. DataMove(r)
  <2>1. \/ \E code : Throw(r, code)
        \/ /\ m.seq = 1 /\ call[r].fp \in Compared
           /\ Goes(r, [call[r] EXCEPT !.pc = "execute", !.seq = 2,
                                      !.parts = <<m>>])
        \/ /\ m.seq = 2 \/ call[r].fp \notin Compared
           /\ Goes(r, [call[r] EXCEPT !.pc = "runRead", !.seq = 0,
                                      !.parts = Append(call[r].parts, m)])
    BY <1>1 DEF HandleQueryResultV2
  <2> QED
    BY <1>5, <1>6, <1>7, <2>1
<1>9. \A q \in Calls : call'[q] = call[q] => DataMove(q)
  BY DEF DataMove
<1> QED
  BY <1>1, <1>8, <1>9

\* Every step treats the query and the rows of every call in one of these
\* ways, and no query sent is forgotten.
LEMMA NextData ==
  ASSUME TypeOK, CallsNameTheirJob, AwaitingIsPending, [Next]_vars
  PROVE  (\A q \in Calls : DataMove(q)) /\ asked \subseteq asked'
<1>0. \A q \in Calls : call'[q] = call[q] => DataMove(q)
  BY DEF DataMove
<1>1. ASSUME NEW r \in Calls, CallStep(r)
      PROVE  \A q \in Calls : DataMove(q)
  BY <1>0, <1>1, OwnData, OthersStay
<1>2. ASSUME NEW r \in Calls, NEW f \in Fingerprints, Query(r, f)
      PROVE  \A q \in Calls : DataMove(q)
  <2>1. \A q \in Calls \ {r} : call'[q] = call[q]
    BY <1>2 DEF Query, Goes, TypeOK
  <2>2. call[r] \in Locals /\ At(r, "idle")
    BY <1>2 DEF TypeOK, Query
  <2>3. \/ call'[r] = [call[r] EXCEPT !.pc = "done", !.fp = f]
        \/ call'[r] = [call[r] EXCEPT !.pc = "create", !.fp = f]
    BY <1>2 DEF Query, Goes, TypeOK
  <2>4. /\ call'[r].fp = f /\ call'[r].parts = call[r].parts
        /\ At(r, "done")' \/ At(r, "create")'
    BY <2>2, <2>3 DEF Locals, At
  <2>5. DataMove(r)
    BY <2>2, <2>4 DEF DataMove, Starts, Ends, At
  <2> QED
    BY <1>0, <2>1, <2>5
<1>3. ASSUME NEW s \in Sockets, HandleDisconnect(s)
      PROVE  \A q \in Calls : DataMove(q)
  <2> TAKE q \in Calls
  <2> DEFINE w == SockHome[s]
             gone == Dropped(w, AgentOf[s])
  <2>0. call[q] \in Locals /\ w \in Workers
    BY DataJobAssumption DEF TypeOK
  <2>1. CASE call'[q] = call[q]
    BY <1>0, <2>1
  <2>2. CASE /\ \E j \in gone : pending[w][j].owner = q
             /\ call'[q] = Caught(call[q], "AGENT_OFFLINE")
    <3>1. At(q, "awaiting")
      BY <2>0, <2>2 DEF Dropped, AwaitingIsPending
    <3>2. call[q].pc \in Driving
      BY <3>1 DEF At, Driving, Owning
    <3> QED
      BY <2>0, <2>2, <3>2, CaughtData
  <2> QED
    BY <1>3, <2>1, <2>2 DEF HandleDisconnect
<1>4. ASSUME NEW w \in Workers, Restart(w)
      PROVE  \A q \in Calls : DataMove(q)
  <2> TAKE q \in Calls
  <2>1. call'[q] = call[q] \/ call'[q] = [NoCall EXCEPT !.pc = "lost"]
    BY <1>4 DEF Restart
  <2> QED
    BY <1>0, <2>1 DEF NoCall, DataMove, Ends, At
<1>5. ASSUME UNCHANGED call
      PROVE  \A q \in Calls : DataMove(q)
  BY <1>0, <1>5
<1>6. \A q \in Calls : DataMove(q)
  <2>1. ASSUME NEW s \in Sockets, SocketStep(s)
        PROVE  \A q \in Calls : DataMove(q)
    BY <1>3, <1>5, <2>1, ResultData
    DEF SocketStep, Connect, HandleConnection, HandleAgentHelloV2,
        HandleQueryAcknowledgedV2
  <2>2. ASSUME \/ \E w \in Workers, j \in Calls : CancelJob(w, j)
               \/ \E x \in writes : FinishWrite(x)
               \/ \E j \in Calls : DeadlinePasses(j)
               \/ ExpireDueJobs \/ PurgeExpired
               \/ \E f \in Fingerprints : CacheExpires(f)
        PROVE  UNCHANGED call
    BY <2>2 DEF CancelJob, FinishWrite, DeadlinePasses, ExpireDueJobs,
                CacheExpires, PurgeExpired
  <2>3. CASE Next
    BY <1>1, <1>2, <1>4, <1>5, <2>1, <2>2, <2>3 DEF Next
  <2>4. CASE UNCHANGED vars
    BY <1>5, <2>4 DEF vars
  <2> QED
    BY <2>3, <2>4
<1>7. asked \subseteq asked'
  <2>1. ASSUME NEW r \in Calls, CallStep(r)
        PROVE  asked \subseteq asked'
    BY <2>1
    DEF CallStep, Create, FindActive, FindCompleted, GetResult, Claim,
        ClaimCAS, Execute, Timeout, RunRead, RunCAS, CompleteRead,
        CompleteCAS, CachePut, FailRead, FailCAS
  <2>2. ASSUME NEW s \in Sockets, SocketStep(s)
        PROVE  asked \subseteq asked'
    BY <2>2
    DEF SocketStep, Connect, HandleConnection, HandleAgentHelloV2,
        HandleDisconnect, HandleQueryAcknowledgedV2, HandleQueryResultV2
  <2> QED
    BY <2>1, <2>2
    DEF Next, vars, Query, Restart, CancelJob, FinishWrite, DeadlinePasses,
        ExpireDueJobs, CacheExpires, PurgeExpired
<1> QED
  BY <1>6, <1>7

\* The queries and the rows of the calls stay those of their jobs.
LEMMA NextQueries ==
  ASSUME TypeOK, TypeOK', CallsNameTheirJob, QueriesAreKept,
         \A q \in Calls : DataMove(q), \A j \in Calls : RowKeeps(j)
  PROVE  QueriesAreKept'
<1> SUFFICES ASSUME NEW r \in Calls
             PROVE
    /\ call'[r].pc \notin {"idle", "lost"} => call'[r].fp \in Fingerprints
    /\ call'[r].pc \in Driving => /\ call'[r].query = call'[r].job
                                  /\ jobs'[call'[r].job].state # "ABSENT"
                                  /\ jobs'[call'[r].job].fp = call'[r].fp
    /\ call'[r].pc = "getResult" => jobs'[call'[r].job].fp = call'[r].fp
    /\ call'[r].pc \in {"getResult", "cachePut"} =>
         jobs'[call'[r].job].state = "COMPLETED"
    /\ call'[r].pc = "cachePut" => call'[r].fp \notin Certified
  BY DEF QueriesAreKept, At
<1> DEFINE Goal ==
    /\ call'[r].pc \notin {"idle", "lost"} => call'[r].fp \in Fingerprints
    /\ call'[r].pc \in Driving => /\ call'[r].query = call'[r].job
                                  /\ jobs'[call'[r].job].state # "ABSENT"
                                  /\ jobs'[call'[r].job].fp = call'[r].fp
    /\ call'[r].pc = "getResult" => jobs'[call'[r].job].fp = call'[r].fp
    /\ call'[r].pc \in {"getResult", "cachePut"} =>
         jobs'[call'[r].job].state = "COMPLETED"
    /\ call'[r].pc = "cachePut" => call'[r].fp \notin Certified
<1> USE DEF Driving, Owning, At
<1>1. ASSUME call[r].pc \in Driving \cup {"getResult"}
      PROVE  /\ call[r].job \in Calls
             /\ jobs'[call[r].job].state # "ABSENT"
             /\ jobs'[call[r].job].fp = call[r].fp
             /\ call[r].pc \in {"getResult", "cachePut"} =>
                  jobs'[call[r].job].state = "COMPLETED"
  <2>1. call[r].job \in Calls
    BY <1>1 DEF CallsNameTheirJob
  <2>2. RowKeeps(call[r].job)
    BY <2>1
  <2> QED
    BY <1>1, <2>1, <2>2 DEF QueriesAreKept, RowKeeps
<1>2. /\ call[r].pc \notin {"idle", "lost"} => call[r].fp \in Fingerprints
      /\ call[r].pc \in Driving => call[r].query = call[r].job
      /\ call[r].pc = "cachePut" => call[r].fp \notin Certified
  BY DEF QueriesAreKept
<1>3. CASE call'[r] = call[r]
  BY <1>1, <1>2, <1>3
<1>4. CASE Starts(r) \/ Looks(r)
  BY <1>2, <1>4 DEF Starts, Looks, SameQuery
<1>5. CASE Takes(r)
  BY <1>2, <1>5 DEF Takes, Adopts, SameQuery
<1>6. CASE Finds(r)
  BY <1>2, <1>6 DEF Finds, SameQuery
<1>7. CASE Proceeds(r)
  BY <1>1, <1>2, <1>7 DEF Proceeds, SameJob, SameQuery, Answered
<1>8. ASSUME NEW m \in asked, Receives(r, m)
      PROVE  Goal
  BY <1>1, <1>2, <1>8 DEF Receives, SameJob
<1>9. CASE Stores(r)
  BY <1>1, <1>2, <1>9 DEF Stores, SameJob, SameQuery
<1>10. CASE Fails(r)
  BY <1>1, <1>2, <1>10 DEF Fails, SameJob
<1>11. CASE Ends(r)
  BY <1>2, <1>11 DEF Ends
<1> QED
  BY <1>3, <1>4, <1>5, <1>6, <1>7, <1>8, <1>9, <1>10, <1>11 DEF DataMove

----------------------------------------------------------------------------
(* The rows a call holds                                                   *)

\* Answers stay answers when more is sent.
LEMMA AnswersStay ==
  ASSUME NEW S, NEW T, S \subseteq T, NEW parts, NEW n, NEW j,
         Answers(S, parts, n, j)
  PROVE  Answers(T, parts, n, j)
BY DEF Answers

\* The next answer continues the parts.
LEMMA AnswersGrow ==
  ASSUME NEW S, NEW parts \in Seq(Messages), NEW n \in Nat, NEW j,
         Answers(S, parts, n, j), NEW m \in S, m \in Messages,
         m.job = j, m.query = j, m.seq = n + 1
  PROVE  Answers(S, Append(parts, m), n + 1, j)
<1>1. /\ Len(parts) = n /\ Len(Append(parts, m)) = n + 1
      /\ Append(parts, m)[n + 1] = m
      /\ \A i \in 1..n : Append(parts, m)[i] = parts[i]
  BY DEF Answers
<1>2. \A i \in 1..(n + 1) : i \in 1..n \/ i = n + 1
  OBVIOUS
<1> HIDE DEF Messages
<1> QED
  BY <1>1, <1>2 DEF Answers

\* Nothing received answers nothing.
LEMMA NoAnswers == \A S, j : Answers(S, <<>>, 0, j)
BY DEF Answers

\* Every step keeps the rows of a call those of the sequences it is past.
LEMMA NextParts ==
  ASSUME TypeOK, CallsNameTheirJob, QueriesAreKept, PartsAreAnswers,
         \A q \in Calls : DataMove(q), asked \subseteq asked'
  PROVE  PartsAreAnswers'
<1> SUFFICES ASSUME NEW r \in Calls
             PROVE
    /\ call'[r].pc \in Unsent => call'[r].parts = <<>>
    /\ call'[r].pc \in {"execute", "awaiting"} =>
         /\ Answers(asked', call'[r].parts, call'[r].seq - 1, call'[r].job)
         /\ call'[r].seq = 2 => call'[r].fp \in Compared
    /\ call'[r].pc \in Answered =>
         Answers(asked', call'[r].parts, Needed(call'[r].fp), call'[r].job)
  BY DEF PartsAreAnswers
<1> DEFINE Goal ==
    /\ call'[r].pc \in Unsent => call'[r].parts = <<>>
    /\ call'[r].pc \in {"execute", "awaiting"} =>
         /\ Answers(asked', call'[r].parts, call'[r].seq - 1, call'[r].job)
         /\ call'[r].seq = 2 => call'[r].fp \in Compared
    /\ call'[r].pc \in Answered =>
         Answers(asked', call'[r].parts, Needed(call'[r].fp), call'[r].job)
<1> USE DEF Unsent, Answered, At
<1>1. /\ call[r].pc \in Unsent => call[r].parts = <<>>
      /\ call[r].pc \in {"execute", "awaiting"} =>
           /\ Answers(asked, call[r].parts, call[r].seq - 1, call[r].job)
           /\ call[r].seq = 2 => call[r].fp \in Compared
           /\ call[r].seq \in {1, 2}
      /\ call[r].pc \in Answered =>
           Answers(asked, call[r].parts, Needed(call[r].fp), call[r].job)
  BY DEF PartsAreAnswers, CallsNameTheirJob
<1>2. \A p, n, j : Answers(asked, p, n, j) => Answers(asked', p, n, j)
  BY AnswersStay
<1>3. CASE call'[r] = call[r]
  BY <1>1, <1>2, <1>3
<1>4. CASE Starts(r) \/ Looks(r) \/ Takes(r) \/ Finds(r)
  BY <1>1, <1>4 DEF Starts, Looks, Takes, Adopts, Finds, SameQuery
<1>5. CASE Proceeds(r)
  <2>1. CASE At(r, "claim") /\ At(r, "claimCAS")'
    BY <1>1, <1>5, <2>1 DEF Proceeds, SameQuery
  <2>2. CASE At(r, "claimCAS") /\ At(r, "execute")' /\ call'[r].seq = 1
    BY <1>1, <1>5, <2>2, NoAnswers DEF Proceeds, SameQuery
  <2>3. CASE /\ At(r, "execute") /\ At(r, "awaiting")'
             /\ call'[r].seq = call[r].seq
    BY <1>1, <1>2, <1>5, <2>3 DEF Proceeds, SameQuery, SameJob
  <2>4. CASE /\ call[r].pc \in Answered \ {"cachePut"}
             /\ call'[r].pc \in Answered \ {"cachePut"}
    BY <1>1, <1>2, <1>5, <2>4 DEF Proceeds, SameQuery, SameJob
  <2> QED
    BY <1>5, <2>1, <2>2, <2>3, <2>4 DEF Proceeds
<1>6. ASSUME NEW m \in asked, Receives(r, m)
      PROVE  Goal
  <2>1. /\ At(r, "awaiting") /\ m.job = call[r].job /\ m.seq = call[r].seq
        /\ call'[r].job = call[r].job /\ call'[r].fp = call[r].fp
    BY <1>6 DEF Receives, SameJob
  <2>2. m.query = call[r].job
    BY <1>6 DEF Receives, QueriesAreKept, Driving, Owning
  <2>3. m \in Messages /\ call[r].parts \in Seq(Messages)
    BY DEF TypeOK, Locals
  <2>4. CASE /\ At(r, "execute")' /\ call[r].seq = 1 /\ call'[r].seq = 2
             /\ call[r].fp \in Compared /\ call'[r].parts = <<m>>
    <3>1. Answers(asked, <<m>>, 1, call[r].job)
      BY <2>1, <2>2, <2>4 DEF Answers
    <3> QED
      BY <1>2, <2>1, <2>4, <3>1
  <2>5. CASE /\ At(r, "runRead")'
             /\ call[r].seq = 2 \/ call[r].fp \notin Compared
             /\ call'[r].parts = Append(call[r].parts, m)
    <3> DEFINE n == call[r].seq - 1
    <3>1. n \in Nat /\ call[r].seq = n + 1 /\ Needed(call[r].fp) = n + 1
      BY <1>1, <2>1, <2>5 DEF Needed
    <3>2. Answers(asked, call[r].parts, n, call[r].job)
      BY <1>1, <2>1
    <3> HIDE DEF n
    <3>3. Answers(asked, Append(call[r].parts, m), n + 1, call[r].job)
      BY <2>1, <2>2, <2>3, <3>1, <3>2, AnswersGrow
    <3> QED
      BY <1>2, <2>1, <2>5, <3>1, <3>3
  <2> QED
    BY <1>6, <2>4, <2>5 DEF Receives
<1>7. CASE Stores(r)
  BY <1>1, <1>2, <1>7 DEF Stores, SameJob, SameQuery
<1>8. CASE Fails(r) \/ Ends(r)
  BY <1>8 DEF Fails, Ends
<1> QED
  BY <1>3, <1>4, <1>5, <1>6, <1>7, <1>8 DEF DataMove

----------------------------------------------------------------------------
(* What a step does to the cache and to the replies                        *)

\* A cache row goes, stays, expires, or is written by a call that has
\* completed a job of its query.
CacheStep(f) ==
  \/ cache'[f] = NoCache
  \/ cache'[f] = cache[f]
  \/ cache[f].fresh /\ cache'[f].result = cache[f].result
  \/ \E r \in Calls :
       /\ At(r, "cachePut") /\ call[r].fp = f
       /\ cache'[f] = [result |-> [job |-> call[r].job, by |-> call[r].parts],
                       fresh |-> TRUE]

\* Where the result of a completed reply comes from: the cache, the row of a
\* finished job, or the rows of the call itself.
FromCache(r) ==
  /\ call'[r].fp \in Fingerprints /\ cache[call'[r].fp].fresh
  /\ reply'[r].result = cache[call'[r].fp].result

FromRow(r) ==
  /\ At(r, "getResult") /\ call'[r].fp = call[r].fp
  /\ reply'[r].result = jobs[call[r].job].result
  /\ jobs[call[r].job].result # None

FromCall(r) ==
  /\ call[r].pc \in {"completeCAS", "cachePut"} /\ call'[r].fp = call[r].fp
  /\ jobs'[call[r].job].state = "COMPLETED"
  /\ reply'[r].result = [job |-> call[r].job, by |-> call[r].parts]

\* A reply stays with its call, or the call returns.
ReplyStep(r) ==
  \/ /\ reply'[r] = reply[r]
     /\ At(r, "done") => call'[r].fp = call[r].fp /\ At(r, "done")'
  \/ reply'[r].status # "completed"
  \/ At(r, "done")' /\ (FromCache(r) \/ FromRow(r) \/ FromCall(r))

\* Every step treats every cache row in one of these ways.
LEMMA NextCache ==
  ASSUME TypeOK, [Next]_vars
  PROVE  \A f \in Fingerprints : CacheStep(f)
<1> TAKE f \in Fingerprints
<1>0. cache \in [Fingerprints -> CacheRows]
  BY DEF TypeOK
<1>1. ASSUME UNCHANGED cache
      PROVE  CacheStep(f)
  BY <1>1 DEF CacheStep
<1>2. ASSUME NEW r \in Calls, CachePut(r)
      PROVE  CacheStep(f)
  <2> DEFINE row == [result |-> [job |-> call[r].job, by |-> call[r].parts],
                     fresh |-> TRUE]
  <2>1. At(r, "cachePut")
    BY <1>2 DEF CachePut
  <2>2. UNCHANGED cache \/ cache' = [cache EXCEPT ![call[r].fp] = row]
    BY <1>2 DEF CachePut
  <2> HIDE DEF row
  <2>3. cache'[f] = cache[f] \/ (call[r].fp = f /\ cache'[f] = row)
    BY <1>0, <2>2
  <2> QED
    BY <2>1, <2>3 DEF CacheStep, row
<1>3. ASSUME NEW g \in Fingerprints, CacheExpires(g)
      PROVE  CacheStep(f)
  BY <1>0, <1>3 DEF CacheExpires, CacheStep, CacheRows
<1>4. CASE PurgeExpired
  BY <1>4 DEF PurgeExpired, CacheStep
<1>5. ASSUME NEW r \in Calls, CallStep(r)
      PROVE  CacheStep(f)
  BY <1>1, <1>2, <1>5
  DEF CallStep, Create, FindActive, FindCompleted, GetResult, Claim, ClaimCAS,
      Execute, Timeout, RunRead, RunCAS, CompleteRead, CompleteCAS, FailRead,
      FailCAS
<1>6. ASSUME NEW s \in Sockets, SocketStep(s)
      PROVE  CacheStep(f)
  BY <1>1, <1>6
  DEF SocketStep, Connect, HandleConnection, HandleAgentHelloV2,
      HandleDisconnect, HandleQueryAcknowledgedV2, HandleQueryResultV2
<1> QED
  BY <1>1, <1>3, <1>4, <1>5, <1>6
  DEF Next, vars, Query, Restart, CancelJob, FinishWrite, DeadlinePasses,
      ExpireDueJobs

\* A step of a call returns the result of a finished row, or its own.
LEMMA OwnReply ==
  ASSUME TypeOK, CallsNameTheirJob, QueriesAreKept, NEW r \in Calls, CallStep(r)
  PROVE  ReplyStep(r)
<1> DEFINE j == call[r].job
<1>0. jobs \in [Calls -> Rows] /\ reply \in [Calls -> Replies]
  BY DEF TypeOK
<1>1. call[r].pc \notin {"idle", "done", "lost"}
  BY DEF CallStep, Create, FindActive, FindCompleted, GetResult, Claim,
         ClaimCAS, Execute, Timeout, RunRead, RunCAS, CompleteRead,
         CompleteCAS, CachePut, FailRead, FailCAS, At
<1>2. ASSUME UNCHANGED reply
      PROVE  ReplyStep(r)
  BY <1>1, <1>2 DEF ReplyStep, At
<1>3. ASSUME NEW status, NEW result, Return(r, status, result)
      PROVE  /\ reply'[r].status = status /\ reply'[r].result = result
             /\ At(r, "done")' /\ call'[r].fp = call[r].fp
  <2>1. At(r, "done")' /\ call'[r].fp = call[r].fp
    BY <1>1, <1>3, ReturnData
  <2>2. reply' = [reply EXCEPT ![r] = [status |-> status, result |-> result]]
    BY <1>3 DEF Return
  <2> QED
    BY <1>0, <2>1, <2>2
<1>4. ASSUME \/ Return(r, "pending", None)
             \/ Return(r, "error", None)
      PROVE  ReplyStep(r)
  BY <1>3, <1>4 DEF ReplyStep
<1>5. CASE GetResult(r)
  <2>1. CASE Return(r, "completed", jobs[j].result) /\ jobs[j].result # None
    BY <1>3, <1>5, <2>1 DEF ReplyStep, FromRow, GetResult
  <2> QED
    BY <1>4, <1>5, <2>1 DEF GetResult
<1>6. CASE CompleteCAS(r)
  <2> DEFINE result == [job |-> j, by |-> call[r].parts]
  <2>1. At(r, "completeCAS") /\ j \in Calls /\ jobs[j] \in Rows
    BY <1>0, <1>6 DEF CompleteCAS, CallsNameTheirJob, At, Driving, Owning
  <2>2. CASE /\ jobs' = [jobs EXCEPT ![j] =
                   [Moved(jobs[j], "COMPLETED", None, None)
                      EXCEPT !.result = result]]
             /\ Return(r, "completed", result)
    <3> DEFINE old == Moved(jobs[j], "COMPLETED", None, None)
    <3>1. old \in Rows /\ old.state = "COMPLETED"
      BY <2>1, MovedType, MovedColumns DEF TerminalStates
    <3>2. jobs' = [jobs EXCEPT ![j] = [old EXCEPT !.result = result]]
      BY <2>2
    <3> HIDE DEF old
    <3>3. jobs'[j].state = "COMPLETED"
      BY <1>0, <2>1, <3>1, <3>2 DEF Rows
    <3>4. reply'[r].result = result /\ At(r, "done")' /\ call'[r].fp = call[r].fp
      BY <1>3, <2>2
    <3> QED
      BY <2>1, <3>3, <3>4 DEF ReplyStep, FromCall, At
  <2> QED
    BY <1>2, <1>4, <1>6, <2>2 DEF CompleteCAS
<1>7. CASE CachePut(r)
  <2> DEFINE result == [job |-> j, by |-> call[r].parts]
  <2>1. At(r, "cachePut") /\ Return(r, "completed", result) /\ jobs' = jobs
    BY <1>7 DEF CachePut
  <2>2. reply'[r].result = result /\ At(r, "done")' /\ call'[r].fp = call[r].fp
    BY <1>3, <2>1
  <2>3. jobs[j].state = "COMPLETED"
    BY <2>1 DEF QueriesAreKept, At
  <2> QED
    BY <2>1, <2>2, <2>3 DEF ReplyStep, FromCall, At
<1>8. ASSUME ~CachePut(r)
      PROVE  ReplyStep(r)
  BY <1>2, <1>4, <1>5, <1>6, <1>8
  DEF CallStep, Create, FindActive, FindCompleted, Claim, ClaimCAS, Execute,
      Timeout, RunRead, RunCAS, CompleteRead, FailRead, FailCAS, Throw
<1> QED
  BY <1>7, <1>8

\* Every step treats the reply of every call in one of these ways.
LEMMA NextReply ==
  ASSUME TypeOK, CallsNameTheirJob, AwaitingIsPending, QueriesAreKept,
         [Next]_vars
  PROVE  \A q \in Calls : ReplyStep(q)
<1>0. reply \in [Calls -> Replies] /\ call \in [Calls -> Locals]
  BY DEF TypeOK
<1>1. \A q \in Calls : call'[q] = call[q] /\ reply'[q] = reply[q] => ReplyStep(q)
  BY DEF ReplyStep, At
<1>2. \A q \in Calls : ~At(q, "done") /\ reply'[q] = reply[q] => ReplyStep(q)
  BY DEF ReplyStep
<1>3. ASSUME NEW r \in Calls, CallStep(r)
      PROVE  \A q \in Calls : ReplyStep(q)
  <2>1. \A q \in Calls \ {r} : call'[q] = call[q]
    BY <1>3, OthersStay
  <2>2. \A q \in Calls \ {r} : reply'[q] = reply[q]
    BY <1>0, <1>3
    DEF CallStep, Create, FindActive, FindCompleted, GetResult, Claim,
        ClaimCAS, Execute, Timeout, RunRead, RunCAS, CompleteRead,
        CompleteCAS, CachePut, FailRead, FailCAS, Return, Throw
  <2> QED
    BY <1>1, <1>3, <2>1, <2>2, OwnReply
<1>4. ASSUME NEW r \in Calls, NEW f \in Fingerprints, Query(r, f)
      PROVE  \A q \in Calls : ReplyStep(q)
  <2>1. \A q \in Calls \ {r} : call'[q] = call[q] /\ reply'[q] = reply[q]
    BY <1>0, <1>4 DEF Query, Goes
  <2>2. ~At(r, "done")
    BY <1>4 DEF Query, At
  <2>3. ASSUME cache[f].fresh,
               reply' = [reply EXCEPT ![r] = [status |-> "completed",
                                              result |-> cache[f].result]],
               Goes(r, [call[r] EXCEPT !.pc = "done", !.fp = f])
        PROVE  ReplyStep(r)
    <3>1. call'[r] = [call[r] EXCEPT !.pc = "done", !.fp = f]
      BY <1>0, <2>3 DEF Goes
    <3>2. At(r, "done")' /\ call'[r].fp = f
      BY <1>0, <3>1 DEF Locals, At
    <3>3. reply'[r].result = cache[f].result
      BY <1>0, <2>3
    <3> QED
      BY <2>3, <3>2, <3>3 DEF ReplyStep, FromCache
  <2>4. ReplyStep(r)
    BY <1>2, <1>4, <2>2, <2>3 DEF Query
  <2> QED
    BY <1>1, <2>1, <2>4
<1>5. ASSUME NEW s \in Sockets, NEW m \in asked, HandleQueryResultV2(s, m)
      PROVE  \A q \in Calls : ReplyStep(q)
  <2>1. PICK r \in Calls : /\ At(r, "awaiting")
                           /\ \A q \in Calls \ {r} : call'[q] = call[q]
    BY <1>5, ResultMove
  <2>2. UNCHANGED reply
    BY <1>5 DEF HandleQueryResultV2, Throw
  <2> QED
    BY <1>1, <1>2, <2>1, <2>2 DEF At
<1>6. ASSUME NEW s \in Sockets, HandleDisconnect(s)
      PROVE  \A q \in Calls : ReplyStep(q)
  <2> TAKE q \in Calls
  <2> DEFINE w == SockHome[s]
             gone == Dropped(w, AgentOf[s])
  <2>1. UNCHANGED reply /\ w \in Workers
    BY <1>6, DataJobAssumption DEF HandleDisconnect
  <2>2. CASE \E j \in gone : pending[w][j].owner = q
    <3>1. At(q, "awaiting")
      BY <2>1, <2>2 DEF Dropped, AwaitingIsPending
    <3> QED
      BY <1>2, <2>1, <3>1 DEF At
  <2> QED
    BY <1>1, <1>6, <2>1, <2>2 DEF HandleDisconnect
<1>7. ASSUME NEW w \in Workers, Restart(w)
      PROVE  \A q \in Calls : ReplyStep(q)
  <2> TAKE q \in Calls
  <2>1. call'[q] = call[q] \/ ~At(q, "done")
    BY <1>7 DEF Restart, At
  <2>2. UNCHANGED reply
    BY <1>7 DEF Restart
  <2> QED
    BY <1>1, <1>2, <2>1, <2>2
<1>8. ASSUME UNCHANGED <<call, reply>>
      PROVE  \A q \in Calls : ReplyStep(q)
  BY <1>1, <1>8
<1>9. ASSUME NEW s \in Sockets, SocketStep(s)
      PROVE  \A q \in Calls : ReplyStep(q)
  BY <1>5, <1>6, <1>8, <1>9
  DEF SocketStep, Connect, HandleConnection, HandleAgentHelloV2,
      HandleQueryAcknowledgedV2
<1> QED
  BY <1>3, <1>4, <1>7, <1>8, <1>9
  DEF Next, vars, CancelJob, FinishWrite, DeadlinePasses, ExpireDueJobs,
      CacheExpires, PurgeExpired

----------------------------------------------------------------------------
(* Results stay answers                                                    *)

\* IsAnswer in terms of the rows of a call.
LEMMA AnswerMeans ==
  \A result, f : IsAnswer(result, f) <=>
     /\ jobs[result.job].state = "COMPLETED" /\ jobs[result.job].fp = f
     /\ Answers(asked, result.by, Needed(f), result.job)
BY DEF IsAnswer, Answers, Needed

\* The same in the next state.
IsAnswerNext(result, f) ==
  /\ jobs'[result.job].state = "COMPLETED" /\ jobs'[result.job].fp = f
  /\ Answers(asked', result.by, Needed(f), result.job)

\* ResultsAnswerTheirQuery of the next state, from its parts.
LEMMA AnswerNextMeans ==
  ASSUME \A j \in Calls : jobs'[j].result # None =>
           /\ jobs'[j].result.job = j
           /\ IsAnswerNext(jobs'[j].result, jobs'[j].fp),
         \A f \in Fingerprints : cache'[f].result # None =>
           IsAnswerNext(cache'[f].result, f),
         \A r \in Calls : reply'[r].status = "completed" =>
           reply'[r].result # None /\ IsAnswerNext(reply'[r].result, call'[r].fp)
  PROVE  ResultsAnswerTheirQuery'
BY DEF ResultsAnswerTheirQuery, IsAnswerNext, IsAnswer, Answers, Needed

\* What answers a query goes on doing so: the job stays COMPLETED, its row
\* keeps its query, and what was sent stays sent.
LEMMA AnswerStays ==
  ASSUME NEW result, result.job \in Calls, NEW f, IsAnswer(result, f),
         RowKeeps(result.job), asked \subseteq asked'
  PROVE  IsAnswerNext(result, f)
BY AnswerMeans, AnswersStay DEF IsAnswerNext, RowKeeps

\* The rows of a call that has them all answer its query, once its job is
\* COMPLETED.
LEMMA OwnAnswer ==
  ASSUME CallsNameTheirJob, QueriesAreKept, PartsAreAnswers, NEW r \in Calls,
         call[r].pc \in {"completeCAS", "cachePut"},
         \A j \in Calls : RowKeeps(j), asked \subseteq asked',
         jobs'[call[r].job].state = "COMPLETED"
  PROVE  IsAnswerNext([job |-> call[r].job, by |-> call[r].parts], call[r].fp)
<1>1. call[r].pc \in Driving /\ call[r].pc \in Answered
  BY DEF Driving, Owning, Answered
<1>2. call[r].job \in Calls /\ jobs[call[r].job].state # "ABSENT"
      /\ jobs[call[r].job].fp = call[r].fp
  BY <1>1 DEF CallsNameTheirJob, QueriesAreKept
<1>3. jobs'[call[r].job].fp = call[r].fp
  BY <1>2 DEF RowKeeps
<1>4. Answers(asked', call[r].parts, Needed(call[r].fp), call[r].job)
  BY <1>1, AnswersStay DEF PartsAreAnswers
<1> QED
  BY <1>3, <1>4 DEF IsAnswerNext

\* Nothing has been asked or answered at the beginning.
LEMMA InitAInv == Init => AInv
<1> SUFFICES ASSUME Init PROVE AInv
  OBVIOUS
<1>1. \A r \in Calls : /\ call[r].pc = "idle" /\ call[r].parts = <<>>
                       /\ reply[r].status = "none" /\ jobs[r].result = None
  BY DEF Init, NoCall, NoRow
<1>2. \A f \in Fingerprints : cache[f] = NoCache
  BY DEF Init
<1>3. QueriesAreKept
  BY <1>1 DEF QueriesAreKept, Driving, Owning, At
<1>4. PartsAreAnswers
  BY <1>1 DEF PartsAreAnswers, Unsent, Answered
<1>5. AnswersAreFiled
  BY <1>1, <1>2 DEF AnswersAreFiled, NoCache
<1>6. ResultsAnswerTheirQuery
  BY <1>1, <1>2 DEF ResultsAnswerTheirQuery, NoCache
<1>7. AnsweredIsRunning
  BY <1>1 DEF AnsweredIsRunning, At
<1> QED
  BY <1>3, <1>4, <1>5, <1>6, <1>7 DEF AInv

\* Every step keeps stored, cached and returned results answers.
LEMMA NextResults ==
  ASSUME IInv, AInv, TypeOK', [Next]_vars
  PROVE  AInv'
<1>0. /\ TypeOK /\ CallsNameTheirJob /\ RowsAreInsertedOnce
      /\ AwaitingIsPending /\ QueriesAreKept /\ PartsAreAnswers
      /\ AnswersAreFiled /\ ResultsAnswerTheirQuery
      /\ OwnedIsClaimed /\ AnsweredIsRunning
  BY DEF IInv, AInv
<1>1. \A j \in Calls : RowKeeps(j)
  BY <1>0, NextTable, TableKeeps
<1>2. (\A q \in Calls : DataMove(q)) /\ asked \subseteq asked'
  BY <1>0, NextData
<1>3. \A f \in Fingerprints : CacheStep(f)
  BY <1>0, NextCache
<1>4. \A q \in Calls : ReplyStep(q)
  BY <1>0, NextReply
<1>5. QueriesAreKept'
  BY <1>0, <1>1, <1>2, NextQueries
<1>6. PartsAreAnswers'
  BY <1>0, <1>2, NextParts
<1>7. AnswersAreFiled'
  <2>1. ASSUME NEW r \in Calls, reply'[r].status = "completed"
        PROVE  At(r, "done")'
    BY <1>0, <1>4, <2>1 DEF ReplyStep, AnswersAreFiled
  <2>2. ASSUME NEW f \in Fingerprints, cache'[f].fresh
        PROVE  cache'[f].result # None
    <3>1. CASE cache'[f] = NoCache
      BY <2>2, <3>1 DEF NoCache
    <3>2. CASE \/ cache'[f] = cache[f]
               \/ cache[f].fresh /\ cache'[f].result = cache[f].result
      BY <1>0, <2>2, <3>2 DEF AnswersAreFiled
    <3>3. ASSUME NEW r \in Calls, At(r, "cachePut"),
                 cache'[f] = [result |-> [job |-> call[r].job,
                                          by |-> call[r].parts],
                              fresh |-> TRUE]
          PROVE  cache'[f].result # None
      <4>1. call[r].job \in Calls
        BY <1>0, <3>3 DEF CallsNameTheirJob, At, Driving
      <4>2. None \notin Results
        BY NoneAssumption
      <4>3. [job |-> call[r].job, by |-> call[r].parts] \in Results
        BY <1>0, <4>1 DEF Results, TypeOK, Locals
      <4> QED
        BY <3>3, <4>2, <4>3
    <3> QED
      BY <1>3, <3>1, <3>2, <3>3 DEF CacheStep
  <2> QED
    BY <2>1, <2>2 DEF AnswersAreFiled
<1>8. AnsweredIsRunning'
  <2> SUFFICES ASSUME NEW r \in Calls,
                      call'[r].pc \in {"runCAS", "completeRead", "completeCAS"}
               PROVE  /\ At(r, "runCAS")'
                           /\ jobs'[call'[r].job].state = "DISPATCHED" =>
                             call'[r].seen = jobs'[call'[r].job].version
                      /\ call'[r].pc \in {"completeRead", "completeCAS"} =>
                           jobs'[call'[r].job].state # "DISPATCHED"
    BY DEF AnsweredIsRunning, At
  <2>1. call'[r] = call[r] \/ Works(r)
    BY <1>0, NextCalls DEF CallMove, Wins, At
  <2>2. /\ call[r].job \in Calls /\ jobs[call[r].job].state # "PENDING"
        /\ call'[r].job = call[r].job
    BY <1>0, <2>1
    DEF CallsNameTheirJob, OwnedIsClaimed, Works, SameJob, Driving, Owning
  <2>3. RowKeeps(call[r].job)
    BY <1>1, <2>2
  <2>4. CASE call'[r] = call[r]
    BY <1>0, <2>2, <2>3, <2>4 DEF AnsweredIsRunning, RowKeeps, At
  <2>5. CASE RunsFirst(r)
    BY <1>0, <2>2, <2>3, <2>5 DEF AnsweredIsRunning, RowKeeps, RunsFirst, At
  <2> QED
    BY <2>1, <2>4, <2>5 DEF Works
<1>9. ResultsAnswerTheirQuery'
  <2>1. ASSUME NEW j \in Calls, jobs'[j].result # None
        PROVE  /\ jobs'[j].result.job = j
               /\ IsAnswerNext(jobs'[j].result, jobs'[j].fp)
    <3>1. CASE jobs'[j].result = jobs[j].result /\ jobs'[j].fp = jobs[j].fp
      <4>1. jobs[j].result.job = j /\ IsAnswer(jobs[j].result, jobs[j].fp)
        BY <1>0, <2>1, <3>1 DEF ResultsAnswerTheirQuery
      <4> QED
        BY <1>1, <1>2, <3>1, <4>1, AnswerStays
    <3>2. ASSUME NEW r \in Calls, At(r, "completeCAS"), call[r].job = j,
                 jobs'[j].state = "COMPLETED", jobs'[j].fp = jobs[j].fp,
                 jobs'[j].result = [job |-> j, by |-> call[r].parts]
          PROVE  /\ jobs'[j].result.job = j
                 /\ IsAnswerNext(jobs'[j].result, jobs'[j].fp)
      <4>1. jobs[j].fp = call[r].fp
        BY <1>0, <3>2 DEF QueriesAreKept, At, Driving, Owning
      <4>2. IsAnswerNext([job |-> call[r].job, by |-> call[r].parts],
                         call[r].fp)
        BY <1>0, <1>1, <1>2, <3>2, OwnAnswer DEF At
      <4> QED
        BY <3>2, <4>1, <4>2
    <3> QED
      BY <1>1, <2>1, <3>1, <3>2 DEF RowKeeps
  <2>2. ASSUME NEW f \in Fingerprints, cache'[f].result # None
        PROVE  IsAnswerNext(cache'[f].result, f)
    <3>1. CASE cache'[f] = NoCache
      BY <2>2, <3>1 DEF NoCache
    <3>2. CASE cache'[f].result = cache[f].result
      <4>1. IsAnswer(cache[f].result, f)
        BY <1>0, <2>2, <3>2 DEF ResultsAnswerTheirQuery
      <4>2. cache[f].result.job \in Calls
        BY <1>0, <2>2, <3>2 DEF TypeOK, CacheRows, Results
      <4> QED
        BY <1>1, <1>2, <3>2, <4>1, <4>2, AnswerStays
    <3>3. ASSUME NEW r \in Calls, At(r, "cachePut"), call[r].fp = f,
                 cache'[f] = [result |-> [job |-> call[r].job,
                                          by |-> call[r].parts],
                              fresh |-> TRUE]
          PROVE  IsAnswerNext(cache'[f].result, f)
      <4>1. /\ call[r].job \in Calls
            /\ jobs[call[r].job].state = "COMPLETED"
        BY <1>0, <3>3 DEF CallsNameTheirJob, QueriesAreKept, At, Driving
      <4>2. jobs'[call[r].job].state = "COMPLETED"
        BY <1>1, <4>1 DEF RowKeeps
      <4>3. IsAnswerNext([job |-> call[r].job, by |-> call[r].parts],
                         call[r].fp)
        BY <1>0, <1>1, <1>2, <3>3, <4>2, OwnAnswer DEF At
      <4> QED
        BY <3>3, <4>3
    <3> QED
      BY <1>3, <2>2, <3>1, <3>2, <3>3 DEF CacheStep
  <2>3. ASSUME NEW r \in Calls, reply'[r].status = "completed"
        PROVE  /\ reply'[r].result # None
               /\ IsAnswerNext(reply'[r].result, call'[r].fp)
    <3>1. CASE /\ reply'[r] = reply[r]
               /\ At(r, "done") => call'[r].fp = call[r].fp /\ At(r, "done")'
      <4>1. /\ call'[r].fp = call[r].fp /\ reply[r].result # None
            /\ IsAnswer(reply[r].result, call[r].fp)
        BY <1>0, <2>3, <3>1 DEF AnswersAreFiled, ResultsAnswerTheirQuery
      <4>2. reply[r].result.job \in Calls
        BY <1>0, <4>1 DEF TypeOK, Replies, Results
      <4> QED
        BY <1>1, <1>2, <3>1, <4>1, <4>2, AnswerStays
    <3>2. CASE FromCache(r)
      <4> DEFINE f == call'[r].fp
      <4>1. f \in Fingerprints /\ cache[f].result # None
        BY <1>0, <3>2 DEF FromCache, AnswersAreFiled
      <4>2. IsAnswer(cache[f].result, f) /\ cache[f].result.job \in Calls
        BY <1>0, <4>1 DEF ResultsAnswerTheirQuery, TypeOK, CacheRows, Results
      <4>3. IsAnswerNext(cache[f].result, f)
        BY <1>1, <1>2, <4>2, AnswerStays
      <4> QED
        BY <3>2, <4>1, <4>3 DEF FromCache
    <3>3. CASE FromRow(r)
      <4> DEFINE j == call[r].job
      <4>1. j \in Calls /\ jobs[j].fp = call[r].fp /\ jobs[j].result # None
        BY <1>0, <3>3 DEF FromRow, CallsNameTheirJob, QueriesAreKept
      <4>2. jobs[j].result.job = j /\ IsAnswer(jobs[j].result, jobs[j].fp)
        BY <1>0, <4>1 DEF ResultsAnswerTheirQuery
      <4>3. IsAnswerNext(jobs[j].result, jobs[j].fp)
        BY <1>1, <1>2, <4>1, <4>2, AnswerStays
      <4> QED
        BY <3>3, <4>1, <4>3 DEF FromRow
    <3>4. CASE FromCall(r)
      <4>1. IsAnswerNext([job |-> call[r].job, by |-> call[r].parts],
                         call[r].fp)
        BY <1>0, <1>1, <1>2, <3>4, OwnAnswer DEF FromCall
      <4>2. call[r].job \in Calls
        BY <1>0, <3>4 DEF FromCall, CallsNameTheirJob, Driving, Owning
      <4>3. [job |-> call[r].job, by |-> call[r].parts] \in Results
        BY <1>0, <4>2 DEF Results, TypeOK, Locals
      <4> QED
        BY <3>4, <4>1, <4>3, NoneAssumption DEF FromCall
    <3> QED
      BY <1>4, <2>3, <3>1, <3>2, <3>3, <3>4 DEF ReplyStep
  <2> QED
    BY <2>1, <2>2, <2>3, AnswerNextMeans
<1> QED
  BY <1>5, <1>6, <1>7, <1>8, <1>9 DEF AInv

\* Together with IInv, the invariant of the results is inductive.
THEOREM ResultInvariance == Spec => [](IInv /\ AInv)
<1>1. Init => IInv /\ AInv
  BY InitInv, InitAInv
<1>2. (IInv /\ AInv) /\ [Next]_vars => (IInv /\ AInv)'
  <2> SUFFICES ASSUME IInv, AInv, [Next]_vars
               PROVE  IInv' /\ AInv'
    OBVIOUS
  <2>1. IInv'
    BY NextInv
  <2>2. TypeOK'
    BY <2>1 DEF IInv
  <2> QED
    BY <2>1, <2>2, NextResults
<1> QED
  BY <1>1, <1>2, PTL DEF Spec

\* Whatever the engine stores, caches or returns as a result is an answer to
\* the query it is filed under (data.service.ts runQuery, complete(), the
\* cache and createOrGet), however calls, agents and workers interleave.
THEOREM ResultsAreAnswers == Spec => []ResultsAnswerTheirQuery
<1>1. IInv /\ AInv => ResultsAnswerTheirQuery
  BY DEF AInv
<1> QED
  BY <1>1, ResultInvariance, PTL

----------------------------------------------------------------------------
(* The engine implements the life cycle of a job                           *)

\* Every step of the engine is a step of JobLifecycleV2 or leaves the columns
\* it is about.
LEMMA NextLifecycle ==
  ASSUME IInv, AInv, [Next]_vars
  PROVE  [Lifecycle!Next]_(Lifecycle!vars)
<1> DEFINE status == [j \in Calls |-> jobs[j].state]
           query == [j \in Calls |-> jobs[j].fp]
           answer == [j \in Calls |-> jobs[j].result]
<1>0. jobs \in [Calls -> Rows] /\ TableStep
  BY NextTable DEF IInv, TypeOK
<1>1. CASE UNCHANGED jobs
  BY <1>1 DEF Lifecycle!vars
<1>2. ASSUME NEW r \in Calls, Inserts(r)
      PROVE  Lifecycle!Next
  <2> DEFINE row == [NoRow EXCEPT !.state = "PENDING", !.fp = call[r].fp]
  <2>1. row.state = "PENDING" /\ row.fp = call[r].fp /\ row.result = None
    BY DEF NoRow
  <2>2. /\ jobs[r].state = "ABSENT" /\ jobs' = [jobs EXCEPT ![r] = row]
        /\ \A j \in Calls : ~(IsActive(j) /\ jobs[j].fp = call[r].fp)
    BY <1>2 DEF Inserts
  <2>3. jobs[r].result = None
    BY <2>2 DEF AInv, ResultsAnswerTheirQuery, IsAnswer
  <2>4. call[r].fp \in Fingerprints
    BY <1>2 DEF Inserts, At, AInv, QueriesAreKept
  <2> HIDE DEF row
  <2>5. /\ status' = [status EXCEPT ![r] = "PENDING"]
        /\ query' = [query EXCEPT ![r] = call[r].fp]
        /\ answer' = answer
    BY <1>0, <2>1, <2>2, <2>3
  <2>6. PICK q \in Fingerprints : q = call[r].fp
    BY <2>4
  <2>7. Lifecycle!OpenJob(r, q)
    BY <2>2, <2>5, <2>6
    DEF Lifecycle!OpenJob, Lifecycle!Open, IsActive, ActiveStates
  <2> QED
    BY <2>7 DEF Lifecycle!Next
<1>3. ASSUME NEW j \in Calls, NEW row \in Rows, Updates(j, row)
      PROVE  [Lifecycle!Next]_(Lifecycle!vars)
  <2>1. /\ status' = [status EXCEPT ![j] = row.state]
        /\ query' = query /\ answer' = answer
    BY <1>0, <1>3 DEF Updates
  <2>2. CASE row.state = jobs[j].state
    BY <2>1, <2>2 DEF Lifecycle!vars
  <2>3. CASE \/ jobs[j].state = "PENDING" /\ row.state = "DISPATCHED"
             \/ jobs[j].state = "DISPATCHED" /\ row.state = "RUNNING"
    <3>1. Lifecycle!Advance(j)
      BY <2>1, <2>3 DEF Lifecycle!Advance
    <3> QED
      BY <3>1 DEF Lifecycle!Next
  <2>4. CASE /\ jobs[j].state \in ActiveStates
             /\ row.state \in TerminalStates \ {"COMPLETED"}
    <3>1. Lifecycle!Close(j)
      BY <2>1, <2>4
      DEF Lifecycle!Close, Lifecycle!Open, Lifecycle!Closed, ActiveStates,
          TerminalStates
    <3> QED
      BY <3>1 DEF Lifecycle!Next
  <2> QED
    BY <1>3, <2>2, <2>3, <2>4 DEF Updates
<1>4. ASSUME NEW r \in Calls, NEW row \in Rows, Completes(r, row)
      PROVE  Lifecycle!Next
  <2> DEFINE j == call[r].job
             a == [job |-> j, by |-> call[r].parts]
  <2>1. j \in Calls /\ a \in Results /\ a.job = j
    BY <1>4 DEF Completes, Results, IInv, TypeOK, Locals
  <2>2. jobs[j].state = "RUNNING"
    BY <1>4 DEF Completes, AInv, AnsweredIsRunning, At
  <2>3. /\ jobs' = [jobs EXCEPT ![j] = row] /\ row.state = "COMPLETED"
        /\ row.fp = jobs[j].fp /\ row.result = a
    BY <1>4 DEF Completes
  <2> HIDE DEF a, j
  <2>4. /\ status' = [status EXCEPT ![j] = "COMPLETED"]
        /\ answer' = [answer EXCEPT ![j] = a]
        /\ query' = query /\ answer'[j] = a
    BY <1>0, <2>1, <2>3
  <2>5. Lifecycle!Answer(j, answer'[j])
    BY <2>1, <2>2, <2>4 DEF Lifecycle!Answer
  <2> QED
    BY <2>1, <2>5 DEF Lifecycle!Next
<1>5. CASE Sweeps
  <2> DEFINE late == {j \in Calls : jobs'[j].state # jobs[j].state}
             stale == {j \in Calls : jobs'[j].result # jobs[j].result}
  <2>1. \A j \in late : jobs[j].state \in ActiveStates
                        /\ jobs'[j].state = "TIMED_OUT"
    BY <1>5 DEF Sweeps
  <2>2. \A j \in stale : jobs[j].result # None /\ jobs'[j].result = None
    BY <1>5 DEF Sweeps
  <2>3. \A j \in stale : jobs[j].state = "COMPLETED"
    BY <2>2 DEF AInv, ResultsAnswerTheirQuery, IsAnswer
  <2>4. query' = query
    BY <1>5 DEF Sweeps
  <2>5. status' = [j \in Calls |-> IF j \in late THEN "TIMED_OUT"
                                   ELSE status[j]]
    BY <2>1
  <2>6. answer' = [j \in Calls |-> IF j \in stale THEN None ELSE answer[j]]
    BY <2>2
  <2> HIDE DEF late, stale
  <2>7. PICK l \in SUBSET Calls, s \in SUBSET Calls : l = late /\ s = stale
    BY DEF late, stale
  <2>8. Lifecycle!Sweep(l, s)
    BY <2>1, <2>3, <2>4, <2>5, <2>6, <2>7
    DEF Lifecycle!Sweep, Lifecycle!Open, ActiveStates
  <2> QED
    BY <2>8 DEF Lifecycle!Next
<1> QED
  BY <1>0, <1>1, <1>2, <1>3, <1>4, <1>5 DEF TableStep

\* The engine implements the safety part of JobLifecycleV2: a job is opened
\* for a query that has no open job, moves forward only, is answered only once
\* it is RUNNING, is closed once, and has an answer only while it is COMPLETED.
\* Its moves are those of ADR-003's table and PENDING to FAILED.
THEOREM LifecycleSafety == Spec => Lifecycle!Safe
<1>1. Init => Lifecycle!Init
  BY DEF Init, Lifecycle!Init, NoRow
<1>2. IInv /\ AInv /\ [Next]_vars => [Lifecycle!Next]_(Lifecycle!vars)
  BY NextLifecycle
<1> QED
  BY <1>1, <1>2, ResultInvariance, PTL DEF Spec, Lifecycle!Safe

============================================================================
