------------------------- MODULE AgentRegistryProofs -------------------------
(***************************************************************************)
(* Proofs about AgentRegistry, for any number of agents, requests and      *)
(* tokens: a retired token is never accepted again.                        *)
(***************************************************************************)
EXTENDS AgentRegistry, TLAPS

\* Requests that carry a token nobody has stored yet.
Minting == {"generate", "regenerate", "renewWrite"}

\* Requests that will update a row by id know it.
ByIdKinds == AgentKinds \cup {"revoke", "regenerate", "consume", "renewWrite",
                              "renewPush"}

\* A request that updates by id holds the id, and one that stores a token
\* holds the token.
RequestsAreComplete ==
  \A o \in Ops : /\ ops[o].kind \in ByIdKinds => ops[o].at \in Agents
                 /\ ops[o].kind \in Minting => ops[o].token # None
                 /\ ops[o].kind = "renewPush" => ops[o].token # None

\* Rows that have a token if they are present.
GoodRows == {x \in Rows : x.life = "present" => x.token # None}

\* Every token in use was generated.
TokensAreIssued ==
  /\ \A a \in Agents : Present(a) => rows[a].token <= issued
  /\ \A o \in Ops : ops[o].kind \in Minting => ops[o].token <= issued
  /\ \A t \in retired : t <= issued

\* A token that waits to be stored is in no row, in no other request and not
\* retired.
NewTokensAreUnused ==
  \A o \in Ops : ops[o].kind \in Minting =>
    /\ \A a \in Agents : Present(a) => rows[a].token # ops[o].token
    /\ ops[o].token \notin retired
    /\ \A p \in Ops : p # o /\ ops[p].kind \in Minting =>
                        ops[p].token # ops[o].token

\* No two rows share a token (it is unique in the schema).
TokensAreOwn ==
  \A a, b \in Agents : a # b /\ Present(a) /\ Present(b) =>
                        rows[a].token # rows[b].token

\* Types, with what the code relies on beyond them.
Shape == TypeOK /\ RequestsAreComplete /\ rows \in [Agents -> GoodRows]

\* The inductive invariant.
IInv ==
  /\ Shape /\ TokensAreIssued /\ NewTokensAreUnused /\ TokensAreOwn
  /\ RetiredTokensStayOut

----------------------------------------------------------------------------
(* Types                                                                   *)

\* The constant requests and rows have their types.
LEMMA ConstantTypes ==
  /\ NoRow \in GoodRows /\ Idle \in Requests /\ NoLink \in Links
  /\ Idle.kind \notin ByIdKinds \cup Minting \cup {"renewPush"}
BY RegistryAssumption
   DEF NoRow, Idle, NoLink, GoodRows, Rows, Requests, Links, Kinds, AgentKinds,
       ByIdKinds, Minting, Statuses

\* The initial state is well formed.
LEMMA InitShape == Init => Shape
<1> SUFFICES ASSUME Init PROVE Shape
  OBVIOUS
<1>1. \A o \in Ops : ops[o] = Idle
  BY DEF Init
<1>2. RequestsAreComplete
  BY <1>1, ConstantTypes DEF RequestsAreComplete
<1>3. TypeOK /\ rows \in [Agents -> GoodRows]
  BY ConstantTypes, RegistryAssumption DEF Init, TypeOK, Tokens, GoodRows
<1> QED
  BY <1>2, <1>3 DEF Shape

\* Storing a complete request in a slot keeps the requests well formed.
LEMMA SlotShape ==
  ASSUME Shape, NEW o \in Ops, NEW x \in Requests,
         x.kind \in ByIdKinds => x.at \in Agents,
         x.kind \in Minting \cup {"renewPush"} => x.token # None,
         ops' = [ops EXCEPT ![o] = x]
  PROVE  ops' \in [Ops -> Requests] /\ RequestsAreComplete'
<1>1. ops \in [Ops -> Requests]
  BY DEF Shape, TypeOK
<1>2. ops' \in [Ops -> Requests]
  BY <1>1
<1>3. \A p \in Ops : ops'[p] = IF p = o THEN x ELSE ops[p]
  BY <1>1
<1>4. RequestsAreComplete'
  BY <1>3 DEF Shape, RequestsAreComplete
<1> QED
  BY <1>2, <1>4

\* Freeing a slot keeps the requests well formed.
LEMMA FinishShape ==
  ASSUME Shape, NEW o \in Ops, Finish(o)
  PROVE  ops' \in [Ops -> Requests] /\ RequestsAreComplete'
BY SlotShape, ConstantTypes DEF Finish

\* Requests that stay as they are stay well formed.
LEMMA SameOpsShape ==
  ASSUME Shape, UNCHANGED ops
  PROVE  ops' \in [Ops -> Requests] /\ RequestsAreComplete'
BY DEF Shape, TypeOK, RequestsAreComplete

\* A request built from the idle one has the type of requests.
LEMMA BuiltRequest ==
  ASSUME NEW k \in Kinds, NEW a \in Agents \cup {None},
         NEW t \in Tokens \cup {None}, NEW todo \in SUBSET Agents
  PROVE  /\ [Idle EXCEPT !.kind = k, !.at = a] \in Requests
         /\ [Idle EXCEPT !.kind = k, !.at = a, !.token = t] \in Requests
         /\ [Idle EXCEPT !.kind = k, !.todo = todo] \in Requests
BY DEF Idle, Requests

\* Good rows are rows.
LEMMA GoodTable ==
  ASSUME NEW f \in [Agents -> GoodRows]
  PROVE  f \in [Agents -> Rows]
BY DEF GoodRows

\* An update by id keeps the table well formed.
LEMMA UpdateType ==
  ASSUME Shape, NEW a \in Agents, NEW x \in GoodRows, UpdateRow(a, x)
  PROVE  rows' \in [Agents -> GoodRows]
BY DEF Shape, UpdateRow

\* The columns that requests write keep a row well formed.
LEMMA WrittenRow ==
  ASSUME NEW x \in GoodRows, NEW s \in Statuses,
         NEW v \in {"never", "recent", "stale"}
  PROVE  /\ [x EXCEPT !.status = s, !.seen = v] \in GoodRows
         /\ [x EXCEPT !.seen = v] \in GoodRows
         /\ [x EXCEPT !.status = s] \in GoodRows
         /\ [x EXCEPT !.status = s, !.seen = v, !.command = None] \in GoodRows
         /\ [x EXCEPT !.revoked = TRUE, !.status = s] \in GoodRows
BY DEF GoodRows, Rows

\* A row that is given a token is well formed.
LEMMA StoredRow ==
  ASSUME NEW x \in GoodRows, NEW t \in Tokens, t # None
  PROVE  /\ [NoRow EXCEPT !.life = "present", !.token = t] \in GoodRows
         /\ [x EXCEPT !.token = t, !.age = "fresh", !.status = "pending",
                      !.revoked = FALSE] \in GoodRows
         /\ [x EXCEPT !.token = t, !.status = "pending", !.seen = "never",
                      !.age = "fresh", !.revoked = FALSE] \in GoodRows
<1>1. NoRow \in Rows
  BY ConstantTypes DEF GoodRows
<1>2. [NoRow EXCEPT !.life = "present", !.token = t] \in GoodRows
  BY <1>1 DEF GoodRows, Rows
<1> QED
  BY <1>2 DEF GoodRows, Rows, Statuses

\* Starting a request keeps the state well formed.
LEMMA BeginShape ==
  ASSUME Shape, NEW o \in Ops, BeginStep(o)
  PROVE  Shape'
<1> USE DEF Shape
<1>0. rows \in [Agents -> Rows] /\ issued \in 0..MaxTokens
  BY DEF TypeOK
<1>1. CASE GenerateAgentToken(o)
  <2>1. PICK a \in Agents \cup {None} :
          ops' = [ops EXCEPT ![o] = [Idle EXCEPT !.kind = "generate",
                                       !.at = a, !.token = issued + 1]]
    BY <1>1 DEF GenerateAgentToken, Begin
  <2>2. issued + 1 \in Tokens /\ issued + 1 # None
    BY <1>0, <1>1, RegistryAssumption DEF GenerateAgentToken, Tokens
  <2> DEFINE x == [Idle EXCEPT !.kind = "generate", !.at = a,
                               !.token = issued + 1]
  <2>3. x \in Requests
    BY <2>2, BuiltRequest DEF Kinds
  <2>4. x.kind = "generate" /\ x.token = issued + 1
    BY DEF Idle
  <2>5. ops' \in [Ops -> Requests] /\ RequestsAreComplete'
    BY <2>1, <2>2, <2>3, <2>4, SlotShape DEF ByIdKinds, AgentKinds, Minting
  <2> QED
    BY <1>0, <1>1, <2>5, RegistryAssumption
       DEF GenerateAgentToken, TypeOK, wire, Tokens
<1>2. ASSUME NEW a \in Agents, RegenerateToken(o, a) PROVE Shape'
  <2>2. issued + 1 \in Tokens /\ issued + 1 # None
    BY <1>0, <1>2, RegistryAssumption DEF RegenerateToken, Tokens
  <2> DEFINE x == [Idle EXCEPT !.kind = "regenerate", !.at = a,
                               !.token = issued + 1]
  <2>3. x \in Requests
    BY <2>2, BuiltRequest DEF Kinds
  <2>4. x.at = a /\ x.token = issued + 1
    BY DEF Idle
  <2>5. ops' \in [Ops -> Requests] /\ RequestsAreComplete'
    BY <1>2, <2>2, <2>3, <2>4, SlotShape DEF RegenerateToken, Begin
  <2> QED
    BY <1>0, <1>2, <2>5, RegistryAssumption
       DEF RegenerateToken, TypeOK, wire, Tokens
<1>3. ASSUME NEW a \in Agents, NEW k \in AgentKinds \cup {"revoke"},
             ops' = [ops EXCEPT ![o] = [Idle EXCEPT !.kind = k, !.at = a]],
             UNCHANGED <<rows, issued, cooldown, wire, shown, retired>>
      PROVE  Shape'
  <2> DEFINE x == [Idle EXCEPT !.kind = k, !.at = a]
  <2>3. x \in Requests
    BY BuiltRequest DEF Kinds
  <2>4. x.at = a /\ x.kind = k
    BY DEF Idle
  <2>5. ops' \in [Ops -> Requests] /\ RequestsAreComplete'
    BY <1>3, <2>3, <2>4, SlotShape DEF AgentKinds, Minting
  <2> QED
    BY <1>3, <2>5 DEF TypeOK, wire
<1>4. ASSUME NEW todo \in SUBSET Agents, NEW k \in {"offline", "renew"},
             ops' = [ops EXCEPT ![o] = [Idle EXCEPT !.kind = k, !.todo = todo]],
             UNCHANGED <<rows, issued, cooldown, wire, shown, retired>>
      PROVE  Shape'
  <2> DEFINE x == [Idle EXCEPT !.kind = k, !.todo = todo]
  <2>3. x \in Requests
    BY BuiltRequest DEF Kinds
  <2>4. x.kind = k
    BY DEF Idle
  <2>5. ops' \in [Ops -> Requests] /\ RequestsAreComplete'
    BY <1>4, <2>3, <2>4, SlotShape DEF ByIdKinds, AgentKinds, Minting
  <2> QED
    BY <1>4, <2>5 DEF TypeOK, wire
<1>5. CASE \E a \in Agents : RevokeToken(o, a)
  BY <1>3, <1>5 DEF RevokeToken, Begin
<1>6. CASE \E a \in Agents, k \in AgentKinds : Authenticate(o, k, a)
  BY <1>3, <1>6 DEF Authenticate, Begin
<1>7. CASE MarkStaleAgentsOffline(o)
  BY <1>4, <1>7 DEF MarkStaleAgentsOffline, Begin
<1>8. CASE AutoRenewConnectedTokens(o)
  BY <1>4, <1>8 DEF AutoRenewConnectedTokens, Begin
<1> QED
  BY <1>1, <1>2, <1>5, <1>6, <1>7, <1>8 DEF BeginStep

\* A request that goes on keeps the state well formed.
LEMMA RequestShape ==
  ASSUME Shape, NEW o \in Ops, RequestStep(o)
  PROVE  Shape'
<1> USE DEF Shape
<1>0. /\ rows \in [Agents -> GoodRows] /\ issued \in 0..MaxTokens
      /\ ops[o] \in Requests /\ ops \in [Ops -> Requests]
  BY DEF TypeOK
<1>t. /\ ops[o].token \in Tokens \cup {None}
      /\ ops[o].at \in Agents \cup {None}
  BY <1>0 DEF Requests
<1>a. ops[o].kind \in ByIdKinds => ops[o].at \in Agents
  BY DEF RequestsAreComplete
<1>m. ops[o].kind \in Minting \cup {"renewPush"} =>
        ops[o].token \in Tokens /\ ops[o].token # None
  BY <1>t DEF RequestsAreComplete
<1>r. ASSUME NEW a \in Agents, Present(a) PROVE rows[a].token \in Tokens
  BY <1>0, <1>r DEF GoodRows, Rows, Present
<1>1. CASE StoreGenerated(o)
  <2>1. ops' \in [Ops -> Requests] /\ RequestsAreComplete'
    BY <1>1, FinishShape DEF StoreGenerated
  <2>2. ops[o].token \in Tokens /\ ops[o].token # None
    BY <1>1, <1>m DEF StoreGenerated, Minting
  <2>3. rows' \in [Agents -> GoodRows]
    <3>1. CASE \E b \in Agents :
                 rows' = [rows EXCEPT ![b] = [NoRow EXCEPT
                            !.life = "present", !.token = ops[o].token]]
      BY <1>0, <2>2, <3>1, StoredRow
    <3>2. CASE /\ ops[o].at \in Agents
               /\ rows' = [rows EXCEPT ![ops[o].at].token = ops[o].token,
                     ![ops[o].at].age = "fresh",
                     ![ops[o].at].status = "pending",
                     ![ops[o].at].revoked = FALSE]
      <4>1. rows' = [rows EXCEPT ![ops[o].at] = [rows[ops[o].at] EXCEPT
                       !.token = ops[o].token, !.age = "fresh",
                       !.status = "pending", !.revoked = FALSE]]
        BY <1>0, <3>2
      <4>2. rows[ops[o].at] \in GoodRows
        BY <1>0, <3>2
      <4> QED
        BY <1>0, <2>2, <4>1, <4>2, StoredRow
    <3>3. CASE UNCHANGED rows
      BY <1>0, <3>3
    <3> QED
      BY <1>1, <3>1, <3>2, <3>3 DEF StoreGenerated
  <2> QED
    BY <1>1, <2>1, <2>2, <2>3, <1>r, GoodTable DEF StoreGenerated, TypeOK, wire
<1>2. CASE StoreRevoked(o)
  <2>1. ops' \in [Ops -> Requests] /\ RequestsAreComplete'
    BY <1>2, FinishShape DEF StoreRevoked
  <2>2. ops[o].at \in Agents
    BY <1>2, <1>a DEF StoreRevoked, ByIdKinds
  <2>3. rows' \in [Agents -> GoodRows]
    BY <1>0, <1>2, <2>2, WrittenRow, UpdateType DEF StoreRevoked, Statuses
  <2> QED
    BY <1>2, <2>1, <2>2, <2>3, <1>r, GoodTable DEF StoreRevoked, TypeOK, wire
<1>3. CASE StoreRegenerated(o)
  <2>1. ops' \in [Ops -> Requests] /\ RequestsAreComplete'
    BY <1>3, FinishShape DEF StoreRegenerated
  <2>2. /\ ops[o].at \in Agents
        /\ ops[o].token \in Tokens /\ ops[o].token # None
    BY <1>3, <1>a, <1>m DEF StoreRegenerated, ByIdKinds, Minting
  <2>3. rows' \in [Agents -> GoodRows]
    <3>1. CASE Present(ops[o].at)
      <4>1. rows' = [rows EXCEPT ![ops[o].at] = [rows[ops[o].at] EXCEPT
                       !.token = ops[o].token, !.status = "pending",
                       !.seen = "never", !.age = "fresh", !.revoked = FALSE]]
        BY <1>0, <1>3, <3>1 DEF StoreRegenerated
      <4>2. rows[ops[o].at] \in GoodRows
        BY <1>0, <2>2
      <4> QED
        BY <1>0, <2>2, <4>1, <4>2, StoredRow
    <3> QED
      BY <1>0, <1>3, <3>1 DEF StoreRegenerated
  <2> QED
    <3>1. retired' \subseteq Tokens /\ shown' \subseteq Tokens
      BY <1>3, <2>2, <1>r DEF StoreRegenerated, TypeOK
    <3>2. UNCHANGED <<issued, cooldown, wire>>
      BY <1>3 DEF StoreRegenerated
    <3> QED
      BY <2>1, <2>3, <3>1, <3>2, GoodTable DEF TypeOK, wire
<1>4. ASSUME ops[o].kind \in AgentKinds, Quiet(o),
             NEW s \in Statuses,
             \/ UpdateRow(ops[o].at, [rows[ops[o].at] EXCEPT !.status = s,
                                                     !.seen = "recent"])
             \/ UpdateRow(ops[o].at, [rows[ops[o].at] EXCEPT !.seen = "recent"])
      PROVE  Shape'
  <2>1. ops' \in [Ops -> Requests] /\ RequestsAreComplete'
    BY <1>4, FinishShape DEF Quiet
  <2>2. ops[o].at \in Agents
    BY <1>4, <1>a DEF ByIdKinds
  <2>3. rows' \in [Agents -> GoodRows]
    BY <1>0, <1>4, <2>2, WrittenRow, UpdateType
  <2> QED
    BY <1>4, <2>1, <2>3, GoodTable DEF Quiet, TypeOK, wire
<1>5. CASE RegisterAgent(o)
  BY <1>4, <1>5 DEF RegisterAgent, AgentKinds, Statuses
<1>6. CASE ValidateAgent(o)
  BY <1>4, <1>6 DEF ValidateAgent, AgentKinds, Statuses
<1>7. CASE \E s \in Statuses \ {"pending"} : ProcessHeartbeat(o, s)
  BY <1>4, <1>7 DEF ProcessHeartbeat, AgentKinds
<1>8. CASE IngestData(o)
  <2>1. "online" \in Statuses /\ "ingest" \in AgentKinds
    BY DEF Statuses, AgentKinds
  <2> QED
    BY <1>4, <1>8, <2>1 DEF IngestData
<1>9. CASE ReadCommand(o)
  <2>1. ops[o].at \in Agents
    BY <1>9, <1>a DEF ReadCommand, ByIdKinds, AgentKinds
  <2>2. rows[ops[o].at].command \in Commands \cup {None}
    BY <1>0, <2>1 DEF GoodRows, Rows
  <2> DEFINE x == [ops[o] EXCEPT !.kind = "consume",
                                 !.command = rows[ops[o].at].command]
  <2>3. x \in Requests
    BY <1>0, <2>2 DEF Requests, Kinds
  <2>4. x.at = ops[o].at /\ x.kind = "consume"
    BY <1>0 DEF Requests
  <2>5. ops' = [ops EXCEPT ![o] = x] \/ ops' = [ops EXCEPT ![o] = Idle]
    BY <1>0, <1>9 DEF ReadCommand
  <2> HIDE DEF x
  <2>6. ops' \in [Ops -> Requests] /\ RequestsAreComplete'
    BY <2>1, <2>3, <2>4, <2>5, SlotShape, ConstantTypes DEF Minting
  <2> QED
    BY <1>9, <2>6, <1>0 DEF ReadCommand, TypeOK, wire
<1>10. ASSUME NEW s \in Statuses, HeartbeatV1(o, s) PROVE Shape'
  <2>1. ops' \in [Ops -> Requests] /\ RequestsAreComplete'
    BY <1>10, FinishShape DEF HeartbeatV1, Quiet
  <2>2. ops[o].at \in Agents
    BY <1>10, <1>a DEF HeartbeatV1, ByIdKinds
  <2>3. rows' \in [Agents -> GoodRows]
    BY <1>0, <1>10, <2>2, WrittenRow, UpdateType DEF HeartbeatV1
  <2> QED
    BY <1>10, <2>1, <2>2, <2>3, GoodTable
    DEF HeartbeatV1, Quiet, TypeOK, wire
<1>11. CASE StoreOffline(o)
  <2>1. ops' \in [Ops -> Requests] /\ RequestsAreComplete'
    BY <1>11, FinishShape DEF StoreOffline, Quiet
  <2>2. rows' \in [Agents -> GoodRows]
    BY <1>0, <1>11, WrittenRow DEF StoreOffline, Statuses
  <2> QED
    BY <1>11, <2>1, <2>2, GoodTable DEF StoreOffline, Quiet, TypeOK, wire
<1>12. ASSUME NEW a \in Agents, RenewNext(o, a) PROVE Shape'
  <2> DEFINE rest == [ops[o] EXCEPT !.todo = @ \ {a}]
  <2>1. rest \in Requests /\ rest.kind = "renew"
    BY <1>0, <1>12 DEF RenewNext, Requests
  <2>2. CASE ops' = [ops EXCEPT ![o] = rest] /\ UNCHANGED issued
    <3> HIDE DEF rest
    <3>1. ops' \in [Ops -> Requests] /\ RequestsAreComplete'
      BY <2>1, <2>2, SlotShape DEF ByIdKinds, AgentKinds, Minting
    <3> QED
      BY <1>12, <2>2, <3>1, <1>0 DEF RenewNext, TypeOK, wire
  <2>3. CASE /\ issued < MaxTokens /\ issued' = issued + 1
             /\ ops' = [ops EXCEPT ![o] = [rest EXCEPT !.kind = "renewWrite",
                                      !.at = a, !.token = issued + 1]]
    <3>1. issued + 1 \in Tokens /\ issued + 1 # None
      BY <1>0, <2>3, RegistryAssumption DEF Tokens
    <3> HIDE DEF rest
    <3>2. PICK t \in Tokens : t = issued + 1 /\ t # None
      BY <3>1
    <3> DEFINE x == [rest EXCEPT !.kind = "renewWrite", !.at = a, !.token = t]
    <3>3. x \in Requests /\ x.at = a /\ x.token = t
      BY <2>1 DEF Requests, Kinds
    <3>4. ops' = [ops EXCEPT ![o] = x]
      BY <2>3, <3>2
    <3> HIDE DEF x
    <3>5. ops' \in [Ops -> Requests] /\ RequestsAreComplete'
      BY <3>2, <3>3, <3>4, SlotShape
    <3>6. issued' \in 0..MaxTokens
      BY <2>3, <1>0, RegistryAssumption
    <3> QED
      BY <1>12, <3>5, <3>6, <1>0 DEF RenewNext, TypeOK, wire
  <2> QED
    BY <1>12, <2>2, <2>3 DEF RenewNext
<1>13. CASE RenewDone(o)
  <2>1. ops' \in [Ops -> Requests] /\ RequestsAreComplete'
    BY <1>13, FinishShape DEF RenewDone, Quiet
  <2> QED
    BY <1>13, <2>1, <1>0 DEF RenewDone, Quiet, TypeOK, wire
<1>14. CASE StoreRenewed(o)
  <2>1. /\ ops[o].at \in Agents
        /\ ops[o].token \in Tokens /\ ops[o].token # None
    BY <1>14, <1>a, <1>m DEF StoreRenewed, ByIdKinds, Minting
  <2> DEFINE x == [ops[o] EXCEPT !.kind = "renewPush"]
             y == [ops[o] EXCEPT !.kind = "renew", !.at = None, !.token = None]
  <2>2. /\ x \in Requests /\ x.kind = "renewPush"
        /\ x.at = ops[o].at /\ x.token = ops[o].token
    BY <1>0 DEF Requests, Kinds
  <2>3. y \in Requests /\ y.kind = "renew"
    BY <1>0 DEF Requests, Kinds
  <2>4. ops' = [ops EXCEPT ![o] = x] \/ ops' = [ops EXCEPT ![o] = y]
    BY <1>0, <1>14 DEF StoreRenewed
  <2> HIDE DEF x, y
  <2>5. ops' \in [Ops -> Requests] /\ RequestsAreComplete'
    BY <2>1, <2>2, <2>3, <2>4, SlotShape DEF ByIdKinds, AgentKinds, Minting
  <2>6. rows' \in [Agents -> GoodRows]
    BY <1>0, <1>14, <2>1 DEF StoreRenewed, GoodRows, Rows
  <2> QED
    BY <1>14, <2>1, <2>5, <2>6, <1>r, GoodTable DEF StoreRenewed, TypeOK, wire
<1>15. CASE PushRenewed(o)
  <2>1. ops[o].at \in Agents /\ ops[o].token \in Tokens
    BY <1>15, <1>a, <1>m DEF PushRenewed, ByIdKinds
  <2> DEFINE y == [ops[o] EXCEPT !.kind = "renew", !.at = None, !.token = None]
  <2>3. y \in Requests /\ y.kind = "renew"
    BY <1>0 DEF Requests, Kinds
  <2>4. ops' = [ops EXCEPT ![o] = y]
    BY <1>0, <1>15 DEF PushRenewed
  <2> HIDE DEF y
  <2>5. ops' \in [Ops -> Requests] /\ RequestsAreComplete'
    BY <2>3, <2>4, SlotShape DEF ByIdKinds, AgentKinds, Minting
  <2>6. cooldown' \in [Agents -> BOOLEAN]
    BY <1>15, <2>1 DEF PushRenewed, TypeOK
  <2>7. inbox' \in Seq(Tokens)
    BY <1>15, <2>1 DEF PushRenewed, TypeOK
  <2> QED
    BY <1>15, <2>5, <2>6, <2>7, <1>0 DEF PushRenewed, TypeOK
<1> QED
  BY <1>1, <1>2, <1>3, <1>5, <1>6, <1>7, <1>8, <1>9, <1>10, <1>11, <1>12,
     <1>13, <1>14, <1>15 DEF RequestStep

\* What a request has generated and not stored is a token that request holds.
LEMMA UnstoredTokens ==
  ASSUME Shape, NEW D \in SUBSET Ops
  PROVE  /\ Unstored(D) \subseteq Tokens
         /\ \A t : t \in Unstored(D) <=>
              \E o \in D : ops[o].kind \in Minting /\ ops[o].token = t
BY DEF Shape, TypeOK, Requests, RequestsAreComplete, Unstored, Minting

\* Every step keeps the state well formed.
LEMMA NextShape ==
  ASSUME Shape, [Next]_vars
  PROVE  Shape'
<1> USE DEF Shape
<1>0. rows \in [Agents -> GoodRows] /\ ops \in [Ops -> Requests]
  BY DEF TypeOK
<1>r. ASSUME NEW a \in Agents, Present(a) PROVE rows[a].token \in Tokens
  BY <1>0, <1>r DEF GoodRows, Rows, Present
<1>1. CASE \E o \in Ops : BeginStep(o) \/ RequestStep(o)
  BY <1>1, BeginShape, RequestShape
<1>2. ASSUME NEW a \in Agents, DeleteAgent(a) PROVE Shape'
  <2>1. [NoRow EXCEPT !.life = "deleted"] \in GoodRows
    BY ConstantTypes DEF GoodRows, Rows
  <2>2. rows' \in [Agents -> GoodRows]
    BY <1>0, <1>2, <2>1 DEF DeleteAgent
  <2>3. ops' \in [Ops -> Requests] /\ RequestsAreComplete'
    BY <1>2, SameOpsShape DEF DeleteAgent
  <2>4. retired' \subseteq Tokens
    BY <1>2, <1>r DEF DeleteAgent, TypeOK
  <2> QED
    BY <1>2, <2>2, <2>3, <2>4, GoodTable DEF DeleteAgent, TypeOK, wire
<1>3. ASSUME NEW a \in Agents, NEW c \in Commands, SendCommand(a, c)
      PROVE  Shape'
  <2>1. rows' \in [Agents -> GoodRows]
    BY <1>0, <1>3 DEF SendCommand, GoodRows, Rows
  <2>2. ops' \in [Ops -> Requests] /\ RequestsAreComplete'
    BY <1>3, SameOpsShape DEF SendCommand
  <2> QED
    BY <1>3, <2>1, <2>2, GoodTable DEF SendCommand, TypeOK, wire
<1>4. ASSUME NEW a \in Agents, SeenAges(a) PROVE Shape'
  <2>1. rows' \in [Agents -> GoodRows]
    BY <1>0, <1>4 DEF SeenAges, GoodRows, Rows
  <2>2. ops' \in [Ops -> Requests] /\ RequestsAreComplete'
    BY <1>4, SameOpsShape DEF SeenAges
  <2> QED
    BY <1>4, <2>1, <2>2, GoodTable DEF SeenAges, TypeOK, wire
<1>5. ASSUME NEW a \in Agents, TokenAges(a) PROVE Shape'
  <2>1. rows' \in [Agents -> GoodRows]
    BY <1>0, <1>5 DEF TokenAges, GoodRows, Rows
  <2>2. ops' \in [Ops -> Requests] /\ RequestsAreComplete'
    BY <1>5, SameOpsShape DEF TokenAges
  <2>3. retired' \subseteq Tokens
    BY <1>5, <1>r DEF TokenAges, TypeOK
  <2> QED
    BY <1>5, <2>1, <2>2, <2>3, GoodTable DEF TokenAges, TypeOK, wire
<1>6. ASSUME UNCHANGED <<rows, issued, shown, retired>>,
             link' \in Links, inbox' \in Seq(Tokens),
             held' \in Tokens \cup {None}, cooldown' \in [Agents -> BOOLEAN],
             ops' \in [Ops -> Requests], RequestsAreComplete'
      PROVE  Shape'
  BY <1>0, <1>6 DEF TypeOK
<1>7. ASSUME UNCHANGED ops
      PROVE  ops' \in [Ops -> Requests] /\ RequestsAreComplete'
  BY <1>7, SameOpsShape
<1>8. CASE \E a \in Agents : CooldownEnds(a)
  BY <1>8, <1>6, <1>7 DEF CooldownEnds, TypeOK, wire
<1>9. CASE \E a \in Agents, leader \in BOOLEAN : HandleConnection(a, leader)
  <2>1. link' \in Links
    BY <1>9 DEF HandleConnection, Links
  <2> QED
    BY <1>9, <2>1, <1>6, <1>7 DEF HandleConnection, TypeOK
<1>10. CASE HandleDisconnect
  <2>1. link' \in Links /\ inbox' \in Seq(Tokens)
    BY <1>10, ConstantTypes DEF HandleDisconnect
  <2> QED
    BY <1>10, <2>1, <1>6, <1>7 DEF HandleDisconnect, TypeOK
<1>11. CASE TokenRenewal
  <2>1. inbox' \in Seq(Tokens) /\ held' \in Tokens \cup {None}
    BY <1>11 DEF TokenRenewal, TypeOK
  <2> QED
    BY <1>11, <2>1, <1>6, <1>7 DEF TokenRenewal, TypeOK
<1>12. CASE \E t \in Tokens : Install(t)
  BY <1>12, <1>6, <1>7 DEF Install, TypeOK
<1>13. ASSUME NEW dead \in SUBSET Ops, Restart(dead) PROVE Shape'
  <2>1. ops' \in [Ops -> Requests]
    BY <1>0, <1>13, ConstantTypes DEF Restart
  <2>2. \A o \in Ops : ops'[o] = Idle \/ ops'[o] = ops[o]
    BY <1>13 DEF Restart
  <2>3. RequestsAreComplete'
    BY <2>2, ConstantTypes DEF RequestsAreComplete
  <2>5. retired' \subseteq Tokens
    BY <1>13, UnstoredTokens DEF Restart, TypeOK
  <2>4. link' \in Links /\ inbox' \in Seq(Tokens)
    <3>1. CASE link' = NoLink /\ inbox' = <<>>
      BY <3>1, ConstantTypes
    <3>2. CASE UNCHANGED <<link, inbox>>
      BY <3>2 DEF TypeOK
    <3> QED
      BY <1>13, <3>1, <3>2 DEF Restart
  <2> QED
    BY <1>0, <1>13, <2>1, <2>3, <2>4, <2>5 DEF Restart, TypeOK
<1>14. CASE UNCHANGED vars
  BY <1>14, <1>6, <1>7 DEF vars, TypeOK
<1> QED
  BY <1>1, <1>2, <1>3, <1>4, <1>5, <1>8, <1>9, <1>10, <1>11, <1>12, <1>13,
     <1>14 DEF Next

----------------------------------------------------------------------------
(* Tokens                                                                  *)

\* The parts of the invariant about tokens.
TokenInv ==
  TokensAreIssued /\ NewTokensAreUnused /\ TokensAreOwn /\ RetiredTokensStayOut

\* What the agent's requests make of row a.
Reported(a, s) ==
  {[rows[a] EXCEPT !.status = s, !.seen = "recent"],
   [rows[a] EXCEPT !.seen = "recent"],
   [rows[a] EXCEPT !.status = s, !.seen = "recent", !.command = None]}

\* Row a keeps its token and becomes no more acceptable than it was.
KeepsRow(a) ==
  /\ rows'[a].token = rows[a].token /\ rows'[a].life = rows[a].life
  /\ Accepted(rows'[a]) => Accepted(rows[a])

\* Request o carries no token it did not carry before.
KeepsRequest(o) ==
  ops'[o].kind \in Minting =>
    ops[o].kind \in Minting /\ ops'[o].token = ops[o].token

\* Steps that store, generate and retire nothing.
LEMMA PlainStep ==
  ASSUME TokenInv, \A a \in Agents : KeepsRow(a),
         \A o \in Ops : KeepsRequest(o), UNCHANGED <<issued, retired>>
  PROVE  TokenInv'
BY DEF TokenInv, TokensAreIssued, NewTokensAreUnused, TokensAreOwn,
       RetiredTokensStayOut, KeepsRow, KeepsRequest, Present

\* A request generates the next token: nothing holds it yet.
LEMMA MintStep ==
  ASSUME Shape, TokenInv, NEW o \in Ops, \A a \in Agents : KeepsRow(a),
         \A p \in Ops \ {o} : KeepsRequest(p),
         ops'[o].token = issued + 1, issued' = issued + 1, UNCHANGED retired
  PROVE  TokenInv'
<1>1. issued \in Nat
  BY RegistryAssumption DEF Shape, TypeOK
<1>2. /\ \A a \in Agents : Present(a) => rows[a].token \in Nat
      /\ \A p \in Ops : ops[p].kind \in Minting => ops[p].token \in Nat
      /\ \A t \in retired : t \in Nat
  BY RegistryAssumption
     DEF Shape, TypeOK, GoodRows, Rows, Requests, RequestsAreComplete,
         Tokens, Present
<1>3. TokensAreIssued'
  BY <1>1, <1>2 DEF TokenInv, TokensAreIssued, KeepsRow, KeepsRequest, Present
<1>4. NewTokensAreUnused'
  BY <1>1, <1>2 DEF TokenInv, TokensAreIssued, NewTokensAreUnused, KeepsRow,
                    KeepsRequest, Present
<1>5. TokensAreOwn' /\ RetiredTokensStayOut'
  BY DEF TokenInv, TokensAreOwn, RetiredTokensStayOut, KeepsRow, Present
<1> QED
  BY <1>3, <1>4, <1>5 DEF TokenInv

\* Row a is no longer acceptable and its token is retired.
LEMMA RetireStep ==
  ASSUME Shape, TokenInv, NEW a \in Agents, Present(a),
         \A b \in Agents \ {a} : KeepsRow(b),
         rows'[a].life = "present" => rows'[a].token = rows[a].token,
         ~Accepted(rows'[a]), \A o \in Ops : KeepsRequest(o),
         retired' = retired \cup {rows[a].token}, UNCHANGED issued
  PROVE  TokenInv'
<1>1. TokensAreIssued'
  BY DEF TokenInv, TokensAreIssued, KeepsRow, KeepsRequest, Present
<1>2. NewTokensAreUnused'
  BY DEF TokenInv, NewTokensAreUnused, KeepsRow, KeepsRequest, Present
<1>3. TokensAreOwn'
  BY DEF TokenInv, TokensAreOwn, KeepsRow, Present
<1>4. RetiredTokensStayOut'
  BY DEF TokenInv, TokensAreOwn, RetiredTokensStayOut, KeepsRow, Present,
         Accepted
<1> QED
  BY <1>1, <1>2, <1>3, <1>4 DEF TokenInv

\* Row a is given the token of request o, and its old token, if it had one, is
\* retired.
LEMMA StoreStep ==
  ASSUME Shape, TokenInv, NEW a \in Agents, NEW o \in Ops,
         ops[o].kind \in Minting, ops'[o].kind \notin Minting,
         \A p \in Ops \ {o} : KeepsRequest(p),
         \A b \in Agents \ {a} : KeepsRow(b), rows'[a].token = ops[o].token,
         \/ Present(a) /\ retired' = retired \cup {rows[a].token}
         \/ UNCHANGED retired,
         UNCHANGED issued
  PROVE  TokenInv'
<1>1. TokensAreIssued'
  BY DEF TokenInv, TokensAreIssued, KeepsRow, KeepsRequest, Present
<1>2. NewTokensAreUnused'
  BY DEF TokenInv, NewTokensAreUnused, KeepsRow, KeepsRequest, Present
<1>3. TokensAreOwn'
  BY DEF TokenInv, TokensAreOwn, NewTokensAreUnused, KeepsRow, Present
<1>4. RetiredTokensStayOut'
  BY DEF TokenInv, TokensAreOwn, NewTokensAreUnused, RetiredTokensStayOut,
         KeepsRow, Present, Accepted
<1> QED
  BY <1>1, <1>2, <1>3, <1>4 DEF TokenInv

\* Requests D end without storing what they generated, which is retired.
LEMMA DropStep ==
  ASSUME Shape, TokenInv, NEW D \in SUBSET Ops,
         \A o \in D : ops'[o].kind \notin Minting,
         \A o \in Ops : KeepsRequest(o), UNCHANGED <<rows, issued>>,
         retired' = retired \cup Unstored(D)
  PROVE  TokenInv'
<1>1. \A t \in retired' :
        t \in retired \/ \E o \in D : ops[o].kind \in Minting /\ ops[o].token = t
  BY UnstoredTokens
<1>2. TokensAreIssued'
  BY <1>1 DEF TokenInv, TokensAreIssued, KeepsRequest, Present
<1>3. NewTokensAreUnused'
  BY <1>1 DEF TokenInv, NewTokensAreUnused, KeepsRequest, Present
<1>4. TokensAreOwn'
  BY DEF TokenInv, TokensAreOwn, Present
<1>5. RetiredTokensStayOut'
  BY <1>1 DEF TokenInv, NewTokensAreUnused, RetiredTokensStayOut, Present,
              Accepted
<1> QED
  BY <1>2, <1>3, <1>4, <1>5 DEF TokenInv

\* Request o ends without storing its token.
LEMMA DropOne ==
  ASSUME Shape, TokenInv, NEW o \in Ops, ops[o].kind \in Minting,
         ops'[o].kind \notin Minting,
         \A p \in Ops : KeepsRequest(p), UNCHANGED <<rows, issued>>,
         retired' = retired \cup {ops[o].token}
  PROVE  TokenInv'
<1>1. Unstored({o}) = {ops[o].token}
  BY UnstoredTokens
<1> QED
  BY <1>1, DropStep

\* Steps that leave the table alone keep every row.
LEMMA SameTable ==
  ASSUME UNCHANGED rows
  PROVE  \A a \in Agents : KeepsRow(a)
BY DEF KeepsRow

\* An update that does not touch token, life, age and revocation keeps every
\* row.
LEMMA UpdateKeeps ==
  ASSUME rows \in [Agents -> GoodRows], NEW a \in Agents, NEW x \in GoodRows,
         x.token = rows[a].token, x.life = rows[a].life,
         x.age = rows[a].age, rows[a].revoked => x.revoked,
         UpdateRow(a, x)
  PROVE  \A b \in Agents : KeepsRow(b)
BY DEF UpdateRow, KeepsRow, Accepted

\* A slot that is freed, or filled with a request that generates nothing,
\* keeps every request.
LEMMA SlotKeeps ==
  ASSUME ops \in [Ops -> Requests], NEW o \in Ops, NEW x,
         x.kind \notin Minting, ops' = [ops EXCEPT ![o] = x]
  PROVE  \A p \in Ops : KeepsRequest(p)
BY DEF KeepsRequest

\* Starting a request keeps the token invariant.
LEMMA BeginTokens ==
  ASSUME Shape, TokenInv, NEW o \in Ops, BeginStep(o)
  PROVE  TokenInv'
<1>0. ops \in [Ops -> Requests]
  BY DEF Shape, TypeOK
<1>1. ASSUME NEW x, x.token = issued + 1, ops' = [ops EXCEPT ![o] = x],
             issued' = issued + 1, UNCHANGED <<rows, retired>>
      PROVE  TokenInv'
  <2>1. ops'[o] = x /\ \A p \in Ops \ {o} : KeepsRequest(p)
    BY <1>0, <1>1 DEF KeepsRequest
  <2> QED
    BY <1>1, <2>1, SameTable, MintStep 
<1>2. ASSUME NEW x, x.kind \notin Minting, ops' = [ops EXCEPT ![o] = x],
             UNCHANGED <<rows, issued, retired>>
      PROVE  TokenInv'
  BY <1>0, <1>2, SameTable, SlotKeeps, PlainStep 
<1>3. CASE GenerateAgentToken(o)
  <2>1. PICK a \in Agents \cup {None} :
          ops' = [ops EXCEPT ![o] = [Idle EXCEPT !.kind = "generate",
                                       !.at = a, !.token = issued + 1]]
    BY <1>3 DEF GenerateAgentToken, Begin
  <2>2. [Idle EXCEPT !.kind = "generate", !.at = a,
                     !.token = issued + 1].token = issued + 1
    BY DEF Idle
  <2> QED
    BY <1>1, <1>3, <2>1, <2>2 DEF GenerateAgentToken
<1>4. ASSUME NEW a \in Agents, RegenerateToken(o, a) PROVE TokenInv'
  <2>1. [Idle EXCEPT !.kind = "regenerate", !.at = a,
                     !.token = issued + 1].token = issued + 1
    BY DEF Idle
  <2> QED
    BY <1>1, <1>4, <2>1 DEF RegenerateToken, Begin
<1>5. ASSUME NEW k, NEW a, NEW todo, k \notin Minting
      PROVE  /\ [Idle EXCEPT !.kind = k, !.at = a].kind \notin Minting
             /\ [Idle EXCEPT !.kind = k, !.todo = todo].kind \notin Minting
  BY <1>5 DEF Idle
<1>6. ASSUME NEW a \in Agents, RevokeToken(o, a) PROVE TokenInv'
  BY <1>2, <1>5, <1>6 DEF RevokeToken, Begin, Minting
<1>7. ASSUME NEW a \in Agents, NEW k \in AgentKinds, Authenticate(o, k, a)
      PROVE  TokenInv'
  <2>1. k \notin Minting
    BY DEF AgentKinds, Minting
  <2> QED
    BY <1>2, <1>5, <1>7, <2>1 DEF Authenticate, Begin
<1>8. CASE MarkStaleAgentsOffline(o)
  BY <1>2, <1>5, <1>8 DEF MarkStaleAgentsOffline, Begin, Minting
<1>9. CASE AutoRenewConnectedTokens(o)
  BY <1>2, <1>5, <1>9 DEF AutoRenewConnectedTokens, Begin, Minting
<1> QED
  BY <1>3, <1>4, <1>6, <1>7, <1>8, <1>9 DEF BeginStep

\* A request that goes on keeps the token invariant.
LEMMA RequestTokens ==
  ASSUME Shape, TokenInv, NEW o \in Ops, RequestStep(o)
  PROVE  TokenInv'
<1>0. /\ rows \in [Agents -> GoodRows] /\ ops \in [Ops -> Requests]
      /\ ops[o] \in Requests
  BY DEF Shape, TypeOK
<1>a. ops[o].kind \in ByIdKinds => ops[o].at \in Agents
  BY DEF Shape, RequestsAreComplete
<1>f. ASSUME Finish(o)
      PROVE  ops'[o].kind \notin Minting /\ \A p \in Ops : KeepsRequest(p)
  BY <1>0, <1>f, SlotKeeps, ConstantTypes DEF Finish
<1>1. CASE StoreGenerated(o)
  <2>1. ops'[o].kind \notin Minting /\ \A p \in Ops : KeepsRequest(p)
    BY <1>1, <1>f DEF StoreGenerated
  <2>2. ops[o].kind \in Minting /\ UNCHANGED issued
    BY <1>1 DEF StoreGenerated, Minting
  <2>3. ASSUME NEW b \in Agents, UNCHANGED retired,
               rows' = [rows EXCEPT ![b] = [NoRow EXCEPT
                          !.life = "present", !.token = ops[o].token]]
        PROVE  TokenInv'
    <3>1. rows'[b].token = ops[o].token
      BY <1>0, <2>3 DEF NoRow
    <3>2. \A c \in Agents \ {b} : KeepsRow(c)
      BY <1>0, <2>3 DEF KeepsRow
    <3> QED
      BY <2>1, <2>2, <2>3, <3>1, <3>2, StoreStep
  <2>4. CASE /\ ops[o].at \in Agents /\ Present(ops[o].at)
             /\ rows' = [rows EXCEPT ![ops[o].at].token = ops[o].token,
                   ![ops[o].at].age = "fresh",
                   ![ops[o].at].status = "pending",
                   ![ops[o].at].revoked = FALSE]
             /\ retired' = retired \cup {rows[ops[o].at].token}
    <3>1. rows'[ops[o].at].token = ops[o].token
      BY <1>0, <2>4 DEF GoodRows, Rows
    <3>2. \A c \in Agents \ {ops[o].at} : KeepsRow(c)
      BY <1>0, <2>4 DEF KeepsRow
    <3> QED
      BY <2>1, <2>2, <2>4, <3>1, <3>2, StoreStep
  <2>5. CASE UNCHANGED rows /\ retired' = retired \cup {ops[o].token}
    BY <2>1, <2>2, <2>5, DropOne
  <2> QED
    BY <1>1, <2>3, <2>4, <2>5 DEF StoreGenerated
<1>2. CASE StoreRevoked(o)
  <2>1. \A p \in Ops : KeepsRequest(p)
    BY <1>2, <1>f DEF StoreRevoked
  <2>2. PICK a \in Agents : a = ops[o].at
    BY <1>2, <1>a DEF StoreRevoked, ByIdKinds
  <2>3. CASE Present(a)
    <3>1. /\ rows' = [rows EXCEPT ![a] = [rows[a] EXCEPT !.revoked = TRUE,
                                                  !.status = "pending"]]
          /\ retired' = retired \cup {rows[a].token} /\ UNCHANGED issued
      BY <1>2, <2>2, <2>3 DEF StoreRevoked, UpdateRow
    <3>2. rows'[a].token = rows[a].token /\ rows'[a].revoked
      BY <1>0, <3>1 DEF GoodRows, Rows
    <3>3. \A c \in Agents \ {a} : KeepsRow(c)
      BY <1>0, <3>1 DEF KeepsRow
    <3>4. ~Accepted(rows'[a])
      BY <3>2 DEF Accepted
    <3> QED
      BY <2>1, <2>3, <3>1, <3>2, <3>3, <3>4, RetireStep
  <2>4. CASE ~Present(a)
    BY <1>2, <2>1, <2>2, <2>4, SameTable, PlainStep DEF StoreRevoked, UpdateRow
  <2> QED
    BY <2>3, <2>4
<1>3. CASE StoreRegenerated(o)
  <2>1. ops'[o].kind \notin Minting /\ \A p \in Ops : KeepsRequest(p)
    BY <1>3, <1>f DEF StoreRegenerated
  <2>2. ops[o].kind \in Minting /\ UNCHANGED issued
    BY <1>3 DEF StoreRegenerated, Minting
  <2>3. PICK a \in Agents : a = ops[o].at
    BY <1>3, <1>a DEF StoreRegenerated, ByIdKinds
  <2>4. CASE Present(a)
    <3>1. /\ rows' = [rows EXCEPT ![a].token = ops[o].token,
                   ![a].status = "pending", ![a].seen = "never",
                   ![a].age = "fresh", ![a].revoked = FALSE]
          /\ retired' = retired \cup {rows[a].token}
      BY <1>3, <2>3, <2>4 DEF StoreRegenerated
    <3>2. rows'[a].token = ops[o].token
      BY <1>0, <3>1 DEF GoodRows, Rows
    <3>3. \A c \in Agents \ {a} : KeepsRow(c)
      BY <1>0, <3>1 DEF KeepsRow
    <3> QED
      BY <2>1, <2>2, <2>4, <3>1, <3>2, <3>3, StoreStep
  <2>5. CASE ~Present(a)
    BY <1>3, <2>1, <2>2, <2>3, <2>5, DropOne DEF StoreRegenerated
  <2> QED
    BY <2>4, <2>5
<1>4. ASSUME Finish(o), UNCHANGED <<issued, retired>>,
             NEW a \in Agents, NEW x \in GoodRows, UpdateRow(a, x),
             x.token = rows[a].token, x.life = rows[a].life,
             x.age = rows[a].age, rows[a].revoked => x.revoked
      PROVE  TokenInv'
  BY <1>0, <1>4, <1>f, UpdateKeeps, PlainStep
<1>5. ASSUME NEW a \in Agents, NEW s \in Statuses, NEW x \in Reported(a, s)
      PROVE  /\ x \in GoodRows
             /\ x.token = rows[a].token /\ x.life = rows[a].life
             /\ x.age = rows[a].age /\ x.revoked = rows[a].revoked
  <2>1. rows[a] \in GoodRows
    BY <1>0
  <2>2. x \in GoodRows
    <3>1. /\ [rows[a] EXCEPT !.status = s, !.seen = "recent"] \in GoodRows
          /\ [rows[a] EXCEPT !.seen = "recent"] \in GoodRows
          /\ [rows[a] EXCEPT !.status = s, !.seen = "recent",
                             !.command = None] \in GoodRows
      BY <2>1, WrittenRow
    <3> QED
      BY <3>1 DEF Reported
  <2>3. rows[a] \in Rows
    BY <2>1 DEF GoodRows
  <2>4. CASE x = [rows[a] EXCEPT !.status = s, !.seen = "recent"]
    BY <2>2, <2>3, <2>4 DEF Rows
  <2>5. CASE x = [rows[a] EXCEPT !.seen = "recent"]
    BY <2>2, <2>3, <2>5 DEF Rows
  <2>6. CASE x = [rows[a] EXCEPT !.status = s, !.seen = "recent",
                                 !.command = None]
    BY <2>2, <2>3, <2>6 DEF Rows
  <2> QED
    BY <2>4, <2>5, <2>6 DEF Reported
<1>6. ASSUME Finish(o), UNCHANGED <<issued, retired>>,
             NEW a \in Agents, NEW s \in Statuses,
             \/ UpdateRow(a, [rows[a] EXCEPT !.status = s, !.seen = "recent"])
             \/ UpdateRow(a, [rows[a] EXCEPT !.seen = "recent"])
             \/ UpdateRow(a, [rows[a] EXCEPT !.status = s, !.seen = "recent",
                                            !.command = None])
      PROVE  TokenInv'
  <2>1. ASSUME NEW x \in Reported(a, s), UpdateRow(a, x)
        PROVE  TokenInv'
    <3>1. /\ x \in GoodRows
          /\ x.token = rows[a].token /\ x.life = rows[a].life
          /\ x.age = rows[a].age /\ x.revoked = rows[a].revoked
      BY <1>5, <2>1
    <3>2. rows[a].revoked => x.revoked
      BY <3>1
    <3>3. UpdateRow(a, x) /\ Finish(o) /\ UNCHANGED <<issued, retired>>
      BY <1>6, <2>1
    <3> QED
      BY ONLY a \in Agents, <1>4, <3>1, <3>2, <3>3
  <2> QED
    BY <1>6, <2>1 DEF Reported
<1>61. CASE RegisterAgent(o) \/ ValidateAgent(o) \/ IngestData(o)
  <2>1. PICK a \in Agents : a = ops[o].at
    BY <1>61, <1>a DEF RegisterAgent, ValidateAgent, IngestData, ByIdKinds,
                       AgentKinds
  <2>2. Finish(o) /\ UNCHANGED <<issued, retired>>
    BY <1>61 DEF RegisterAgent, ValidateAgent, IngestData, Quiet
  <2>3. \/ UpdateRow(a, [rows[a] EXCEPT !.status = "online", !.seen = "recent"])
        \/ UpdateRow(a, [rows[a] EXCEPT !.seen = "recent"])
    BY <1>61, <2>1 DEF RegisterAgent, ValidateAgent, IngestData
  <2>4. "online" \in Statuses
    BY DEF Statuses
  <2> QED
    BY <1>6, <2>2, <2>3, <2>4
<1>7. ASSUME NEW s \in Statuses, ProcessHeartbeat(o, s) PROVE TokenInv'
  <2>1. PICK a \in Agents : a = ops[o].at
    BY <1>7, <1>a DEF ProcessHeartbeat, ByIdKinds, AgentKinds
  <2>2. Finish(o) /\ UNCHANGED <<issued, retired>>
    BY <1>7 DEF ProcessHeartbeat, Quiet
  <2>3. UpdateRow(a, [rows[a] EXCEPT !.status = s, !.seen = "recent"])
    BY <1>7, <2>1 DEF ProcessHeartbeat
  <2> QED
    BY <1>6, <2>2, <2>3
<1>8. ASSUME NEW s \in Statuses, HeartbeatV1(o, s) PROVE TokenInv'
  <2>1. PICK a \in Agents : a = ops[o].at
    BY <1>8, <1>a DEF HeartbeatV1, ByIdKinds
  <2>2. Finish(o) /\ UNCHANGED <<issued, retired>>
    BY <1>8 DEF HeartbeatV1, Quiet
  <2>3. UpdateRow(a, [rows[a] EXCEPT !.status = s, !.seen = "recent",
                                    !.command = None])
    BY <1>8, <2>1 DEF HeartbeatV1
  <2> QED
    BY <1>6, <2>2, <2>3
<1>9. CASE ReadCommand(o)
  <2>1. \A p \in Ops : KeepsRequest(p)
    BY <1>0, <1>9, ConstantTypes DEF ReadCommand, KeepsRequest, Requests, Minting
  <2> QED
    BY <1>9, <2>1, SameTable, PlainStep DEF ReadCommand
<1>10. CASE StoreOffline(o)
  <2>1. ASSUME NEW a \in Agents PROVE KeepsRow(a)
    <3>1. rows[a] \in GoodRows
      BY <1>0
    <3>2. rows'[a] = rows[a] \/ rows'[a] = [rows[a] EXCEPT !.status = "offline"]
      BY <1>10 DEF StoreOffline
    <3> QED
      BY <3>1, <3>2 DEF KeepsRow, Accepted, GoodRows, Rows
  <2>2. \A p \in Ops : KeepsRequest(p)
    BY <1>10, <1>f DEF StoreOffline, Quiet
  <2> QED
    BY <1>10, <2>1, <2>2, PlainStep DEF StoreOffline, Quiet
<1>11. ASSUME NEW a \in Agents, RenewNext(o, a) PROVE TokenInv'
  <2> DEFINE rest == [ops[o] EXCEPT !.todo = @ \ {a}]
  <2>1. rest \in Requests /\ rest.kind = "renew"
    BY <1>0, <1>11 DEF RenewNext, Requests
  <2>2. CASE ops' = [ops EXCEPT ![o] = rest] /\ UNCHANGED issued
    <3> HIDE DEF rest
    <3>1. \A p \in Ops : KeepsRequest(p)
      BY <1>0, <2>1, <2>2, SlotKeeps DEF Minting
    <3> QED
      BY <1>11, <2>2, <3>1, SameTable, PlainStep DEF RenewNext
  <2>3. CASE /\ issued' = issued + 1
             /\ ops' = [ops EXCEPT ![o] = [rest EXCEPT !.kind = "renewWrite",
                                      !.at = a, !.token = issued + 1]]
    <3> HIDE DEF rest
    <3>1. ops'[o].token = issued + 1
      BY <1>0, <2>1, <2>3 DEF Requests
    <3>2. \A p \in Ops \ {o} : KeepsRequest(p)
      BY <1>0, <2>3 DEF KeepsRequest
    <3> QED
      BY <1>11, <2>3, <3>1, <3>2, SameTable, MintStep DEF RenewNext
  <2> QED
    BY <1>11, <2>2, <2>3 DEF RenewNext
<1>12. CASE RenewDone(o)
  BY <1>12, <1>f, SameTable, PlainStep DEF RenewDone, Quiet
<1>13. CASE StoreRenewed(o)
  <2>1. PICK a \in Agents : a = ops[o].at
    BY <1>13, <1>a DEF StoreRenewed, ByIdKinds
  <2>2. ops[o].kind \in Minting /\ UNCHANGED issued
    BY <1>13 DEF StoreRenewed, Minting
  <2>3. ops'[o].kind \notin Minting
    BY <1>0, <1>13 DEF StoreRenewed, Minting, Requests
  <2>4. \A p \in Ops : KeepsRequest(p)
    BY <1>0, <1>13, <2>3 DEF StoreRenewed, KeepsRequest
  <2>5. CASE Present(a)
    <3>1. /\ rows' = [rows EXCEPT ![a].token = ops[o].token,
                                  ![a].age = "fresh"]
          /\ retired' = retired \cup {rows[a].token}
      BY <1>13, <2>1, <2>5 DEF StoreRenewed
    <3>2. rows'[a].token = ops[o].token
      BY <1>0, <3>1 DEF GoodRows, Rows
    <3>3. \A c \in Agents \ {a} : KeepsRow(c)
      BY <1>0, <3>1 DEF KeepsRow
    <3> QED
      BY <2>2, <2>3, <2>4, <2>5, <3>1, <3>2, <3>3, StoreStep
  <2>6. CASE ~Present(a)
    BY <1>13, <2>1, <2>2, <2>3, <2>4, <2>6, DropOne DEF StoreRenewed
  <2> QED
    BY <2>5, <2>6
<1>14. CASE PushRenewed(o)
  <2>1. ops'[o].kind \notin Minting
    BY <1>0, <1>14 DEF PushRenewed, Minting, Requests
  <2>2. \A p \in Ops : KeepsRequest(p)
    BY <1>0, <1>14, <2>1 DEF PushRenewed, KeepsRequest
  <2> QED
    BY <1>14, <2>2, SameTable, PlainStep DEF PushRenewed
<1> QED
  BY <1>1, <1>2, <1>3, <1>61, <1>7, <1>8, <1>9, <1>10, <1>11, <1>12, <1>13,
     <1>14 DEF RequestStep

\* Every step keeps the token invariant.
LEMMA NextTokens ==
  ASSUME Shape, TokenInv, [Next]_vars
  PROVE  TokenInv'
<1>0. rows \in [Agents -> GoodRows] /\ ops \in [Ops -> Requests]
  BY DEF Shape, TypeOK
<1>o. ASSUME UNCHANGED ops PROVE \A p \in Ops : KeepsRequest(p)
  BY <1>o DEF KeepsRequest
<1>1. CASE \E o \in Ops : BeginStep(o) \/ RequestStep(o)
  BY <1>1, BeginTokens, RequestTokens
<1>2. ASSUME NEW a \in Agents, DeleteAgent(a) PROVE TokenInv'
  <2>1. rows'[a].life = "deleted"
    BY <1>0, <1>2 DEF DeleteAgent, NoRow
  <2>2. \A c \in Agents \ {a} : KeepsRow(c)
    BY <1>0, <1>2 DEF DeleteAgent, KeepsRow
  <2>3. ~Accepted(rows'[a])
    BY <2>1 DEF Accepted
  <2> QED
    BY <1>2, <1>o, <2>1, <2>2, <2>3, RetireStep DEF DeleteAgent
<1>3. ASSUME NEW a \in Agents, NEW c \in Commands, SendCommand(a, c)
      PROVE  TokenInv'
  <2>1. \A b \in Agents : KeepsRow(b)
    BY <1>0, <1>3 DEF SendCommand, KeepsRow, Accepted, GoodRows, Rows
  <2> QED
    BY <1>3, <1>o, <2>1, PlainStep DEF SendCommand
<1>4. ASSUME NEW a \in Agents, SeenAges(a) PROVE TokenInv'
  <2>1. \A b \in Agents : KeepsRow(b)
    BY <1>0, <1>4 DEF SeenAges, KeepsRow, Accepted, GoodRows, Rows
  <2> QED
    BY <1>4, <1>o, <2>1, PlainStep DEF SeenAges
<1>5. ASSUME NEW a \in Agents, TokenAges(a) PROVE TokenInv'
  <2>1. CASE rows[a].age = "fresh"
    <3>1. rows' = [rows EXCEPT ![a].age = "soon"] /\ UNCHANGED retired
      BY <1>5, <2>1 DEF TokenAges
    <3>2. \A b \in Agents : KeepsRow(b)
      BY <1>0, <2>1, <3>1 DEF KeepsRow, Accepted, GoodRows, Rows
    <3> QED
      BY <1>5, <1>o, <3>1, <3>2, PlainStep DEF TokenAges
  <2>2. CASE rows[a].age # "fresh"
    <3>1. /\ rows' = [rows EXCEPT ![a].age = "expired"]
          /\ retired' = retired \cup {rows[a].token}
      BY <1>5, <2>2 DEF TokenAges
    <3>2. rows'[a].token = rows[a].token /\ rows'[a].age = "expired"
      BY <1>0, <3>1 DEF GoodRows, Rows
    <3>3. \A c \in Agents \ {a} : KeepsRow(c)
      BY <1>0, <3>1 DEF KeepsRow
    <3>4. ~Accepted(rows'[a])
      BY <3>2 DEF Accepted
    <3> QED
      BY <1>5, <1>o, <3>1, <3>2, <3>3, <3>4, RetireStep DEF TokenAges
  <2> QED
    BY <2>1, <2>2
<1>6. ASSUME UNCHANGED <<rows, issued, ops, retired>> PROVE TokenInv'
  BY <1>6, <1>o, SameTable, PlainStep
<1>7. CASE \/ \E a \in Agents : CooldownEnds(a)
           \/ \E a \in Agents, leader \in BOOLEAN : HandleConnection(a, leader)
           \/ HandleDisconnect \/ TokenRenewal
           \/ \E t \in Tokens : Install(t)
           \/ UNCHANGED vars
  BY <1>6, <1>7 DEF CooldownEnds, HandleConnection, HandleDisconnect,
                    TokenRenewal, Install, vars
<1>8. ASSUME NEW dead \in SUBSET Ops, Restart(dead) PROVE TokenInv'
  <2>1. \A o \in Ops : KeepsRequest(o)
    BY <1>8, ConstantTypes DEF Restart, KeepsRequest
  <2>2. \A o \in dead : ops'[o].kind \notin Minting
    BY <1>8, ConstantTypes DEF Restart
  <2> QED
    BY <1>8, <2>1, <2>2, DropStep DEF Restart
<1> QED
  BY <1>1, <1>2, <1>3, <1>4, <1>5, <1>7, <1>8 DEF Next

----------------------------------------------------------------------------
(* Theorems                                                                *)

\* The inductive invariant holds throughout.
THEOREM Invariance == Spec => []IInv
<1>1. Init => IInv
  <2> SUFFICES ASSUME Init PROVE IInv
    OBVIOUS
  <2>1. \A a \in Agents : ~Present(a) /\ ~Accepted(rows[a])
    BY DEF Init, Present, Accepted, NoRow
  <2>2. \A o \in Ops : ops[o].kind \notin Minting
    BY ConstantTypes DEF Init
  <2> QED
    BY <2>1, <2>2, InitShape
       DEF Init, IInv, TokensAreIssued, NewTokensAreUnused, TokensAreOwn,
           RetiredTokensStayOut
<1>2. IInv /\ [Next]_vars => IInv'
  BY NextShape, NextTokens DEF IInv, TokenInv
<1> QED
  BY <1>1, <1>2, PTL DEF Spec

\* A token that was replaced, revoked, deleted or has expired, or was lost
\* before it was stored, is never accepted again, with any number of requests and sweeps under way.
THEOREM RetirementIsFinal == Spec => []RetiredTokensStayOut
<1>1. IInv => RetiredTokensStayOut
  BY DEF IInv
<1> QED
  BY <1>1, Invariance, PTL

\* The variables keep their types.
THEOREM TypeCorrect == Spec => []TypeOK
<1>1. IInv => TypeOK
  BY DEF IInv, Shape
<1> QED
  BY <1>1, Invariance, PTL

============================================================================
