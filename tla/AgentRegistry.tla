--------------------------- MODULE AgentRegistry ---------------------------
(***************************************************************************)
(* The agents of one organisation: their rows in table agents, the life of *)
(* their tokens, heartbeats, remote commands, and the leader's sweeps      *)
(* (AgentsService, AgentTokenGuard, the agent operations of AdminService). *)
(*                                                                         *)
(* A request reads a row, awaits, and then updates chosen columns of it by *)
(* id; other requests run in between.  One action is one statement with    *)
(* the code up to the next await.  Requests of another organisation are    *)
(* refused and are left out.                                               *)
(***************************************************************************)
EXTENDS Naturals, Sequences

CONSTANTS
  Agents,     \* ids of rows, never used twice
  Ops,        \* requests and sweeps that may be under way at once
  Commands,   \* remote commands
  MaxTokens,  \* bound: tokens generated in a behaviour
  MaxShared,  \* bound: once more tokens were generated, a request starts
              \* only when no other is under way
  None

ASSUME RegistryAssumption ==
  /\ MaxTokens \in Nat /\ MaxShared \in Nat
  /\ None \notin Agents \cup Commands \cup Nat

VARIABLES
  rows,      \* table agents
  issued,    \* tokens are 1..issued, in the order they were generated
  ops,       \* requests and sweeps under way
  cooldown,  \* Redis keys auto_renewal:<agent>
  link,      \* the organisation's agent socket
  inbox,     \* token_renewal events on their way to that socket
  shown,     \* tokens an administrator was shown
  held,      \* the token installed on premise
  retired    \* history: tokens replaced, revoked, expired, deleted, or
             \* generated by a request that ended without storing them

vars == <<rows, issued, ops, cooldown, link, inbox, shown, held, retired>>

wire == <<link, inbox, held>>

----------------------------------------------------------------------------

Tokens == 1..MaxTokens

Statuses == {"pending", "online", "offline", "error"}

\* age: fresh, within 7 days of its end (soon), or expired.
\* seen: lastSeen is null, within the last ten minutes, or older.
Rows == [life : {"unborn", "present", "deleted"}, token : Tokens \cup {None},
         age : {"fresh", "soon", "expired"}, revoked : BOOLEAN,
         status : Statuses, seen : {"never", "recent", "stale"},
         command : Commands \cup {None}]

NoRow == [life |-> "unborn", token |-> None, age |-> "fresh",
          revoked |-> FALSE, status |-> "pending", seen |-> "never",
          command |-> None]

AgentKinds == {"register", "validate", "heartbeat", "heartbeatV1", "ingest"}

Kinds == AgentKinds \cup {"idle", "generate", "revoke", "regenerate",
          "consume", "offline", "renew", "renewWrite", "renewPush"}

\* at: the row a request will update by id; todo: what a sweep has left;
\* token: one generated and not yet stored; command: one it will transmit.
Requests == [kind : Kinds, at : Agents \cup {None}, todo : SUBSET Agents,
             token : Tokens \cup {None}, command : Commands \cup {None}]

Idle == [kind |-> "idle", at |-> None, todo |-> {}, token |-> None,
         command |-> None]

\* agent: of the authenticated socket; leader: the socket is on the worker
\* that runs the sweeps.
Links == [agent : Agents \cup {None}, leader : BOOLEAN]

NoLink == [agent |-> None, leader |-> FALSE]

TypeOK ==
  /\ rows \in [Agents -> Rows]
  /\ issued \in 0..MaxTokens
  /\ ops \in [Ops -> Requests]
  /\ cooldown \in [Agents -> BOOLEAN]
  /\ link \in Links
  /\ inbox \in Seq(Tokens)
  /\ shown \subseteq Tokens
  /\ held \in Tokens \cup {None}
  /\ retired \subseteq Tokens

Init ==
  /\ rows = [a \in Agents |-> NoRow]
  /\ issued = 0
  /\ ops = [o \in Ops |-> Idle]
  /\ cooldown = [a \in Agents |-> FALSE]
  /\ link = NoLink /\ inbox = <<>>
  /\ shown = {} /\ held = None
  /\ retired = {}

Present(a) == rows[a].life = "present"

\* assertTokenValid, validateAgentToken and AgentTokenGuard agree on this.
Accepted(row) ==
  row.life = "present" /\ ~row.revoked /\ row.age # "expired"

Begin(o, request) ==
  /\ ops[o] = Idle
  /\ issued <= MaxShared \/ \A p \in Ops : ops[p] = Idle
  /\ ops' = [ops EXCEPT ![o] = request]

Finish(o) == ops' = [ops EXCEPT ![o] = Idle]

\* The tokens that requests O have generated and not yet stored.
Unstored(O) ==
  {ops[o].token : o \in {q \in O :
     ops[q].kind \in {"generate", "regenerate", "renewWrite"}}}

\* prisma.agent.update by id: the request fails if the row is gone.
UpdateRow(a, row) ==
  rows' = IF Present(a) THEN [rows EXCEPT ![a] = row] ELSE rows

----------------------------------------------------------------------------
(* Administration                                                          *)

\* generateAgentToken, and generateAgentTokenForOrg of the administrator:
\* the existing agent, if any (without force an existing agent is an error),
\* and a new token.
GenerateAgentToken(o) ==
  /\ issued < MaxTokens /\ issued' = issued + 1
  /\ \E a \in Agents \cup {None} :
       /\ IF a = None THEN \A b \in Agents : ~Present(b) ELSE Present(a)
       /\ Begin(o, [Idle EXCEPT !.kind = "generate", !.at = a,
                                !.token = issued + 1])
  /\ UNCHANGED <<rows, cooldown, wire, shown, retired>>

\* The agent is created, or its token is rotated, and the answer shows the
\* token; the statement fails if the row (or the bound on ids) is gone.
StoreGenerated(o) ==
  /\ ops[o].kind = "generate"
  /\ LET a == ops[o].at
         t == ops[o].token
     IN  \/ /\ a = None
            /\ \E b \in Agents :
                 /\ rows[b].life = "unborn"
                 /\ rows' = [rows EXCEPT ![b] = [NoRow EXCEPT
                               !.life = "present", !.token = t]]
            /\ shown' = shown \cup {t}
            /\ UNCHANGED retired
         \/ /\ a \in Agents /\ Present(a)
            /\ rows' = [rows EXCEPT ![a].token = t, ![a].age = "fresh",
                          ![a].status = "pending", ![a].revoked = FALSE]
            /\ shown' = shown \cup {t}
            /\ retired' = retired \cup {rows[a].token}
         \/ /\ IF a = None THEN \A b \in Agents : rows[b].life # "unborn"
               ELSE ~Present(a)
            /\ retired' = retired \cup {t}
            /\ UNCHANGED <<rows, shown>>
  /\ Finish(o)
  /\ UNCHANGED <<issued, cooldown, wire>>

RevokeToken(o, a) ==
  /\ Present(a) /\ ~rows[a].revoked
  /\ Begin(o, [Idle EXCEPT !.kind = "revoke", !.at = a])
  /\ UNCHANGED <<rows, issued, cooldown, wire, shown, retired>>

StoreRevoked(o) ==
  /\ ops[o].kind = "revoke"
  /\ LET a == ops[o].at
     IN  /\ UpdateRow(a, [rows[a] EXCEPT !.revoked = TRUE, !.status = "pending"])
         /\ retired' = IF Present(a) THEN retired \cup {rows[a].token}
                       ELSE retired
  /\ Finish(o)
  /\ UNCHANGED <<issued, cooldown, wire, shown>>

\* Mutant: regenerating lifts the revocation and keeps the token.
RegenerateKeepsToken(o, a) ==
  /\ Present(a)
  /\ issued < MaxTokens /\ issued' = issued + 1
  /\ Begin(o, [Idle EXCEPT !.kind = "regenerate", !.at = a,
                           !.token = rows[a].token])
  /\ UNCHANGED <<rows, cooldown, wire, shown, retired>>

RegenerateToken(o, a) ==
  /\ Present(a)
  /\ issued < MaxTokens /\ issued' = issued + 1
  /\ Begin(o, [Idle EXCEPT !.kind = "regenerate", !.at = a,
                           !.token = issued + 1])
  /\ UNCHANGED <<rows, cooldown, wire, shown, retired>>

StoreRegenerated(o) ==
  /\ ops[o].kind = "regenerate"
  /\ LET a == ops[o].at
     IN  IF Present(a)
         THEN /\ rows' = [rows EXCEPT ![a].token = ops[o].token,
                   ![a].status = "pending", ![a].seen = "never",
                   ![a].age = "fresh", ![a].revoked = FALSE]
              /\ retired' = retired \cup {rows[a].token}
              /\ shown' = shown \cup {ops[o].token}
         ELSE /\ retired' = retired \cup {ops[o].token}
              /\ UNCHANGED <<rows, shown>>
  /\ Finish(o)
  /\ UNCHANGED <<issued, cooldown, wire>>

\* deleteAgent; the rows of other tables go first.
DeleteAgent(a) ==
  /\ Present(a)
  /\ rows' = [rows EXCEPT ![a] = [NoRow EXCEPT !.life = "deleted"]]
  /\ retired' = retired \cup {rows[a].token}
  /\ UNCHANGED <<issued, ops, cooldown, wire, shown>>

\* The row is read only for its existence.
SendCommand(a, c) ==
  /\ Present(a)
  /\ rows' = [rows EXCEPT ![a].command = c]
  /\ UNCHANGED <<issued, ops, cooldown, wire, shown, retired>>

----------------------------------------------------------------------------
(* The agent's requests                                                    *)

\* The agent presents the token it holds to register, validate, heartbeat,
\* or, through AgentTokenGuard, to heartbeatV1 and ingest.
Authenticate(o, kind, a) ==
  /\ kind \in AgentKinds
  /\ Accepted(rows[a]) /\ rows[a].token = held
  /\ Begin(o, [Idle EXCEPT !.kind = kind, !.at = a])
  /\ UNCHANGED <<rows, issued, cooldown, wire, shown, retired>>

Quiet(o) ==
  /\ Finish(o)
  /\ UNCHANGED <<issued, cooldown, wire, shown, retired>>

RegisterAgent(o) ==
  /\ ops[o].kind = "register"
  /\ UpdateRow(ops[o].at, [rows[ops[o].at] EXCEPT !.status = "online",
                                                 !.seen = "recent"])
  /\ Quiet(o)

ValidateAgent(o) ==
  /\ ops[o].kind = "validate"
  /\ UpdateRow(ops[o].at, [rows[ops[o].at] EXCEPT !.status = "online",
                                                 !.seen = "recent"])
  /\ Quiet(o)

\* status: what the agent reports, or error after more than five errors.
ProcessHeartbeat(o, status) ==
  /\ ops[o].kind = "heartbeat"
  /\ UpdateRow(ops[o].at, [rows[ops[o].at] EXCEPT !.status = status,
                                                 !.seen = "recent"])
  /\ Quiet(o)

IngestData(o) ==
  /\ ops[o].kind = "ingest"
  /\ UpdateRow(ops[o].at, [rows[ops[o].at] EXCEPT !.seen = "recent"])
  /\ Quiet(o)

\* heartbeatV1 reads the row again after the guard, for the command ...
ReadCommand(o) ==
  /\ ops[o].kind = "heartbeatV1"
  /\ ops' = IF Present(ops[o].at)
            THEN [ops EXCEPT ![o].kind = "consume",
                             ![o].command = rows[ops[o].at].command]
            ELSE [ops EXCEPT ![o] = Idle]
  /\ UNCHANGED <<rows, issued, cooldown, wire, shown, retired>>

\* ... and clears it as it answers with what it read.
HeartbeatV1(o, status) ==
  /\ ops[o].kind = "consume"
  /\ UpdateRow(ops[o].at, [rows[ops[o].at] EXCEPT !.status = status,
                              !.seen = "recent", !.command = None])
  /\ Quiet(o)

----------------------------------------------------------------------------
(* The leader's sweeps                                                     *)

MarkStaleAgentsOffline(o) ==
  /\ LET stale == {a \in Agents : /\ Present(a) /\ rows[a].status = "online"
                                  /\ rows[a].seen = "stale"}
     IN  /\ stale # {}
         /\ Begin(o, [Idle EXCEPT !.kind = "offline", !.todo = stale])
  /\ UNCHANGED <<rows, issued, cooldown, wire, shown, retired>>

\* Mutant: the rows that were found are not written.
StoreNothing(o) ==
  /\ ops[o].kind = "offline"
  /\ UNCHANGED rows
  /\ Quiet(o)

\* updateMany WHERE id IN the rows found.
StoreOffline(o) ==
  /\ ops[o].kind = "offline"
  /\ rows' = [a \in Agents |-> IF a \in ops[o].todo /\ Present(a)
                               THEN [rows[a] EXCEPT !.status = "offline"]
                               ELSE rows[a]]
  /\ Quiet(o)

AutoRenewConnectedTokens(o) ==
  /\ LET ending == {a \in Agents : /\ Accepted(rows[a]) /\ rows[a].age = "soon"
                                   /\ rows[a].status = "online"}
     IN  /\ ending # {}
         /\ Begin(o, [Idle EXCEPT !.kind = "renew", !.todo = ending])
  /\ UNCHANGED <<rows, issued, cooldown, wire, shown, retired>>

\* The next agent of the loop: skipped under its cooldown (unless Redis does
\* not answer) or if the leader holds no socket of the organisation, else
\* given a new token (the bound on tokens is a failure the loop catches).
RenewNext(o, a) ==
  /\ ops[o].kind = "renew" /\ a \in ops[o].todo
  /\ LET rest == [ops[o] EXCEPT !.todo = @ \ {a}]
     IN  \/ /\ \/ cooldown[a] \/ ~(link.agent # None /\ link.leader)
               \/ issued = MaxTokens
            /\ ops' = [ops EXCEPT ![o] = rest]
            /\ UNCHANGED issued
         \/ /\ link.agent # None /\ link.leader
            /\ issued < MaxTokens /\ issued' = issued + 1
            /\ ops' = [ops EXCEPT ![o] = [rest EXCEPT !.kind = "renewWrite",
                                   !.at = a, !.token = issued + 1]]
  /\ UNCHANGED <<rows, cooldown, wire, shown, retired>>

RenewDone(o) ==
  /\ ops[o].kind = "renew" /\ ops[o].todo = {}
  /\ UNCHANGED rows
  /\ Quiet(o)

\* Mutant: the token is pushed to the agent and not stored.
StoreRenewedNowhere(o) ==
  /\ ops[o].kind = "renewWrite"
  /\ ops' = [ops EXCEPT ![o].kind = "renewPush"]
  /\ UNCHANGED <<rows, retired, issued, cooldown, wire, shown>>

\* A failed update is caught and the loop goes on.
StoreRenewed(o) ==
  /\ ops[o].kind = "renewWrite"
  /\ LET a == ops[o].at
     IN  IF Present(a)
         THEN /\ rows' = [rows EXCEPT ![a].token = ops[o].token,
                                      ![a].age = "fresh"]
              /\ retired' = retired \cup {rows[a].token}
              /\ ops' = [ops EXCEPT ![o].kind = "renewPush"]
         ELSE /\ ops' = [ops EXCEPT ![o].kind = "renew", ![o].at = None,
                                    ![o].token = None]
              /\ retired' = retired \cup {ops[o].token}
              /\ UNCHANGED rows
  /\ UNCHANGED <<issued, cooldown, wire, shown>>

\* The cooldown, unless Redis fails, and handleTokenAutoRenewed: the token
\* goes to the organisation's socket, if the worker has one now.
PushRenewed(o) ==
  /\ ops[o].kind = "renewPush"
  /\ \/ cooldown' = [cooldown EXCEPT ![ops[o].at] = TRUE]
     \/ UNCHANGED cooldown
  /\ inbox' = IF link.agent # None /\ link.leader
              THEN Append(inbox, ops[o].token) ELSE inbox
  /\ ops' = [ops EXCEPT ![o].kind = "renew", ![o].at = None,
                        ![o].token = None]
  /\ UNCHANGED <<rows, issued, link, held, shown, retired>>

----------------------------------------------------------------------------
(* The socket, the installation, clocks and restarts                       *)

HandleConnection(a, leader) ==
  /\ link = NoLink
  /\ Accepted(rows[a]) /\ rows[a].token = held
  /\ link' = [agent |-> a, leader |-> leader]
  /\ UNCHANGED <<rows, issued, ops, cooldown, inbox, held, shown, retired>>

HandleDisconnect ==
  /\ link # NoLink
  /\ link' = NoLink /\ inbox' = <<>>
  /\ UNCHANGED <<rows, issued, ops, cooldown, held, shown, retired>>

\* The agent installs the token it is sent.
TokenRenewal ==
  /\ inbox # <<>>
  /\ held' = Head(inbox) /\ inbox' = Tail(inbox)
  /\ UNCHANGED <<rows, issued, ops, cooldown, link, shown, retired>>

\* Somebody installs a token the portal showed.
Install(t) ==
  /\ t \in shown
  /\ held' = t
  /\ UNCHANGED <<rows, issued, ops, cooldown, link, inbox, shown, retired>>

SeenAges(a) ==
  /\ Present(a) /\ rows[a].seen = "recent"
  /\ rows' = [rows EXCEPT ![a].seen = "stale"]
  /\ UNCHANGED <<issued, ops, cooldown, wire, shown, retired>>

TokenAges(a) ==
  /\ Present(a) /\ rows[a].age # "expired"
  /\ LET next == IF rows[a].age = "fresh" THEN "soon" ELSE "expired"
     IN  /\ rows' = [rows EXCEPT ![a].age = next]
         /\ retired' = IF next = "expired" THEN retired \cup {rows[a].token}
                       ELSE retired
  /\ UNCHANGED <<issued, ops, cooldown, wire, shown>>

\* Mutant: the key is written without its time to live.
CooldownNeverEnds(a) == FALSE

CooldownEnds(a) ==
  /\ cooldown[a]
  /\ cooldown' = [cooldown EXCEPT ![a] = FALSE]
  /\ UNCHANGED <<rows, issued, ops, wire, shown, retired>>

\* A worker dies with some of the requests, and with the socket if it held it.
Restart(dead) ==
  /\ dead # {}
  /\ ops' = [o \in Ops |-> IF o \in dead THEN Idle ELSE ops[o]]
  /\ \/ link' = NoLink /\ inbox' = <<>>
     \/ UNCHANGED <<link, inbox>>
  /\ retired' = retired \cup Unstored(dead)
  /\ UNCHANGED <<rows, issued, cooldown, held, shown>>

----------------------------------------------------------------------------
(* Specification                                                           *)

\* A request or a sweep starts ...
BeginStep(o) ==
  \/ GenerateAgentToken(o) \/ MarkStaleAgentsOffline(o)
  \/ AutoRenewConnectedTokens(o)
  \/ \E a \in Agents :
       \/ RevokeToken(o, a) \/ RegenerateToken(o, a)
       \/ \E kind \in AgentKinds : Authenticate(o, kind, a)

\* ... and goes on.
RequestStep(o) ==
  \/ StoreGenerated(o) \/ StoreRevoked(o) \/ StoreRegenerated(o)
  \/ RegisterAgent(o) \/ ValidateAgent(o) \/ IngestData(o) \/ ReadCommand(o)
  \/ \E status \in Statuses \ {"pending"} :
       ProcessHeartbeat(o, status) \/ HeartbeatV1(o, status)
  \/ StoreOffline(o) \/ StoreRenewed(o) \/ PushRenewed(o) \/ RenewDone(o)
  \/ \E a \in Agents : RenewNext(o, a)

Next ==
  \/ \E o \in Ops : BeginStep(o) \/ RequestStep(o)
  \/ \E a \in Agents : \/ DeleteAgent(a)
                       \/ \E c \in Commands : SendCommand(a, c)
                       \/ SeenAges(a) \/ TokenAges(a) \/ CooldownEnds(a)
                       \/ \E leader \in BOOLEAN : HandleConnection(a, leader)
  \/ HandleDisconnect \/ TokenRenewal
  \/ \E t \in Tokens : Install(t)
  \/ \E dead \in SUBSET Ops : Restart(dead)

Spec == Init /\ [][Next]_vars

\* Statements end, the interval timer of the leader fires again and again and
\* finds a free slot, cooldowns end, and restarts do not cut off every sweep
\* before it writes.
Fairness ==
  /\ \A o \in Ops : WF_vars(RequestStep(o))
  /\ SF_vars(\E o \in Ops : MarkStaleAgentsOffline(o))
  /\ SF_vars(\E o \in Ops : StoreOffline(o))
  /\ SF_vars(\E o \in Ops : AutoRenewConnectedTokens(o))
  /\ SF_vars(\E o \in Ops, a \in Agents : RenewNext(o, a))
  /\ \A a \in Agents : WF_vars(CooldownEnds(a))

FairSpec == Spec /\ Fairness

----------------------------------------------------------------------------
(* Properties                                                              *)

\* A token that was replaced, revoked, deleted, expired or lost never opens a
\* connection or a request again, whatever requests and sweeps that read the
\* row before still write to it ("Génère un nouveau token et invalide
\* l'ancien", src/agents/README.md).
RetiredTokensStayOut ==
  \A a \in Agents : Accepted(rows[a]) => rows[a].token \notin retired

\* An agent that stays silent does not stay online: the sweep marks it, even
\* though it updates rows it found in an earlier statement.
SilentAgentsGoOffline ==
  \A a \in Agents :
    (Present(a) /\ rows[a].status = "online" /\ rows[a].seen = "stale")
      ~> ~(Present(a) /\ rows[a].status = "online" /\ rows[a].seen = "stale")

\* The token of an agent that stays online and connected to the leader does
\* not stay near its end: a new one gets into its row, the first time and,
\* once the cool-down of the last renewal is over, again (agents.service.ts
\* autoRenewConnectedTokens), unless it expires or an administrator acts first.
\* The last case is the bound: every token is in a row or retired, so that a
\* token the loop generated and did not store does not count.
ConnectedTokensAreRenewed ==
  \A a \in Agents :
    []<>(\/ ~(Accepted(rows[a]) /\ rows[a].age = "soon"
                /\ rows[a].status = "online")
         \/ ~(link.agent # None /\ link.leader)
         \/ Tokens \subseteq retired \cup {rows[b].token : b \in Agents})

============================================================================
