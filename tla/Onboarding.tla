----------------------------- MODULE Onboarding -----------------------------
(***************************************************************************)
(* The five-step wizard of one organisation: OnboardingService, and the    *)
(* step an agent completes when it connects                                *)
(* (AgentsService.applyAgentConfig).                                       *)
(*                                                                         *)
(* Every request reads the row of onboarding_status and later writes whole *)
(* columns computed from what it read; one action is one statement with    *)
(* the code up to the next await.  The invitations of step 5 are those of  *)
(* module Membership.                                                      *)
(***************************************************************************)
EXTENDS Naturals, FiniteSets

CONSTANTS StepRequests  \* requests and agent events under way at once

VARIABLES
  row,    \* the organisation's row of onboarding_status
  saved,  \* steps whose own data is stored (plan, profile, ERP, ...)
  wizard, \* requests under way
  acked   \* history: steps reported complete by a request that overlapped none

wizardVars == <<row, saved, wizard, acked>>

Steps == 1..5

StatusRows == [exists : BOOLEAN, current : 1..6, completed : SUBSET Steps,
               complete : BOOLEAN, agentLater : BOOLEAN, inviteLater : BOOLEAN]

NewStatus == [exists |-> TRUE, current |-> 1, completed |-> {},
              complete |-> FALSE, agentLater |-> FALSE, inviteLater |-> FALSE]

\* step 0: getStatus only reads; skip: linkAgent with skipLater;
\* completed, current: the columns as the request read them.
StepRequest == [pc : {"idle", "find", "create", "peek", "write"}, step : 0..5,
                skip : BOOLEAN, completed : SUBSET Steps, current : 1..6]

NoStep == [pc |-> "idle", step |-> 0, skip |-> FALSE, completed |-> {},
           current |-> 1]

WizardTypeOK ==
  /\ row \in StatusRows
  /\ saved \subseteq Steps
  /\ wizard \in [StepRequests -> StepRequest]
  /\ acked \subseteq Steps

\* signup creates the row with the organisation; an organisation created by
\* an administrator has none.
WizardInit ==
  /\ row \in {NewStatus, [NewStatus EXCEPT !.exists = FALSE]}
  /\ saved = {} /\ acked = {}
  /\ wizard = [r \in StepRequests |-> NoStep]

BeginStep(r, request) ==
  wizard[r] = NoStep /\ wizard' = [wizard EXCEPT ![r] = request]

FinishStep(r) == wizard' = [wizard EXCEPT ![r] = NoStep]

----------------------------------------------------------------------------

\* Mutant: the step is completed even if the organisation is not updated.
StepUnsaved(r, k) ==
  /\ BeginStep(r, [NoStep EXCEPT !.pc = "find", !.step = k])
  /\ saved' = saved \/ saved' = saved \cup {k}
  /\ UNCHANGED <<row, acked>>

\* step1, step2, step3 in cloud mode, step4, and step5 with invitations: the
\* data first, then completeStep.  The profile of step 2 may be empty, and the
\* invitations of step 5 may all fail, each caught; both go on without data.
Step(r, k) ==
  /\ BeginStep(r, [NoStep EXCEPT !.pc = "find", !.step = k])
  /\ \/ saved' = saved \cup {k}
     \/ k \in {2, 5} /\ UNCHANGED saved
  /\ UNCHANGED <<row, acked>>

\* step5 with inviteLater: an update that fails when there is no row yet.
InviteLater(r) ==
  /\ row.exists
  /\ BeginStep(r, [NoStep EXCEPT !.pc = "find", !.step = 5])
  /\ row' = [row EXCEPT !.inviteLater = TRUE]
  /\ UNCHANGED <<saved, acked>>

\* linkAgent with skipLater: step 3 without an agent.
SkipLater(r) ==
  /\ BeginStep(r, [NoStep EXCEPT !.pc = "find", !.step = 3, !.skip = TRUE])
  /\ UNCHANGED <<row, saved, acked>>

GetStatus(r) ==
  /\ BeginStep(r, [NoStep EXCEPT !.pc = "find"])
  /\ UNCHANGED <<row, saved, acked>>

\* agent_config: the agent's and the organisation's rows, then the wizard's.
ApplyAgentConfig(r) ==
  /\ BeginStep(r, [NoStep EXCEPT !.pc = "peek", !.step = 3])
  /\ saved' = saved \cup {3}
  /\ UNCHANGED <<row, acked>>

\* The findUnique of getOrCreateStatus.
FindStatus(r) ==
  /\ wizard[r].pc = "find"
  /\ wizard' = [wizard EXCEPT ![r] =
       IF ~row.exists THEN [@ EXCEPT !.pc = "create"]
       ELSE IF @.step = 0 THEN NoStep
       ELSE [@ EXCEPT !.pc = "write", !.completed = row.completed,
                      !.current = row.current]]
  /\ UNCHANGED <<row, saved, acked>>

\* Its create; organizationId is unique, so the request fails if another one
\* created the row meanwhile.
CreateStatus(r) ==
  /\ wizard[r].pc = "create"
  /\ row' = IF row.exists THEN row ELSE NewStatus
  /\ wizard' = [wizard EXCEPT ![r] =
       IF row.exists \/ @.step = 0 THEN NoStep ELSE [@ EXCEPT !.pc = "write"]]
  /\ UNCHANGED <<saved, acked>>

\* applyAgentConfig leaves a missing or finished wizard, and a completed step,
\* alone.
PeekStatus(r) ==
  /\ wizard[r].pc = "peek"
  /\ wizard' = [wizard EXCEPT ![r] =
       IF row.exists /\ 3 \notin row.completed /\ ~row.complete
       THEN [@ EXCEPT !.pc = "write", !.completed = row.completed,
                      !.current = row.current]
       ELSE NoStep]
  /\ UNCHANGED <<row, saved, acked>>

Later(current, step) == IF current > step THEN current ELSE step + 1

\* No other request is between its read of the row and its write.
Alone(r) == \A p \in StepRequests \ {r} : wizard[p].pc # "write"

\* completeStep reports success; only what it reports alone is on record.
Acknowledge(r, step) ==
  acked' = IF Alone(r) THEN acked \cup {step} ELSE acked

\* Mutants: completion is judged before the step is added; the steps that
\* were completed before are not carried over.
CompleteStepTooLate(r) ==
  /\ wizard[r].pc = "write"
  /\ LET q == wizard[r]
     IN  /\ row' = [row EXCEPT !.completed = q.completed \cup {q.step},
              !.current = Later(q.current, q.step),
              !.complete = Cardinality(q.completed) >= 5,
              !.agentLater = @ \/ q.skip]
         /\ Acknowledge(r, q.step)
  /\ FinishStep(r)
  /\ UNCHANGED saved

CompleteStepOnly(r) ==
  /\ wizard[r].pc = "write"
  /\ LET q == wizard[r]
     IN  /\ row' = [row EXCEPT !.completed = {q.step},
              !.current = Later(q.current, q.step),
              !.complete = FALSE, !.agentLater = @ \/ q.skip]
         /\ Acknowledge(r, q.step)
  /\ FinishStep(r)
  /\ UNCHANGED saved

\* The update of completeStep, linkAgent and applyAgentConfig.
CompleteStep(r) ==
  /\ wizard[r].pc = "write"
  /\ LET q == wizard[r]
         completed == q.completed \cup {q.step}
     IN  /\ row' = [row EXCEPT !.completed = completed,
              !.current = Later(q.current, q.step),
              !.complete = Cardinality(completed) >= 5,
              !.agentLater = @ \/ q.skip]
         /\ Acknowledge(r, q.step)
  /\ FinishStep(r)
  /\ UNCHANGED saved

\* The worker of request r dies.
WizardRestart(r) ==
  /\ wizard[r] # NoStep
  /\ FinishStep(r)
  /\ UNCHANGED <<row, saved, acked>>

WizardNext ==
  \E r \in StepRequests :
    \/ \E k \in Steps : Step(r, k)
    \/ InviteLater(r) \/ SkipLater(r) \/ GetStatus(r) \/ ApplyAgentConfig(r)
    \/ FindStatus(r) \/ CreateStatus(r) \/ PeekStatus(r) \/ CompleteStep(r)
    \/ WizardRestart(r)

WizardSpec == WizardInit /\ [][WizardNext]_wizardVars

----------------------------------------------------------------------------
(* Properties                                                              *)

\* Whatever requests overlap, the row stays consistent: it is complete exactly
\* when the five steps are, and the wizard never points at a completed step
\* or before it.
StatusIsConsistent ==
  /\ row.complete <=> row.completed = Steps
  /\ \A k \in row.completed : row.current > k

\* A completed step 1, 3 or 4 is backed by its data - the plan, the data
\* source, the profiles - or by the choice to link the agent later, even if a
\* worker died between the two writes.  Steps 2 and 5 need no data.
CompletedStepsAreSaved ==
  \A k \in row.completed \ {2, 5} : k \in saved \/ (k = 3 /\ row.agentLater)

\* completeStep "Marque une etape comme completee": a step that a request has
\* reported complete stays complete, whatever requests overlap and crash
\* later, if no other one was between its read and its write at that moment
\* (one that was may overwrite the step).
AckedStepsStay == acked \subseteq row.completed

============================================================================
