------------------------------ MODULE Billing ------------------------------
(***************************************************************************)
(* The subscription of one organisation: BillingService (checkout and      *)
(* cancellation) and FlutterwaveWebhookService (charge.completed and       *)
(* subscription.cancelled), against the payment provider that charges      *)
(* every month and delivers its events at least once.                      *)
(*                                                                         *)
(* Events that change no state here (charge.failed, charges that are not   *)
(* successful or belong to no payment plan) are left out, and so are the   *)
(* mails and the reminders at the end of a trial.  A charge of a plan      *)
(* whose meta data is missing changes no state either, but it is modelled: *)
(* it is a payment, and it is acknowledged.                                *)
(***************************************************************************)
EXTENDS Naturals, Sequences, FiniteSets, SequencesExt

CONSTANTS
  Subs,      \* subscriptions the provider may open for the organisation
  Charges,   \* the provider's transaction ids
  Plans,
  Cancels,   \* calls of cancelSubscription
  Null       \* a column without a value

ASSUME BillingAssumption == Null \notin Subs \cup Plans

VARIABLES
  sub,       \* the organisation's row of billing_subscriptions
  invoices,  \* transaction ids in billing_invoices
  orgPlan,   \* Organization.planId
  links,     \* plans a payment link was created for
  calls,     \* cancelSubscription calls
  provider,  \* the provider's subscriptions: state and plan
  charged,   \* transactions the provider has made
  events     \* emitted and not yet acknowledged, oldest first

billingVars == <<sub, invoices, orgPlan, links, calls, provider, charged,
                 events>>

ours == <<sub, invoices, orgPlan, links, calls>>
theirs == <<provider, charged, events>>

----------------------------------------------------------------------------

Statuses == {"NONE", "TRIALING", "ACTIVE", "CANCELLED"}

Rows == [status : Statuses, fw : Subs \cup {Null}, plan : Plans \cup {Null},
         atEnd : BOOLEAN]

NoRow == [status |-> "NONE", fw |-> Null, plan |-> Null, atEnd |-> FALSE]

\* step put: the provider is about to be called; write: it has been;
\* mark: the cancellation is scheduled only.
CallStates == [step : {"idle", "put", "write", "mark", "done"},
               fw : Subs \cup {Null}]

\* meta: the organisation's and the plan's id came with the charge.
Events == [kind : {"charge"}, tx : Charges, fw : Subs \cup {Null}, of : Subs,
           plan : Plans, meta : BOOLEAN]
            \cup [kind : {"cancelled"}, fw : Subs]

BillingTypeOK ==
  /\ sub \in Rows
  /\ invoices \subseteq Charges
  /\ orgPlan \in Plans \cup {Null}
  /\ links \subseteq Plans
  /\ calls \in [Cancels -> CallStates]
  /\ provider \in [Subs -> [state : {"unborn", "live", "cancelled"},
                            plan : Plans \cup {Null}]]
  /\ charged \subseteq Charges
  /\ \A i \in DOMAIN events : events[i] \in Events

BillingInit ==
  /\ sub = NoRow /\ invoices = {} /\ orgPlan = Null /\ links = {}
  /\ calls = [c \in Cancels |-> [step |-> "idle", fw |-> Null]]
  /\ provider = [s \in Subs |-> [state |-> "unborn", plan |-> Null]]
  /\ charged = {} /\ events = <<>>

----------------------------------------------------------------------------
(* The provider                                                            *)

\* What the provider sends of a charge; subscription_id and meta may be
\* missing.
EmitCharge(s, t, p) ==
  /\ t \notin charged /\ charged' = charged \cup {t}
  /\ \E fw \in {s, Null}, meta \in BOOLEAN :
       events' = Append(events, [kind |-> "charge", tx |-> t, fw |-> fw,
                                 of |-> s, plan |-> p, meta |-> meta])

\* The client pays through a link: a new subscription and its first charge.
Pay(s, t, p) ==
  /\ p \in links /\ provider[s].state = "unborn"
  /\ provider' = [provider EXCEPT ![s] = [state |-> "live", plan |-> p]]
  /\ EmitCharge(s, t, p)
  /\ UNCHANGED ours

\* The monthly charge.
Renew(s, t) ==
  /\ provider[s].state = "live"
  /\ EmitCharge(s, t, provider[s].plan)
  /\ UNCHANGED <<ours, provider>>

\* A subscription ends at the provider, which emits subscription.cancelled.
End(s) ==
  /\ provider[s].state = "live"
  /\ provider' = [provider EXCEPT ![s].state = "cancelled"]
  /\ events' = Append(events, [kind |-> "cancelled", fw |-> s])
  /\ UNCHANGED charged

\* It gives up after failed charges, or is told so on its own dashboard.
ProviderCancels(s) == End(s) /\ UNCHANGED ours

----------------------------------------------------------------------------
(* BillingService                                                          *)

\* The plan is also chosen without a payment: in step 1 of the wizard, and by
\* an administrator who updates the organisation.
SelectPlan(p) ==
  /\ orgPlan' = p
  /\ UNCHANGED <<sub, invoices, links, calls, theirs>>

CreateCheckoutSession(p) ==
  /\ links' = links \cup {p}
  /\ UNCHANGED <<sub, invoices, orgPlan, calls, theirs>>

\* cancelSubscription reads the row ...
CancelSubscription(c, immediately) ==
  /\ calls[c].step = "idle"
  /\ sub.status \notin {"NONE", "CANCELLED"}
  /\ calls' = [calls EXCEPT ![c] =
       [step |-> IF immediately /\ sub.fw # Null THEN "put" ELSE "mark",
        fw |-> sub.fw]]
  /\ UNCHANGED <<sub, invoices, orgPlan, links, theirs>>

\* ... calls the provider, which may refuse or whose answer may be lost ...
PutCancel(c) ==
  /\ calls[c].step = "put"
  /\ \/ /\ End(calls[c].fw)
        /\ \E step \in {"write", "done"} :
             calls' = [calls EXCEPT ![c].step = step]
     \/ /\ UNCHANGED theirs
        /\ calls' = [calls EXCEPT ![c].step = "done"]
  /\ UNCHANGED <<sub, invoices, orgPlan, links>>

\* ... and records the cancellation,
WriteCancelled(c) ==
  /\ calls[c].step = "write"
  /\ sub' = [sub EXCEPT !.status = "CANCELLED"]
  /\ calls' = [calls EXCEPT ![c].step = "done"]
  /\ UNCHANGED <<invoices, orgPlan, links, theirs>>

\* or schedules it, also when it was asked for at once and the provider's id
\* of the subscription is not known.
MarkAtPeriodEnd(c) ==
  /\ calls[c].step = "mark"
  /\ sub' = [sub EXCEPT !.atEnd = TRUE]
  /\ calls' = [calls EXCEPT ![c].step = "done"]
  /\ UNCHANGED <<invoices, orgPlan, links, theirs>>

----------------------------------------------------------------------------
(* FlutterwaveWebhookService                                               *)

\* Mutant: the subscription is updated outside the transaction of the invoice.
ChargeUninvoiced(e) ==
  /\ e.meta
  /\ sub' = [status |-> IF sub.status = "NONE" THEN "TRIALING" ELSE "ACTIVE",
             fw |-> IF e.fw = Null THEN sub.fw ELSE e.fw,
             plan |-> e.plan, atEnd |-> FALSE]
  /\ orgPlan' = e.plan
  /\ \/ invoices' = invoices \cup {e.tx}
     \/ UNCHANGED invoices

\* The transaction of handleChargeCompleted: customer, subscription, invoice
\* and the organisation's plan; nothing at all when the meta data is missing.
HandleChargeCompleted(e) ==
  \/ ~e.meta /\ UNCHANGED <<sub, invoices, orgPlan>>
  \/ /\ e.meta
     /\ sub' = [status |-> IF sub.status = "NONE" THEN "TRIALING" ELSE "ACTIVE",
                fw |-> IF e.fw = Null THEN sub.fw ELSE e.fw,
                plan |-> e.plan, atEnd |-> FALSE]
     /\ invoices' = invoices \cup {e.tx}
     /\ orgPlan' = e.plan

\* Mutant: the provider's cancellation is only scheduled.
CancelledSchedules(e) ==
  /\ sub' = IF sub.fw = e.fw THEN [sub EXCEPT !.atEnd = TRUE] ELSE sub
  /\ UNCHANGED <<invoices, orgPlan>>

\* A cancellation of an unknown subscription is logged and acknowledged.
HandleSubscriptionCancelled(e) ==
  /\ sub' = IF sub.fw = e.fw THEN [sub EXCEPT !.status = "CANCELLED"] ELSE sub
  /\ UNCHANGED <<invoices, orgPlan>>

\* Mutant: a failure is answered with 200 and never delivered again.
HandleEventSwallows(i) ==
  /\ \/ events[i].kind = "charge" /\ HandleChargeCompleted(events[i])
     \/ events[i].kind = "cancelled" /\ HandleSubscriptionCancelled(events[i])
     \/ UNCHANGED <<sub, invoices, orgPlan>>
  /\ events' = RemoveAt(events, i)
  /\ UNCHANGED <<links, calls, provider, charged>>

\* Any event that is not acknowledged may be the next one to arrive.  The
\* handler commits; the answer is 200, or the audit log after the commit
\* fails (or the answer is lost) and the provider will deliver again.
HandleEvent(i) ==
  /\ \/ events[i].kind = "charge" /\ HandleChargeCompleted(events[i])
     \/ events[i].kind = "cancelled" /\ HandleSubscriptionCancelled(events[i])
  /\ \/ events' = RemoveAt(events, i)
     \/ UNCHANGED events
  /\ UNCHANGED <<links, calls, provider, charged>>

\* A worker dies with its calls.
BillingRestart ==
  /\ \E c \in Cancels : calls[c].step \in {"put", "write", "mark"}
  /\ calls' = [c \in Cancels |-> IF calls[c].step = "idle" THEN calls[c]
                                 ELSE [calls[c] EXCEPT !.step = "done"]]
  /\ UNCHANGED <<sub, invoices, orgPlan, links, theirs>>

----------------------------------------------------------------------------
(* Specification                                                           *)

BillingNext ==
  \/ \E p \in Plans : CreateCheckoutSession(p) \/ SelectPlan(p)
  \/ \E s \in Subs, t \in Charges : Renew(s, t) \/ \E p \in Plans : Pay(s, t, p)
  \/ \E s \in Subs : ProviderCancels(s)
  \/ \E c \in Cancels : \/ \E immediately \in BOOLEAN :
                             CancelSubscription(c, immediately)
                        \/ PutCancel(c) \/ WriteCancelled(c)
                        \/ MarkAtPeriodEnd(c)
  \/ \E i \in DOMAIN events : HandleEvent(i)
  \/ BillingRestart

BillingSpec == BillingInit /\ [][BillingNext]_billingVars

\* The provider delivers an event until it is acknowledged, and the handler
\* does not fail for ever after its commit.
Fairness ==
  /\ WF_billingVars(\E i \in DOMAIN events :
                       HandleEvent(i) /\ Len(events') < Len(events))
  /\ \A c \in Cancels :
       WF_billingVars(PutCancel(c) \/ WriteCancelled(c) \/ MarkAtPeriodEnd(c))

FairSpec == BillingSpec /\ Fairness

----------------------------------------------------------------------------
(* Properties                                                              *)

\* A subscription that gives access has an invoice behind it, of a charge the
\* provider really made, and a trial is one payment: the transaction of
\* handleChargeCompleted is all or nothing, in whatever order and however often
\* events arrive.
AccessIsInvoiced ==
  /\ sub.status # "NONE" => invoices # {}
  /\ sub.status = "TRIALING" => Cardinality(invoices) = 1
  /\ invoices \subseteq charged

\* Every charge whose event names the organisation and the plan gets its
\* invoice, through failures after the commit and repeated delivery.  (One
\* without them is acknowledged and never invoiced,
\* flutterwave-webhook.service.ts:103-106.)
ChargesAreInvoiced ==
  \A t \in Charges :
    (\E i \in DOMAIN events :
       events[i].kind = "charge" /\ events[i].tx = t /\ events[i].meta)
      ~> t \in invoices

ChargesOutstanding == {events[i] : i \in {k \in DOMAIN events : events[k].kind = "charge"}}

\* A subscription the provider ends after all its charges have been handled
\* ends here for good, even if the worker died between the provider's answer
\* and the update of the row and whatever else arrives out of order - provided
\* charges carry their subscription_id, without which the row keeps the id of
\* the ended subscription.
CancellationSettles ==
  [](\A e \in ChargesOutstanding : e.fw # Null) =>
    \A s \in Subs :
      []((/\ \E i \in DOMAIN events : events[i] = [kind |-> "cancelled", fw |-> s]
          /\ \A e \in ChargesOutstanding : e.of # s)
           => <>[](sub.fw = s => sub.status = "CANCELLED"))

============================================================================
