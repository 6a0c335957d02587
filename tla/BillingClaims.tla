--------------------------- MODULE BillingClaims ---------------------------
(***************************************************************************)
(* What the roadmap, a comment and a message of the backend say of billing  *)
(* and the code does not do.  A history variable records what the second    *)
(* claim speaks of and the code does not keep; it constrains nothing.       *)
(***************************************************************************)
EXTENDS Billing

VARIABLE announced  \* by notification: the payment's status when it was sent

HInit ==
    /\ Init
    /\ announced = [w \in Webhooks |-> "none"]

HNext ==
    /\ Next
    /\ announced' = [w \in Webhooks |->
            IF hook[w].pc = "idle" /\ hook'[w].pc # "idle"
            THEN mp[hook'[w].payment].status ELSE announced[w]]

hvars == <<vars, announced>>

HSpec == HInit /\ [][HNext]_hvars

-----------------------------------------------------------------------------
\* cron.go says it cancels subscriptions that have been past_due for more than
\* seven days: none that is not past_due when it is cancelled.
CronCancelsPastDueOnly ==
    [][\A s \in Subs :
          s \in cron.due /\ s \notin cron'.due /\ subscriptions'[s].status = "cancelled"
          => subscriptions[s].status \in {"past_due", "cancelled"}]_hvars

\* The roadmap has a payment notification update the subscription.  A notification
\* sent for an approval must not be skipped while the payment is on record as
\* still open.
ApprovalNotSkipped ==
    \A w \in Webhooks :
        hook[w].pc = "skipped" /\ announced[w] = "approved"
            => \A e \in events : e.mp_payment_id = hook[w].payment => e.status # "pending"

\* A notification is skipped with the message that its payment was already
\* processed: the run that recorded it must not have died before the update.
SkippedWasProcessed ==
    \A w \in Webhooks :
        hook[w].pc = "skipped" =>
            \A e \in events : e.mp_payment_id = hook[w].payment => hook[e.id].pc # "failed"

=============================================================================
