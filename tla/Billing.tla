------------------------------ MODULE Billing ------------------------------
(***************************************************************************)
(* The billing core of nereo-backend: the tables subscriptions and          *)
(* payment_events, and everything that writes them concurrently.            *)
(*                                                                         *)
(*  - a goroutine per Mercado Pago notification (payment/handler.go,        *)
(*    processPaymentWebhook): five calls, each of them a step here, because *)
(*    nothing holds them together in one transaction;                       *)
(*  - the staff's requests: creating a subscription (membership/service.go) *)
(*    and registering a cash payment or a manual renewal                    *)
(*    (payment/handler.go), which also issue one statement at a time;       *)
(*  - the cancellation of a subscription, a single statement;               *)
(*  - the cron that lists overdue subscriptions and then cancels the listed *)
(*    ones one by one (payment/cron.go).                                    *)
(*                                                                         *)
(* A call that fails, and a crash of the process, are actions of their own. *)
(* Mercado Pago is the environment: it owns the payments and notifies in    *)
(* any order, any number of times.                                          *)
(***************************************************************************)
EXTENDS Naturals, FiniteSets

CONSTANTS
    Subs,       \* ids of subscriptions rows
    Payments,   \* Mercado Pago payment ids
    Webhooks,   \* notifications Mercado Pago delivers; each starts one goroutine
    Requests,   \* requests of the staff; each is one run of a handler
    Periods,    \* lengths a plan interval can have (weekly, monthly)
    Grace,      \* days a subscription may stay past_due (7)
    MaxTime,    \* bound on the clock
    MaxFaults,  \* bound on failed calls and crashes
    None        \* no id: SQL NULL, or a reference that is no row's id

ASSUME BillingAssumption ==
    /\ Webhooks \cap Requests = {}
    /\ None \notin Subs \cup Payments
    /\ Periods \subseteq Nat \ {0}
    /\ Grace \in Nat
    /\ MaxTime \in Nat
    /\ MaxFaults \in Nat

VARIABLES
    subscriptions,  \* the table, by id; an id not inserted yet has status "absent"
    events,         \* the rows of payment_events
    mp,             \* Mercado Pago's payments
    hook,           \* the goroutine each delivered notification started
    req,            \* the handler run of each staff request
    cron,           \* the sweep in progress: when it listed, what is left of its list
    now,            \* the clock, in days
    faults          \* failed calls and crashes so far

vars == <<subscriptions, events, mp, hook, req, cron, now, faults>>

-----------------------------------------------------------------------------
Methods == {"mercadopago", "manual"}
SubscriptionStatus == {"active", "past_due", "cancelled"}
\* "pending" stands for in_process too, and "refunded" for every other status
\* that ends a payment without deciding anything (cancelled, charged_back).
PaymentStatus == {"pending", "approved", "rejected", "refunded"}

\* The columns of subscriptions that decide anything.
Row == [status: SubscriptionStatus \cup {"absent"}, payment_method: Methods,
        current_period_start: Nat, current_period_end: Nat, updated_at: Nat]

\* A handler run inserts at most one event, so its identity serves as the row's.
Event == [id: Webhooks \cup Requests, mp_payment_id: Payments \cup {None},
          subscription_id: Subs, source: Methods, status: PaymentStatus]

MPPayment == [status: PaymentStatus \cup {"none"},
              external_reference: Subs \cup {None}]

\* status and sub are what the goroutine fetched from Mercado Pago. A run ends "skipped" (the payment has
\* its event already), "dropped" (the reference is no subscription), "noted" (a
\* status that decides nothing was recorded), "applied" or "failed".
HookRunning == {"check", "fetch", "lookup", "record", "apply"}
HookDone == {"skipped", "dropped", "noted", "applied", "failed"}
Hook == [pc: HookRunning \cup HookDone \cup {"idle"},
         payment: Payments \cup {None},
         status: PaymentStatus \cup {"none"}, sub: Subs \cup {None}]

\* "insert" and "activate" are the statements of CreateSubscription, "record"
\* and "renew" those of RegisterManualPayment and RenewManual.
ReqRunning == {"insert", "activate", "record", "renew"}
Req == [pc: ReqRunning \cup {"idle", "ok", "failed"}, sub: Subs \cup {None},
        period: Nat, at: Nat]

Exists(s) == subscriptions[s].status # "absent"

Recorded(p) == \E e \in events : e.mp_payment_id = p

Update(s, status) ==
    subscriptions' = [subscriptions EXCEPT ![s].status = status,
                                           ![s].updated_at = now]
-----------------------------------------------------------------------------
Init ==
    /\ subscriptions = [s \in Subs |->
            [status |-> "absent", payment_method |-> "manual",
             current_period_start |-> 0, current_period_end |-> 0, updated_at |-> 0]]
    /\ events = {}
    /\ mp = [p \in Payments |-> [status |-> "none", external_reference |-> None]]
    /\ hook = [w \in Webhooks |->
            [pc |-> "idle", payment |-> None, status |-> "none", sub |-> None]]
    /\ req = [r \in Requests |-> [pc |-> "idle", sub |-> None, period |-> 0, at |-> 0]]
    /\ cron = [at |-> 0, due |-> {}]
    /\ now = 0
    /\ faults = 0

-----------------------------------------------------------------------------
(***************************************************************************)
(* Mercado Pago.  A payment carries as external_reference the id of a       *)
(* subscription (roadmap-backend.md, 2.2 and 2.3) or, from the checkouts    *)
(* this backend opens today, a fresh id that no row has: None.              *)
(***************************************************************************)
CreateMPPayment(p, s, status) ==
    /\ mp[p].status = "none"
    /\ s = None \/ (s \in Subs /\ Exists(s))
    /\ status \in {"pending", "approved", "rejected"}
    /\ mp' = [mp EXCEPT ![p] = [status |-> status, external_reference |-> s]]
    /\ UNCHANGED <<subscriptions, events, hook, req, cron, now, faults>>

UpdateMPPayment(p, status) ==
    /\ \/ mp[p].status = "pending" /\ status \in {"approved", "rejected"}
       \/ mp[p].status \in {"pending", "approved"} /\ status = "refunded"
    /\ mp' = [mp EXCEPT ![p].status = status]
    /\ UNCHANGED <<subscriptions, events, hook, req, cron, now, faults>>

-----------------------------------------------------------------------------
(***************************************************************************)
(* Webhook goroutines.                                                     *)
(***************************************************************************)
HookStep(w, from, to) ==
    /\ hook[w].pc = from
    /\ hook' = [hook EXCEPT ![w].pc = to]

\* 200 is answered at once; the rest happens in a goroutine nobody waits for.
HandleWebhook(w, p) ==
    /\ hook[w].pc = "idle"
    /\ mp[p].status # "none"
    /\ hook' = [hook EXCEPT ![w].pc = "check", ![w].payment = p]
    /\ UNCHANGED <<subscriptions, events, mp, req, cron, now, faults>>

CheckIdempotency(w) ==
    /\ HookStep(w, "check", IF Recorded(hook[w].payment) THEN "skipped" ELSE "fetch")
    /\ UNCHANGED <<subscriptions, events, mp, req, cron, now, faults>>

\* The error of the idempotency query is discarded, and so the run goes on.
CheckError(w) ==
    /\ faults < MaxFaults
    /\ faults' = faults + 1
    /\ HookStep(w, "check", "fetch")
    /\ UNCHANGED <<subscriptions, events, mp, req, cron, now>>

\* Broken variant: the subscription is updated before the payment is recorded.
FetchPaymentApplyFirst(w) ==
    /\ hook[w].pc = "fetch"
    /\ LET payment == mp[hook[w].payment]
       IN  hook' = [hook EXCEPT ![w].status = payment.status,
                                ![w].sub = payment.external_reference,
                                ![w].pc = IF payment.external_reference # None
                                          THEN "apply" ELSE "dropped"]
    /\ UNCHANGED <<subscriptions, events, mp, req, cron, now, faults>>

FetchPayment(w) ==
    /\ hook[w].pc = "fetch"
    /\ LET payment == mp[hook[w].payment]
       IN  hook' = [hook EXCEPT ![w].pc = "lookup", ![w].status = payment.status,
                                ![w].sub = payment.external_reference]
    /\ UNCHANGED <<subscriptions, events, mp, req, cron, now, faults>>

\* Broken variant: the lookup is repeated until the subscription appears.
LookupTenantRetry(w) ==
    /\ HookStep(w, "lookup", IF hook[w].sub \in Subs /\ Exists(hook[w].sub)
                             THEN "record" ELSE "lookup")
    /\ UNCHANGED <<subscriptions, events, mp, req, cron, now, faults>>

\* An unparsable reference and one that no row has end the run the same way.
LookupTenant(w) ==
    /\ HookStep(w, "lookup", IF hook[w].sub \in Subs /\ Exists(hook[w].sub)
                             THEN "record" ELSE "dropped")
    /\ UNCHANGED <<subscriptions, events, mp, req, cron, now, faults>>

\* Broken variant: the table without its UNIQUE constraint.
ConflictUnchecked(p) == FALSE

\* UNIQUE (mp_payment_id), ON CONFLICT DO NOTHING.
Conflict(p) == Recorded(p)

EventOf(w) ==
    [id |-> w, mp_payment_id |-> hook[w].payment, subscription_id |-> hook[w].sub,
     source |-> "mercadopago", status |-> hook[w].status]

\* Broken variant: a switch whose last case takes every status.
DecidesAll(status) == TRUE

Decides(status) == status \in {"approved", "rejected"}

\* Broken variant: the conflict is logged and the run goes on to the update.
RecordPaymentNoReturn(w) ==
    /\ events' = IF Recorded(hook[w].payment) THEN events ELSE events \cup {EventOf(w)}
    /\ HookStep(w, "record", IF Decides(hook[w].status) THEN "apply" ELSE "noted")
    /\ UNCHANGED <<subscriptions, mp, req, cron, now, faults>>

RecordPayment(w) ==
    /\ hook[w].pc = "record"
    /\ IF Conflict(hook[w].payment)
       THEN /\ HookStep(w, "record", "skipped")
            /\ UNCHANGED events
       ELSE /\ events' = events \cup {EventOf(w)}
            /\ HookStep(w, "record", IF Decides(hook[w].status) THEN "apply" ELSE "noted")
    /\ UNCHANGED <<subscriptions, mp, req, cron, now, faults>>

\* Broken variant: the payment's own status is written into the column.
StandingVerbatim(status) == status

Standing(status) == IF status = "approved" THEN "active" ELSE "past_due"

UpdateStatus(w) ==
    /\ HookStep(w, "apply", "applied")
    /\ Update(hook[w].sub, Standing(hook[w].status))
    /\ UNCHANGED <<events, mp, req, cron, now, faults>>

\* A call after the first one fails, or the 30 s of the run are over.
WebhookError(w) ==
    /\ faults < MaxFaults
    /\ faults' = faults + 1
    /\ hook[w].pc \in HookRunning \ {"check"}
    /\ hook' = [hook EXCEPT ![w].pc = "failed"]
    /\ UNCHANGED <<subscriptions, events, mp, req, cron, now>>

-----------------------------------------------------------------------------
(***************************************************************************)
(* Requests of the staff.                                                  *)
(***************************************************************************)
\* POST /subscriptions has read an active plan; uuid.New() makes an id that
\* no row and no other run has.
StartCreateSubscription(r, s, period) ==
    /\ req[r].pc = "idle"
    /\ ~Exists(s)
    /\ \A other \in Requests : req[other].sub # s
    /\ req' = [req EXCEPT ![r] = [pc |-> "insert", sub |-> s, period |-> period, at |-> now]]
    /\ UNCHANGED <<subscriptions, events, mp, hook, cron, now, faults>>

InsertSubscription(r, method) ==
    /\ req[r].pc = "insert"
    /\ subscriptions' = [subscriptions EXCEPT ![req[r].sub] =
            [status |-> "active", payment_method |-> method,
             current_period_start |-> req[r].at,
             current_period_end |-> req[r].at + req[r].period,
             updated_at |-> now]]
    /\ req' = [req EXCEPT ![r].pc = IF method = "manual" THEN "activate" ELSE "ok"]
    /\ UNCHANGED <<events, mp, hook, cron, now, faults>>

ManualEvent(r) ==
    [id |-> r, mp_payment_id |-> None, subscription_id |-> req[r].sub,
     source |-> "manual", status |-> "approved"]

RecordActivation(r) ==
    /\ req[r].pc = "activate"
    /\ events' = events \cup {ManualEvent(r)}
    /\ req' = [req EXCEPT ![r].pc = "ok"]
    /\ UNCHANGED <<subscriptions, mp, hook, cron, now, faults>>

\* Broken variant: the renewal is not recorded as a payment.
StartManualPaymentUnrecorded(r, s, period) ==
    /\ req[r].pc = "idle"
    /\ Exists(s)
    /\ req' = [req EXCEPT ![r] = [pc |-> "renew", sub |-> s, period |-> period, at |-> now]]
    /\ UNCHANGED <<subscriptions, events, mp, hook, cron, now, faults>>

\* RegisterManualPayment and RenewManual have read the subscription, whatever
\* its status, and the interval its plan has at that moment.
StartManualPayment(r, s, period) ==
    /\ req[r].pc = "idle"
    /\ Exists(s)
    /\ req' = [req EXCEPT ![r] = [pc |-> "record", sub |-> s, period |-> period, at |-> 0]]
    /\ UNCHANGED <<subscriptions, events, mp, hook, cron, now, faults>>

\* time.Now() is read between the two statements.
RecordManualPayment(r) ==
    /\ req[r].pc = "record"
    /\ events' = events \cup {ManualEvent(r)}
    /\ req' = [req EXCEPT ![r].pc = "renew", ![r].at = now]
    /\ UNCHANGED <<subscriptions, mp, hook, cron, now, faults>>

RenewSubscription(r) ==
    /\ req[r].pc = "renew"
    /\ subscriptions' = [subscriptions EXCEPT ![req[r].sub] =
            [status |-> "active", payment_method |-> @.payment_method,
             current_period_start |-> req[r].at,
             current_period_end |-> req[r].at + req[r].period,
             updated_at |-> now]]
    /\ req' = [req EXCEPT ![r].pc = "ok"]
    /\ UNCHANGED <<events, mp, hook, cron, now, faults>>

RequestError(r) ==
    /\ faults < MaxFaults
    /\ faults' = faults + 1
    /\ req[r].pc \in ReqRunning
    /\ req' = [req EXCEPT ![r].pc = "failed"]
    /\ UNCHANGED <<subscriptions, events, mp, hook, cron, now>>

CancelSubscription(s) ==
    /\ Exists(s)
    /\ Update(s, "cancelled")
    /\ UNCHANGED <<events, mp, hook, req, cron, now, faults>>

-----------------------------------------------------------------------------
(***************************************************************************)
(* The past_due cron.                                                      *)
(***************************************************************************)
\* Broken variants: the status forgotten, and the threshold taken for an exact age.
OverdueWhatever(s) ==
    /\ Exists(s)
    /\ subscriptions[s].updated_at + Grace < now

OverdueExactly(s) ==
    /\ subscriptions[s].status = "past_due"
    /\ subscriptions[s].updated_at + Grace + 1 = now

Overdue(s) ==
    /\ subscriptions[s].status = "past_due"
    /\ subscriptions[s].updated_at + Grace < now

\* A sweep that lists nothing returns: a step without effect.
CronList ==
    /\ cron.due = {}
    /\ cron' = [at |-> now, due |-> {s \in Subs : Overdue(s)}]
    /\ cron'.due # {}
    /\ UNCHANGED <<subscriptions, events, mp, hook, req, now, faults>>

\* The update names the row only: whatever happened to it since, it is cancelled.
CronCancel(s) ==
    /\ s \in cron.due
    /\ Update(s, "cancelled")
    /\ cron' = [cron EXCEPT !.due = @ \ {s}]
    /\ UNCHANGED <<events, mp, hook, req, now, faults>>

CronError(s) ==
    /\ faults < MaxFaults
    /\ faults' = faults + 1
    /\ s \in cron.due
    /\ cron' = [cron EXCEPT !.due = @ \ {s}]
    /\ UNCHANGED <<subscriptions, events, mp, hook, req, now>>

-----------------------------------------------------------------------------
Tick ==
    /\ now < MaxTime
    /\ now' = now + 1
    /\ UNCHANGED <<subscriptions, events, mp, hook, req, cron, faults>>

\* Goroutines, handlers and the sweep live in memory; a shutdown does not wait
\* for the goroutines either.
Crash ==
    /\ faults < MaxFaults
    /\ faults' = faults + 1
    /\ hook' = [w \in Webhooks |-> IF hook[w].pc \in HookRunning
                                   THEN [hook[w] EXCEPT !.pc = "failed"] ELSE hook[w]]
    /\ req' = [r \in Requests |-> IF req[r].pc \in ReqRunning
                                  THEN [req[r] EXCEPT !.pc = "failed"] ELSE req[r]]
    /\ cron' = [cron EXCEPT !.due = {}]
    /\ UNCHANGED <<subscriptions, events, mp, now>>

MercadoPago ==
    \E p \in Payments :
        \/ \E s \in Subs \cup {None}, status \in PaymentStatus : CreateMPPayment(p, s, status)
        \/ \E status \in PaymentStatus : UpdateMPPayment(p, status)

WebhookRun(w) ==
    \/ CheckIdempotency(w)
    \/ FetchPayment(w)
    \/ LookupTenant(w)
    \/ RecordPayment(w)
    \/ UpdateStatus(w)

Staff ==
    \/ \E r \in Requests, s \in Subs, period \in Periods :
          StartCreateSubscription(r, s, period) \/ StartManualPayment(r, s, period)
    \/ \E s \in Subs : CancelSubscription(s)

RequestRun(r) ==
    \/ \E method \in Methods : InsertSubscription(r, method)
    \/ RecordActivation(r)
    \/ RecordManualPayment(r)
    \/ RenewSubscription(r)

Cron == CronList \/ \E s \in Subs : CronCancel(s)

Fault ==
    \/ \E w \in Webhooks : CheckError(w) \/ WebhookError(w)
    \/ \E r \in Requests : RequestError(r)
    \/ \E s \in Subs : CronError(s)
    \/ Crash

Next ==
    \/ MercadoPago
    \/ \E w \in Webhooks, p \in Payments : HandleWebhook(w, p)
    \/ \E w \in Webhooks : WebhookRun(w)
    \/ Staff
    \/ \E r \in Requests : RequestRun(r)
    \/ Cron
    \/ Tick
    \/ Fault

Spec == Init /\ [][Next]_vars

\* A started goroutine or handler runs on, the ticker ticks and time passes. What
\* Mercado Pago and the staff do is never promised, nor is any fault: there are
\* at most MaxFaults of them.
Fairness ==
    /\ \A w \in Webhooks : WF_vars(WebhookRun(w))
    /\ \A r \in Requests : WF_vars(RequestRun(r))
    /\ WF_vars(Cron)
    /\ WF_vars(Tick)

FairSpec == Spec /\ Fairness

-----------------------------------------------------------------------------
TypeOK ==
    /\ subscriptions \in [Subs -> Row]
    /\ events \subseteq Event
    /\ mp \in [Payments -> MPPayment]
    /\ hook \in [Webhooks -> Hook]
    /\ req \in [Requests -> Req]
    /\ cron \in [at: Nat, due: SUBSET Subs]
    /\ now \in 0..MaxTime
    /\ faults \in 0..MaxFaults

-----------------------------------------------------------------------------
(***************************************************************************)
(* Safety.                                                                 *)
(***************************************************************************)
\* A Mercado Pago payment is recorded at most once, however many notifications
\* of it are in flight: their idempotency checks all pass, and only the insert
\* tells them apart.
OneEventPerPayment ==
    \A e, f \in events :
        e.mp_payment_id # None /\ e.mp_payment_id = f.mp_payment_id => e = f

\* Of the runs that handle one payment, at most one gets to update the
\* subscription.
AppliedOnce ==
    \A v, w \in Webhooks :
        /\ hook[v].pc \in {"apply", "applied"}
        /\ hook[w].pc \in {"apply", "applied"}
        /\ hook[v].payment = hook[w].payment
        => v = w

\* Every recorded approval or rejection has been applied to its subscription, is
\* about to be, or belongs to a run that failed halfway.
DecisionApplied ==
    \A e \in events :
        e.source = "mercadopago" /\ e.status \in {"approved", "rejected"}
            => hook[e.id].pc \in {"apply", "applied", "failed"}

\* A subscription is past_due only because a payment of its own was rejected.
PastDueHasRejection ==
    \A s \in Subs : subscriptions[s].status = "past_due" =>
        \E e \in events : /\ e.subscription_id = s
                          /\ e.source = "mercadopago"
                          /\ e.status = "rejected"

\* The list a sweep works from goes stale in one way only: a subscription still
\* on it is overdue, or was written after the sweep read it.
SweepListFresh ==
    \A s \in cron.due :
        \/ /\ subscriptions[s].status = "past_due"
           /\ subscriptions[s].updated_at + Grace < now
        \/ subscriptions[s].updated_at >= cron.at

\* The step that ends the run recorded as x.
Completes(x) ==
    \/ x \in Webhooks /\ hook[x].pc = "apply" /\ hook'[x].pc = "applied"
    \/ x \in Requests /\ req[x].pc = "renew" /\ req'[x].pc = "ok"

\* The period of an existing subscription changes only with the last step of a
\* run that recorded a manual payment for it, which no other step can reuse.
RenewalPaid ==
    [][\A s \in Subs :
          /\ Exists(s)
          /\ <<subscriptions'[s].current_period_start, subscriptions'[s].current_period_end>>
             # <<subscriptions[s].current_period_start, subscriptions[s].current_period_end>>
          => \E e \in events : /\ e.subscription_id = s
                               /\ e.source = "manual"
                               /\ Completes(e.id)]_vars

\* A past_due or cancelled subscription becomes active again only with the last
\* step of a run that recorded an approved payment for it.
ReactivationPaid ==
    [][\A s \in Subs :
          /\ subscriptions[s].status \in {"past_due", "cancelled"}
          /\ subscriptions'[s].status = "active"
          => \E e \in events : /\ e.subscription_id = s
                               /\ e.status = "approved"
                               /\ Completes(e.id)]_vars

-----------------------------------------------------------------------------
(***************************************************************************)
(* What is needed besides, for these to be inductive.                       *)
(***************************************************************************)
\* A run works on a payment Mercado Pago has and, from its insert on, on a
\* subscription that exists and a status it fetched; a request about to insert a
\* subscription is the only one to know its id; a sweep lists rows that exist.
RunsWellFormed ==
    /\ \A w \in Webhooks :
          /\ hook[w].pc # "idle" => /\ hook[w].payment \in Payments
                                    /\ mp[hook[w].payment].status # "none"
          /\ hook[w].pc \in {"lookup", "record", "apply", "applied", "noted"}
                => hook[w].status \in PaymentStatus
          /\ hook[w].pc \in {"record", "apply", "applied", "noted"}
                => hook[w].sub \in Subs /\ Exists(hook[w].sub)
    /\ \A r \in Requests :
          /\ req[r].pc # "idle" => req[r].sub \in Subs
          /\ req[r].pc \in {"activate", "record", "renew"} => Exists(req[r].sub)
          /\ req[r].pc = "insert" => /\ ~Exists(req[r].sub)
                                     /\ \A other \in Requests \ {r} :
                                          req[other].sub # req[r].sub
    /\ cron.at <= now
    /\ \A s \in cron.due : Exists(s)

\* The runs past their insert and the rows of payment_events correspond, and the
\* row holds what its run still acts on.
EventsMatchRuns ==
    /\ \A e \in events :
          \/ /\ e.id \in Webhooks
             /\ e = EventOf(e.id)
             /\ hook[e.id].pc \in {"apply", "applied", "noted", "failed"}
             /\ hook[e.id].pc = "noted" => ~Decides(e.status)
          \/ /\ e.id \in Requests
             /\ e = ManualEvent(e.id)
             /\ req[e.id].pc \in {"renew", "ok", "failed"}
    /\ \A w \in Webhooks : 
          /\ hook[w].pc \in {"apply", "applied", "noted"} => EventOf(w) \in events
          /\ hook[w].pc \in {"apply", "applied"} => Decides(hook[w].status)
    /\ \A r \in Requests : req[r].pc = "renew" => ManualEvent(r) \in events

\* The inductive invariant of Billing_proofs.
IInv ==
    /\ TypeOK
    /\ RunsWellFormed
    /\ EventsMatchRuns
    /\ OneEventPerPayment
    /\ PastDueHasRejection
    /\ SweepListFresh

-----------------------------------------------------------------------------
(***************************************************************************)
(* Liveness, under FairSpec.                                               *)
(***************************************************************************)
\* A notification answered with 200 ends with its payment recorded, unless its
\* reference is no subscription or its run fails.
NotificationHandled ==
    \A w \in Webhooks, p \in Payments :
        hook[w].pc = "check" /\ hook[w].payment = p
            ~> Recorded(p) \/ hook[w].pc \in {"dropped", "failed"}

\* A subscription left past_due for longer than Grace does not stay so: the cron
\* cancels it, or something else writes the row.  (The clock of the model must
\* have room left for the row to become overdue.)
OverdueEnds ==
    \A s \in Subs, t \in 0..MaxTime :
        /\ t + Grace < MaxTime
        /\ subscriptions[s].status = "past_due"
        /\ subscriptions[s].updated_at = t
        ~> ~(subscriptions[s].status = "past_due" /\ subscriptions[s].updated_at = t)

-----------------------------------------------------------------------------
(***************************************************************************)
(* Implementation of the abstract ledger.                                  *)
(***************************************************************************)
EventOfPayment(p) == CHOOSE e \in events : e.mp_payment_id = p

Stage(pc) == CASE pc = "apply"  -> "recorded"
               [] pc = "failed" -> "abandoned"
               [] OTHER         -> "settled"

LedgerEntry(p) ==
    IF Recorded(p)
    THEN [stage |-> Stage(hook[EventOfPayment(p).id].pc),
          sub |-> EventOfPayment(p).subscription_id,
          status |-> EventOfPayment(p).status]
    ELSE [stage |-> "unseen", sub |-> None, status |-> "none"]

LedgerView == [p \in Payments |-> LedgerEntry(p)]

StandingView == [s \in Subs |-> subscriptions[s].status]

Ledger == INSTANCE PaymentLedger WITH ledger <- LedgerView, standing <- StandingView

\* Whatever the interleaving of goroutines, requests, cron and crashes, payments
\* go through the ledger as PaymentLedger says.
LedgerSpec == Ledger!Spec

=============================================================================
