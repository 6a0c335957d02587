-------------------------- MODULE MCBackendProgress --------------------------
(***************************************************************************)
(* What must eventually happen in the backend, for TLC: billing, checkout   *)
(* and registration.  No table and no key is shared between them here, so   *)
(* Init chooses a part, and the others stay as they were at the start.  The  *)
(* fairness of a part is that of its module, asked of the chosen one only.  *)
(***************************************************************************)
EXTENDS Checkout

CONSTANTS
    Subs, Payments, Webhooks, Requests, Periods, Grace, MaxTime, MaxFaults,
    Person, Registration, Slug, MaxConns

VARIABLES
    part,
    subscriptions, payment_events, mp, hook, handling, cron, now, faults,
    form, registration, free, tenants, owners

Billing == INSTANCE Billing WITH events <- payment_events, req <- handling
Onboarding == INSTANCE Onboarding WITH Request <- Registration, req <- registration

ASSUME PartsAssumption == Onboarding!OnboardingAssumption

billingVars == <<subscriptions, payment_events, mp, hook, handling, cron, now, faults>>
shopVars == <<vars, mpvars>>
onboardingVars == <<form, registration, free, tenants, owners>>
allVars == <<part, billingVars, shopVars, onboardingVars>>

MCInit ==
    /\ part \in {"billing", "shop", "onboarding"}
    /\ Billing!Init /\ CheckoutInit /\ Onboarding!Init

MCNext ==
    /\ UNCHANGED part
    /\ \/ part = "billing" /\ Billing!Next /\ UNCHANGED <<shopVars, onboardingVars>>
       \/ part = "shop" /\ CheckoutNext /\ UNCHANGED <<billingVars, onboardingVars>>
       \/ part = "onboarding" /\ Onboarding!Next /\ UNCHANGED <<billingVars, shopVars>>

Fairness ==
    /\ \A w \in Webhooks : WF_billingVars(part = "billing" /\ Billing!WebhookRun(w))
    /\ \A r \in Requests : WF_billingVars(part = "billing" /\ Billing!RequestRun(r))
    /\ WF_billingVars(part = "billing" /\ Billing!Cron)
    /\ WF_billingVars(part = "billing" /\ Billing!Tick)
    /\ \A c \in Call : WF_shopVars(part = "shop" /\ HandlerRun(c))
    /\ \A q \in Registration :
          /\ WF_onboardingVars(part = "onboarding" /\ Onboarding!Begin(q))
          /\ WF_onboardingVars(part = "onboarding"
                               /\ (Onboarding!InsertTenant(q) \/ Onboarding!SlugTaken(q)))
          /\ WF_onboardingVars(part = "onboarding" /\ Onboarding!InsertOwner(q))
          /\ WF_onboardingVars(part = "onboarding" /\ Onboarding!Commit(q))

MCSpec == MCInit /\ [][MCNext]_allVars /\ Fairness

-----------------------------------------------------------------------------
\* A notification that started a goroutine is handled: the run ends.
NotificationHandled == Billing!NotificationHandled

\* A subscription does not stay overdue: it is cancelled, renewed or paid.
OverdueEnds == Billing!OverdueEnds

\* Whoever asks is answered: a checkout, whatever Mercado Pago does, after so many attempts
\* and no more, and a registration, with fewer of them than connections.
AnswersCome == CallsEnd /\ Onboarding!RequestsEnd

\* LinksSpec is that of Checkout.
=============================================================================
