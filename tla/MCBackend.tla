----------------------------- MODULE MCBackend -----------------------------
(***************************************************************************)
(* The backend's parts beside billing, for TLC.  They share no table and no *)
(* key, so what one does never depends on another: Init chooses a part, the *)
(* variables of the others stay idle, and TLC explores the sum of the       *)
(* parts' states instead of their product.                                  *)
(*                                                                         *)
(* "plans" has all the requests and no checkout; "checkout" has the calls   *)
(* over a plan that one request updates or sells.                           *)
(***************************************************************************)
EXTENDS Checkout

CONSTANTS
    OneRequest,
    Person, Registration, Slug, MaxConns,
    Device, TTL, AccessTTL, MaxTime

VARIABLES
    part,
    form, registration, free, tenants, owners,
    now, stored, held, run, own

Onboarding == INSTANCE Onboarding WITH Request <- Registration, req <- registration
Sessions == INSTANCE Sessions

ASSUME PartsAssumption ==
    /\ OneRequest \in Request
    /\ Onboarding!OnboardingAssumption
    /\ Sessions!SessionsAssumption

shopVars == <<vars, mpvars>>
onboardingVars == <<form, registration, free, tenants, owners>>
sessionsVars == <<now, stored, held, run, own>>

OnboardingIdle ==
    form = None /\ registration = None /\ free = None /\ tenants = None /\ owners = None
SessionsIdle == now = None /\ stored = None /\ held = None /\ run = None /\ own = None

MCInit ==
    \/ part \in {"plans", "checkout"} /\ CheckoutInit /\ OnboardingIdle /\ SessionsIdle
    \/ part = "onboarding" /\ Onboarding!Init /\ CheckoutInit /\ SessionsIdle
    \/ part = "sessions" /\ Sessions!Init /\ CheckoutInit /\ OnboardingIdle

PlansNext == part = "plans" /\ Next /\ UNCHANGED <<mpvars, onboardingVars, sessionsVars>>
ShopNext ==
    /\ part = "checkout"
    /\ \/ CheckoutStep
       \/ Handle(OneRequest) /\ UNCHANGED mpvars
       \/ (\E p \in Plan : CreatePlan(p) \/ DeactivatePlan(p)) /\ UNCHANGED mpvars
    /\ UNCHANGED <<onboardingVars, sessionsVars>>
OnboardingNext == part = "onboarding" /\ Onboarding!Next /\ UNCHANGED <<shopVars, sessionsVars>>
SessionsNext == part = "sessions" /\ Sessions!Next /\ UNCHANGED <<shopVars, onboardingVars>>

MCNext == UNCHANGED part /\ (PlansNext \/ ShopNext \/ OnboardingNext \/ SessionsNext)

MCSpec == MCInit /\ [][MCNext]_<<part, shopVars, onboardingVars, sessionsVars>>

-----------------------------------------------------------------------------
\* ChargedAsOffered and DeactivatedStaysSo are those of Plans, MadeAsOffered and
\* CreatedIsMade those of Checkout.  The others are those of their modules, with the
\* types of the part's variables.

\* Whoever is sent to the login page after registering is the owner of the tenant under
\* the slug the form shows.
RegisteredHasOwner ==
    part = "onboarding" => Onboarding!TypeOK /\ Onboarding!RegisteredHasOwner

\* Registrations wait for each other in a circle only when they hold the whole pool.
StuckOnlyWhenFull == part = "onboarding" => Onboarding!StuckOnlyWhenFull

\* A device whose token the key was last written with is refused for it only when it has
\* run out; the other refusals are failed calls, or a user who is not active.
RefusedForAReason == part = "sessions" => Sessions!TypeOK /\ Sessions!RefusedForAReason
=============================================================================
