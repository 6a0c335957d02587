------------------------------ MODULE MCPages ------------------------------
(***************************************************************************)
(* Pages and forms, for TLC: the session in the browser, the forgotten      *)
(* password, the top of the landing page, the owner's dashboard, the table  *)
(* of subscribers, the dialog that makes a new one, and the fields for a    *)
(* phone and an amount.  None reads what another one writes, so Init        *)
(* chooses a part, the variables of the others stay idle, and TLC explores  *)
(* the sum of the parts' states instead of their product.                   *)
(***************************************************************************)
EXTENDS Naturals

CONSTANTS
    None,
    Tab,
    Account, Email, Invalid, Password, Short, Link,
    FrameCount,
    Period, Widget, MaxChanges,
    RowCount, PageSize,
    Submission, PlanId, MaxLost,
    Slips,
    Whole, Decimals

VARIABLES
    part,
    accessToken, expired, refreshToken, page, load, user, login, request, changed,
    resetPage, field, token, error, call, stray, mail, good, stored, believed,
    scroll, activeSlide, loaded, imagesRef, due, raf, currentFrame, canvas, undrawn, rewound,
    server, open, revenuePeriod, period, data, fetch,
    subscribers, statusOf, statusFilter, planFilter, globalFilter, sorting, pageIndex,
    rowSelection, expanded, ticked, opened,
    dialog, step, saved, values, loading, calls, made, lost,
    typed, phone, blurred,
    amount, displayValue, isFocused

Session == INSTANCE BrowserSession
Reset == INSTANCE PasswordReset WITH page <- resetPage
Hero == INSTANCE LandingHero WITH Stops <- {0, 3, 4, 6, 9, 14, 20}, MaxJobs <- 2
Overview == INSTANCE Dashboard WITH Polled <- Widget, Polling <- TRUE
Table == INSTANCE SubscriberTable WITH
            Subscriber <- 1..RowCount,
            PlanOf <- [s \in 1..RowCount |-> IF s = 1 THEN "basic" ELSE "full"],
            Still <- TRUE
Wizard == INSTANCE SubscriberWizard WITH
            Call <- Submission, Plan <- PlanId, open <- dialog
Phone == INSTANCE PhoneInput WITH value <- phone
Amount == INSTANCE CurrencyInput WITH value <- amount, Clears <- FALSE

ASSUME PartsAssumption ==
    /\ Reset!ResetAssumption
    /\ Hero!HeroAssumption /\ Overview!DashboardAssumption
    /\ Table!TableAssumption /\ Wizard!WizardAssumption
    /\ Phone!PhoneAssumption /\ Amount!CurrencyAssumption

sessionVars == <<accessToken, expired, refreshToken, page, load, user, login, request, changed>>
resetVars == <<resetPage, field, token, error, call, stray, mail, good, stored, believed>>
heroVars == <<scroll, activeSlide, loaded, imagesRef, due, raf, currentFrame, canvas, undrawn, rewound>>
overviewVars == <<server, open, revenuePeriod, period, data, fetch>>
tableVars == <<subscribers, statusOf, statusFilter, planFilter, globalFilter, sorting, pageIndex,
               rowSelection, expanded, ticked, opened>>
wizardVars == <<dialog, step, saved, values, loading, calls, made, lost>>
phoneVars == <<typed, phone, blurred>>
amountVars == <<amount, displayValue, isFocused>>

SessionIdle ==
    /\ accessToken = None /\ expired = None /\ refreshToken = None /\ page = None
    /\ load = None /\ user = None /\ login = None /\ request = None /\ changed = None
ResetIdle ==
    /\ resetPage = None /\ field = None /\ token = None /\ error = None /\ call = None
    /\ stray = None /\ mail = None /\ good = None /\ stored = None /\ believed = None
HeroIdle ==
    /\ scroll = None /\ activeSlide = None /\ loaded = None /\ imagesRef = None
    /\ due = None /\ raf = None /\ currentFrame = None /\ canvas = None
    /\ undrawn = None /\ rewound = None
OverviewIdle ==
    /\ server = None /\ open = None /\ revenuePeriod = None
    /\ period = None /\ data = None /\ fetch = None
TableIdle ==
    /\ subscribers = None /\ statusOf = None /\ statusFilter = None /\ planFilter = None
    /\ globalFilter = None /\ sorting = None /\ pageIndex = None
    /\ rowSelection = None /\ expanded = None /\ ticked = None /\ opened = None
WizardIdle ==
    /\ dialog = None /\ step = None /\ saved = None /\ values = None
    /\ loading = None /\ calls = None /\ made = None /\ lost = None
PhoneIdle == typed = None /\ phone = None /\ blurred = None
AmountIdle == amount = None /\ displayValue = None /\ isFocused = None

Idle(p) ==
    /\ p # "session" => SessionIdle
    /\ p # "reset" => ResetIdle
    /\ p # "hero" => HeroIdle
    /\ p # "overview" => OverviewIdle
    /\ p # "table" => TableIdle
    /\ p # "wizard" => WizardIdle
    /\ p # "phone" => PhoneIdle
    /\ p # "amount" => AmountIdle

MCInit ==
    \/ part = "session" /\ Session!Init /\ Idle("session")
    \/ part = "reset" /\ Reset!Init /\ Idle("reset")
    \/ part = "hero" /\ Hero!Init /\ Idle("hero")
    \/ part = "overview" /\ Overview!Init /\ Idle("overview")
    \/ part = "table" /\ Table!Init /\ Idle("table")
    \/ part = "wizard" /\ Wizard!Init /\ Idle("wizard")
    \/ part = "phone" /\ Phone!Init /\ Idle("phone")
    \/ part = "amount" /\ Amount!Init /\ Idle("amount")

Others(p) ==
    /\ p # "session" => UNCHANGED sessionVars
    /\ p # "reset" => UNCHANGED resetVars
    /\ p # "hero" => UNCHANGED heroVars
    /\ p # "overview" => UNCHANGED overviewVars
    /\ p # "table" => UNCHANGED tableVars
    /\ p # "wizard" => UNCHANGED wizardVars
    /\ p # "phone" => UNCHANGED phoneVars
    /\ p # "amount" => UNCHANGED amountVars

MCNext ==
    /\ UNCHANGED part
    /\ \/ part = "session" /\ Session!Next
       \/ part = "reset" /\ Reset!Next
       \/ part = "hero" /\ Hero!Next
       \/ part = "overview" /\ Overview!Next
       \/ part = "table" /\ Table!Next
       \/ part = "wizard" /\ Wizard!Next
       \/ part = "phone" /\ Phone!Next
       \/ part = "amount" /\ Amount!Next
    /\ Others(part)

MCSpec ==
    /\ MCInit
    /\ [][MCNext]_<<part, sessionVars, resetVars, heroVars, overviewVars,
                    tableVars, wizardVars, phoneVars, amountVars>>

-----------------------------------------------------------------------------
\* What is stated of the parts: the properties of their modules, with the types of the
\* part's variables, one for each part or pair of parts.

\* Whom a page names, and books its washes on, is who is logged in, unless a login was
\* answered while the page was shown.
UserIsLoggedIn == part = "session" => Session!TypeOK /\ Session!UserIsLoggedIn

\* The password that the user was told is the account's is the account's.
ChangedIsStored == part = "reset" => Reset!ChangedIsStored

\* The canvas shows the frame of the scroll, unless its image was missing or loading began
\* anew, and the slide that counts as active can be read.
HeroInStep == part = "hero" => Hero!FollowsScroll /\ Hero!ActiveIsReadable

\* The chart draws the period its tab names.
ChartIsOfPeriod == part = "overview" => Overview!TypeOK /\ Overview!ChartIsOfPeriod

\* Ticks and open rows are those the owner chose, and the page that is shown exists.
TableIsTrue == part = "table" => Table!KeysFollowRows /\ Table!PageExists

\* A submission is of what its form holds, and a form is created once, and once more for each
\* answer that was lost.
FormIsSent == part = "wizard" => Wizard!TypeOK /\ Wizard!FormWaits /\ Wizard!AgainOnlyIfLost

\* A field that is valid holds the number that was meant, a number written as it should be
\* is understood, leaving the field again changes nothing; an amount is what is shown.
FieldsAreMeant ==
    /\ part = "phone" => Phone!ValidIsMeant /\ Phone!Understood /\ Phone!BlurSettles
    /\ part = "amount" => Amount!ShownIsValue
=============================================================================
