----------------------------- MODULE MCProgress -----------------------------
(***************************************************************************)
(* What must eventually happen in the browser, for TLC, and the two hooks   *)
(* that hold on to something outside of it, the channel of events and the   *)
(* camera.  Init chooses a part, and the others stay as they were at the    *)
(* start.  The fairness of a part is that of its module, asked of the       *)
(* chosen one only.                                                         *)
(*                                                                         *)
(* The channel is a part twice, on the board ("kanban") and on the          *)
(* dashboard.                                                               *)
(***************************************************************************)
EXTENDS RealtimeChannel

CONSTANTS
    None,
    DashboardTimers,
    Booking, Request,
    Scanner,
    Card, MaxReports,
    Tab,
    Submission, Plan, MaxLost,
    Period, Widget, MaxChanges,
    FrameCount

VARIABLES
    part,
    server, cache, fetch, moves, drag, event, lag, used,
    mounted, scannerRef, scanning, cameraError, camera, scans, hasty,
    problemBookingId, notes, left, loading, report, stored, sent,
    accessToken, expired, refreshToken, page, load, user, login, request, changed,
    dialog, step, saved, values, submitting, calls, made, lost,
    reported, open, revenuePeriod, period, data, queries,
    scroll, activeSlide, loaded, imagesRef, due, raf, currentFrame, canvas, undrawn, rewound

Dashboard == INSTANCE RealtimeChannel WITH Screen <- "dashboard", MaxTimers <- DashboardTimers
Board == INSTANCE KanbanBoard WITH
            NoBooking <- None, MaxDrags <- 1, MaxForeign <- 1, MaxFailures <- 0
Camera == INSTANCE QRScanner WITH NoScanner <- None
Modal == INSTANCE ProblemReport WITH Booking <- Card
Session == INSTANCE BrowserSession
Wizard == INSTANCE SubscriberWizard WITH
            Call <- Submission, open <- dialog, loading <- submitting
Overview == INSTANCE Dashboard WITH
            server <- reported, fetch <- queries, Polled <- Widget, Polling <- TRUE
Hero == INSTANCE LandingHero WITH
            Stops <- {0, 7, 20}, MaxJobs <- 2

ASSUME PartsAssumption ==
    /\ Screen = "kanban" /\ ChannelAssumption /\ Dashboard!ChannelAssumption
    /\ Board!BoardAssumption
    /\ Camera!ScannerAssumption
    /\ Modal!ReportAssumption
    /\ Wizard!WizardAssumption /\ Overview!DashboardAssumption /\ Hero!HeroAssumption

boardVars == <<server, cache, fetch, moves, drag, event, lag, used>>
cameraVars == <<mounted, scannerRef, scanning, cameraError, camera, scans, hasty>>
modalVars == <<problemBookingId, notes, left, loading, report, stored, sent>>
sessionVars == <<accessToken, expired, refreshToken, page, load, user, login, request, changed>>
wizardVars == <<dialog, step, saved, values, submitting, calls, made, lost>>
overviewVars == <<reported, open, revenuePeriod, period, data, queries>>
heroVars == <<scroll, activeSlide, loaded, imagesRef, due, raf, currentFrame, canvas, undrawn, rewound>>
allVars == <<part, vars, boardVars, cameraVars, modalVars, sessionVars, wizardVars,
             overviewVars, heroVars>>

OnChannel == part \in {"kanban", "dashboard"}

BoardIdle ==
    /\ server = None /\ cache = None /\ fetch = None /\ moves = None
    /\ drag = None /\ event = None /\ lag = None /\ used = None

MCInit ==
    /\ part \in {"kanban", "dashboard", "board", "camera", "modal", "session",
                 "wizard", "overview", "hero"}
    /\ Init /\ (OnChannel \/ ~enabled)
    /\ IF part = "board" THEN Board!Init ELSE BoardIdle
    /\ Camera!Init /\ Modal!Init /\ Session!Init /\ Wizard!Init /\ Overview!Init
    /\ Hero!Init /\ (part = "hero" \/ canvas.window = "wide")

MCNext ==
    /\ UNCHANGED part
    /\ \/ part = "kanban" /\ Next
       \/ part = "dashboard" /\ Dashboard!Next
       \/ ~OnChannel /\ UNCHANGED vars
    /\ IF part = "board" THEN Board!Next ELSE UNCHANGED boardVars
    /\ IF part = "camera" THEN Camera!Next ELSE UNCHANGED cameraVars
    /\ IF part = "modal" THEN Modal!Next ELSE UNCHANGED modalVars
    /\ IF part = "session" THEN Session!Next ELSE UNCHANGED sessionVars
    /\ IF part = "wizard" THEN Wizard!Next ELSE UNCHANGED wizardVars
    /\ IF part = "overview" THEN Overview!Next ELSE UNCHANGED overviewVars
    /\ IF part = "hero" THEN Hero!Next ELSE UNCHANGED heroVars

\* The retry of the part's own bound; the other timers have none.
RetriesFire == IF part = "kanban" THEN RetryFires ELSE Dashboard!RetryFires

PartsFairness ==
    /\ WF_vars(OnChannel /\ RetriesFire)
    /\ WF_vars(OnChannel /\ TimerFires)
    /\ WF_vars(OnChannel /\ OrphanFires)
    /\ WF_vars(part = "dashboard" /\ Dashboard!Poll)
    /\ \A r \in Request :
          /\ WF_boardVars(part = "board" /\ (Board!Apply(r) \/ Board!Refuse(r)))
          /\ WF_boardVars(part = "board" /\ (Board!Succeed(r) \/ Board!Fail(r)))
    /\ WF_boardVars(part = "board" /\ Board!ServeFetch)
    /\ WF_boardVars(part = "board" /\ Board!FetchDone)
    /\ WF_boardVars(part = "board" /\ Board!OnEvent)
    /\ \A s \in Scanner :
          /\ WF_cameraVars(part = "camera" /\ (Camera!Started(s) \/ Camera!StartFails(s)))
          /\ WF_cameraVars(part = "camera" /\ Camera!Stopped(s))
    /\ WF_modalVars(part = "modal" /\ Modal!Store)
    /\ WF_modalVars(part = "modal" /\ (Modal!Resolve \/ Modal!Reject))
    /\ \A t \in Tab :
          /\ WF_sessionVars(part = "session"
                /\ (Session!Serve(t) \/ Session!RedirectToLogin(t) \/ Session!RedirectToHome(t)))
          /\ WF_sessionVars(part = "session" /\ (Session!Mount(t) \/ Session!RedirectToLanding(t)))
    /\ \A c \in Submission :
          WF_wizardVars(part = "wizard" /\ (Wizard!Completed(c) \/ Wizard!Rejected(c)))
    /\ \A q \in Period \cup Widget :
          /\ WF_overviewVars(part = "overview" /\ Overview!Poll(q))
          /\ SF_overviewVars(part = "overview" /\ Overview!Serve(q))
          /\ WF_overviewVars(part = "overview" /\ Overview!Done(q))
    /\ \A f \in 0..(FrameCount - 1) : WF_heroVars(part = "hero" /\ Hero!ImageLoads(f))
    /\ WF_heroVars(part = "hero" /\ Hero!Commit)
    /\ WF_heroVars(part = "hero" /\ Hero!Draw)

MCSpec == MCInit /\ [][MCNext]_allVars /\ PartsFairness

-----------------------------------------------------------------------------
\* OneSource is RealtimeChannel's, on both screens.  The others are those of their modules.

\* A dashboard with a user ends up connected or polling, even if every attempt hangs or fails;
\* the board, which polls nothing, ends up connected or showing that it is not.
ChannelConnects ==
    /\ part = "dashboard" => Dashboard!ConnectedOrPolling
    /\ part = "kanban" => StatusSettles

\* An event that is delivered to the board refreshes what it is about.
BoardHearsEvents == [][part = "kanban" => EventRefreshes]_vars

\* The board catches up with the server, save for a forgotten drag or a missed event.
Converges == part = "board" => Board!Converges

\* A camera whose start nothing cut into is the only such one, is switched off by the button,
\* and the button says so.
CameraObeys == Camera!IInv

\* Every wait ends: for the camera of a scanner that is gone, the answer to a report, the load
\* of a page, the submission of a dialog, the images of the landing page.
WaitsEnd ==
    /\ Camera!CameraReleased
    /\ Modal!SpinnerEnds
    /\ Session!LoadsEnd
    /\ Wizard!LoadingEnds
    /\ part = "hero" => Hero!SpinnerEnds

\* While a dashboard polls, its widgets and its chart catch up with the server.
WidgetsCatchUp ==
    /\ part = "dashboard" => Dashboard!FallbackRefreshes
    /\ Overview!PollingCatchesUp
=============================================================================
