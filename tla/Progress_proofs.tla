--------------------------- MODULE Progress_proofs ---------------------------
(***************************************************************************)
(* Proofs about the two hooks that hold on to something outside of the      *)
(* browser: RealtimeChannel, for every screen, tenant and branch and for    *)
(* any number of timers, and QRScanner (Camera), for any number of starts;  *)
(* and about the runs of MCProgress, where the channel is on the board or   *)
(* on the dashboard.                                                        *)
(***************************************************************************)
EXTENDS MCProgress, SequenceTheorems, TLAPS

-----------------------------------------------------------------------------
(***************************************************************************)
(* The channel.  What the hook does is the same on every screen; a screen   *)
(* has its own queries and events, which the hook's state does not depend   *)
(* on.  HookIInv is the part of IInv about that state.                      *)
(***************************************************************************)
HookTypeOK ==
    /\ enabled \in BOOLEAN
    /\ phase \in {"out", "mounted", "gone"}
    /\ status \in ConnectionStatus
    /\ useFallbackPolling \in BOOLEAN
    /\ source \in {"none", "CLOSED"} \cup Live
    /\ stray \in Nat /\ timer \in BOOLEAN /\ orphans \in Nat /\ retries \in Nat

HookIInv ==
    /\ HookTypeOK
    /\ OneSource
    /\ phase = "out" => source = "none" /\ retries = 0 /\ ~timer /\ orphans = 0
    /\ source = "none" => retries = 0 /\ ~timer /\ orphans = 0 /\ status = "disconnected"
    /\ status = "connected" /\ source # "OPEN" => phase = "gone"
    /\ source = "OPEN" => ~useFallbackPolling

\* The hook's invariant, apart from the types of what only the board has.
LEMMA IInvIsHookIInv == IInv <=> HookIInv /\ inbox \subseteq EventTypes /\ stale \subseteq Queries
BY DEF IInv, HookIInv, TypeOK, HookTypeOK

\* A retry, however many timers are out.
Retry ==
    /\ retries > 0 /\ retries' = retries - 1
    /\ Connect
    /\ UNCHANGED <<enabled, phase>>

\* A step of some screen's hook, as far as the hook's state goes.
HookStep ==
    \/ Mount \/ Unmount \/ OnOpen \/ OnError
    \/ Retry \/ TimerFires \/ OrphanFires
    \/ UNCHANGED <<enabled, phase, hookVars>>

\* Before it is mounted, the hook holds nothing.
LEMMA InitIInv == Init => IInv
<1> SUFFICES ASSUME Init PROVE IInv
  OBVIOUS
<1>1. TypeOK
  BY DEF Init, TypeOK, ConnectionStatus, Live
<1>2. OneSource
  BY DEF Init, OneSource, Live
<1>. QED BY <1>1, <1>2 DEF Init, IInv

\* A connection attempt, made when no source is live and no retry is pending, keeps
\* what the invariant says of the hook's own state.
LEMMA ConnectIInv ==
    ASSUME HookIInv, Connect, source \notin Live,
           retries' = 0, UNCHANGED enabled, phase' \in {"mounted", "gone"}
    PROVE  HookIInv'
BY DEF Connect, HookIInv, HookTypeOK, OneSource, ConnectionStatus, Live

\* A connection timer that fires leaves at most a closed source behind.
LEMMA GiveUpIInv ==
    ASSUME HookIInv, GiveUp, source # "none", orphans' \in Nat, timer' \in BOOLEAN,
           UNCHANGED <<enabled, phase, stray, retries>>
    PROVE  HookIInv'
<1>1. phase # "out"
  BY DEF HookIInv
<1>2. CASE source = "OPEN"
  BY <1>1, <1>2 DEF GiveUp, HookIInv, HookTypeOK, OneSource, ConnectionStatus, Live
<1>3. CASE source # "OPEN"
  BY <1>1, <1>3 DEF GiveUp, HookIInv, HookTypeOK, OneSource, ConnectionStatus, Live
<1>. QED BY <1>2, <1>3

\* Every step of a hook preserves its invariant.
LEMMA HookKeepsIInv == HookIInv /\ HookStep => HookIInv'
<1> SUFFICES ASSUME HookIInv, HookStep PROVE HookIInv'
  OBVIOUS
<1>1. CASE Mount
  <2>1. CASE enabled
    BY <1>1, <2>1, ConnectIInv DEF Mount, HookIInv, Live
  <2>2. CASE ~enabled
    BY <1>1, <2>2 DEF Mount, HookIInv, HookTypeOK, OneSource, ConnectionStatus, Live, hookVars
  <2>. QED BY <2>1, <2>2
<1>2. CASE Unmount
  <2>. USE <1>2 DEF Unmount
  <2>1. HookTypeOK'
    BY DEF HookIInv, HookTypeOK, ConnectionStatus, Live
  <2>2. OneSource'
    BY DEF HookIInv, HookTypeOK, OneSource, Live
  <2>3. source' # "OPEN" /\ (source' = "none" => source = "none")
    BY DEF HookIInv, HookTypeOK, Live
  <2>. QED BY <2>1, <2>2, <2>3 DEF HookIInv
<1>3. CASE OnOpen
  BY <1>3 DEF OnOpen, HookIInv, HookTypeOK, OneSource, ConnectionStatus, Live
<1>4. CASE OnError
  BY <1>4 DEF OnError, HookIInv, HookTypeOK, OneSource, ConnectionStatus, Live
<1>5. CASE Retry
  <2>1. source \notin Live /\ retries = 1 /\ phase \in {"mounted", "gone"}
    BY <1>5 DEF Retry, HookIInv, HookTypeOK, OneSource, Live
  <2>. QED BY <1>5, <2>1, ConnectIInv DEF Retry
<1>6. CASE TimerFires
  <2>1. source # "none"
    BY <1>6 DEF TimerFires, HookIInv
  <2>. QED BY <1>6, <2>1, GiveUpIInv DEF TimerFires, HookIInv, HookTypeOK
<1>7. CASE OrphanFires
  <2>1. source # "none" /\ orphans' \in Nat
    BY <1>7 DEF OrphanFires, HookIInv, HookTypeOK
  <2>. QED BY <1>7, <2>1, GiveUpIInv DEF OrphanFires, HookIInv, HookTypeOK
<1>8. CASE UNCHANGED <<enabled, phase, hookVars>>
  BY <1>8 DEF hookVars, HookIInv, HookTypeOK, OneSource, ConnectionStatus, Live
<1>. QED BY <1>1, <1>2, <1>3, <1>4, <1>5, <1>6, <1>7, <1>8 DEF HookStep

\* What a screen does to the hook's state.
LEMMA ScreenStep == [Next]_vars => HookStep
BY DEF Next, vars, HookStep, RetryFires, Retry, Poll, OnMessage, ServerChange, hookVars

\* Events and polls leave a screen with its own queries and events.
LEMMA QueriesStep ==
    inbox \subseteq EventTypes /\ stale \subseteq Queries /\ [Next]_vars
        => inbox' \subseteq EventTypes /\ stale' \subseteq Queries
BY DEF Next, vars, Mount, Connect, Unmount, OnOpen, OnError, RetryFires, TimerFires, OrphanFires, GiveUp,
       Poll, OnMessage, ServerChange

\* Every step preserves the invariant.
LEMMA NextIInv == IInv /\ [Next]_vars => IInv'
<1>1. ASSUME IInv, [Next]_vars PROVE HookIInv'
  BY <1>1, IInvIsHookIInv, ScreenStep, HookKeepsIInv
<1>2. (IInv <=> HookIInv /\ inbox \subseteq EventTypes /\ stale \subseteq Queries)'
  BY DEF IInv, HookIInv, TypeOK, HookTypeOK
<1>. QED BY <1>1, <1>2, IInvIsHookIInv, QueriesStep

\* The strengthening of OneSource and LiveBadgeIsTrue is invariant.
THEOREM ChannelInvariant == Spec => []IInv
BY InitIInv, NextIInv, PTL DEF Spec

\* The hook never drops its reference to a live event source, and never has a source
\* and a pending retry at once (use-realtime-channel.ts, connect and onerror).
THEOREM OneSourceAlways == Spec => []OneSource
<1>1. IInv => OneSource
  BY DEF IInv
<1>. QED BY <1>1, ChannelInvariant, PTL

\* A mounted screen shows "En vivo" only while its source is open.
THEOREM LiveBadge == Spec => []LiveBadgeIsTrue
<1>1. IInv => LiveBadgeIsTrue
  BY DEF IInv, LiveBadgeIsTrue
<1>. QED BY <1>1, ChannelInvariant, PTL

\* After the unmount only a retry that was pending then can open a source.
THEOREM Silent == Spec => SilentAfterGone
<1>1. ASSUME IInv, [Next]_vars
      PROVE  [StaysSilent]_vars
  <2> SUFFICES ASSUME phase = "gone", retries = 0, source \notin Live, Next
               PROVE  source' \notin Live
    BY <1>1 DEF vars, StaysSilent
  <2>. USE DEF Live
  <2>1. ~Mount /\ ~Unmount /\ ~OnOpen /\ ~OnError /\ ~RetryFires
    BY DEF Mount, Unmount, OnOpen, OnError, RetryFires
  <2>2. CASE TimerFires \/ OrphanFires
    BY <2>2 DEF TimerFires, OrphanFires, GiveUp
  <2>3. CASE Poll \/ \E t \in EventTypes : OnMessage(t) \/ ServerChange(t)
    BY <2>3 DEF Poll, OnMessage, ServerChange, hookVars
  <2>. QED BY <2>1, <2>2, <2>3 DEF Next
<1>. QED BY <1>1, ChannelInvariant, PTL DEF Spec, SilentAfterGone

-----------------------------------------------------------------------------
(***************************************************************************)
(* The camera, whatever the component does while it starts and stops.       *)
(***************************************************************************)
\* No camera, and a button to start one.
LEMMA CameraInit == Camera!Init => Camera!IInv
BY DEF Camera!Init, Camera!IInv, Camera!TypeOK, Camera!OneCamera, Camera!ButtonIsTrue, Camera!Starting,
   Camera!Running, Camera!Stopping

\* Whoever calls stopScanning, the camera that runs is the one it stops, and what starts
\* from then on started in haste.
LEMMA CameraStops ==
    ASSUME Camera!ScannerAssumption, Camera!IInv, Camera!StopScanning,
           scans' \subseteq Scanner, mounted' \in BOOLEAN, UNCHANGED cameraError
    PROVE  Camera!IInv'
<1>1. /\ camera \in [Scanner -> {"unused", "starting", "running", "failed", "stopping", "stopped"}]
      /\ scannerRef \in Scanner \cup {None} /\ scanning \in BOOLEAN /\ hasty \subseteq Scanner
      /\ Camera!Starting \cup Camera!Running \subseteq {scannerRef} \cup hasty
      /\ hasty' = hasty \cup Camera!Starting /\ Camera!Starting \subseteq Scanner
  BY DEF Camera!IInv, Camera!TypeOK, Camera!OneCamera, Camera!StopScanning, Camera!Starting
<1>2. Camera!TypeOK'
  <2>1. camera' \in [Scanner -> {"unused", "starting", "running", "failed", "stopping", "stopped"}]
        /\ scannerRef' \in Scanner \cup {None} /\ scanning' \in BOOLEAN
    BY <1>1 DEF Camera!StopScanning
  <2>. QED BY <1>1, <2>1 DEF Camera!IInv, Camera!TypeOK
<1>3. CASE scannerRef # None /\ camera[scannerRef] = "running"
  <2>1. scannerRef \in Scanner /\ camera' = [camera EXCEPT ![scannerRef] = "stopping"]
        /\ UNCHANGED <<scannerRef, scanning>>
    BY <1>1, <1>3 DEF Camera!StopScanning
  <2>2. /\ Camera!Running' = Camera!Running \ {scannerRef}
        /\ Camera!Starting' = Camera!Starting
        /\ scannerRef \in Camera!Stopping'
    BY <1>1, <1>3, <2>1 DEF Camera!Running, Camera!Starting, Camera!Stopping
  <2>3. Camera!Starting' \cup Camera!Running' \subseteq hasty'
    BY <1>1, <2>2
  <2>. QED BY <1>2, <2>1, <2>2, <2>3 DEF Camera!IInv, Camera!OneCamera, Camera!ButtonIsTrue
<1>4. CASE ~(scannerRef # None /\ camera[scannerRef] = "running")
  <2>1. scanning' = FALSE /\ UNCHANGED camera
    BY <1>4 DEF Camera!StopScanning
  <2>2. Camera!Running' = Camera!Running /\ Camera!Starting' = Camera!Starting
    BY <2>1 DEF Camera!Running, Camera!Starting
  <2>3. Camera!Running \subseteq hasty
    BY <1>1, <1>4 DEF Camera!ScannerAssumption, Camera!Running
  <2>4. Camera!Starting' \cup Camera!Running' \subseteq hasty'
    BY <1>1, <2>2, <2>3
  <2>. QED BY <1>2, <2>1, <2>4 DEF Camera!IInv, Camera!OneCamera, Camera!ButtonIsTrue
<1>. QED BY <1>3, <1>4

\* Every step preserves the invariant.
LEMMA CameraStep == Camera!ScannerAssumption /\ Camera!IInv /\ [Camera!Next]_cameraVars => Camera!IInv'
<1> SUFFICES ASSUME Camera!ScannerAssumption, Camera!IInv, [Camera!Next]_cameraVars PROVE Camera!IInv'
  OBVIOUS
<1>1. /\ camera \in [Scanner -> {"unused", "starting", "running", "failed", "stopping", "stopped"}]
      /\ mounted \in BOOLEAN /\ scanning \in BOOLEAN /\ scans \subseteq Scanner /\ hasty \subseteq Scanner
  BY DEF Camera!IInv, Camera!TypeOK
<1>2. ASSUME NEW s \in Scanner, Camera!StartScanning(s) PROVE Camera!IInv'
  <2>1. /\ mounted' = TRUE /\ scanning' = FALSE /\ scanning = FALSE
        /\ scannerRef' = s /\ camera[s] = "unused" /\ camera' = [camera EXCEPT ![s] = "starting"]
        /\ hasty' = hasty \cup Camera!Starting \cup {t \in {s} : Camera!Stopping # {}}
    BY <1>1, <1>2 DEF Camera!StartScanning
  <2>2. /\ Camera!Starting' = Camera!Starting \cup {s} /\ Camera!Stopping' = Camera!Stopping
        /\ Camera!Running' = Camera!Running
    BY <1>1, <2>1 DEF Camera!Starting, Camera!Running, Camera!Stopping
  <2>3. Camera!Running \subseteq hasty
    BY <2>1 DEF Camera!IInv, Camera!ButtonIsTrue
  <2>4. Camera!TypeOK'
    BY <1>1, <1>2, <2>1 DEF Camera!StartScanning, Camera!IInv, Camera!TypeOK, Camera!Starting
  <2>5. Camera!OneCamera' /\ Camera!ButtonIsTrue'
    BY <2>1, <2>2, <2>3 DEF Camera!OneCamera, Camera!ButtonIsTrue
  <2>6. (Camera!Stopping # {} => Camera!Starting \cup Camera!Running \subseteq hasty)'
    BY <2>1, <2>2, <2>3
  <2>. QED BY <2>1, <2>4, <2>5, <2>6 DEF Camera!IInv
<1>3. ASSUME NEW s \in Scanner, Camera!Started(s) PROVE Camera!IInv'
  <2>1. /\ camera[s] = "starting" /\ camera' = [camera EXCEPT ![s] = "running"] /\ scanning' = TRUE
        /\ UNCHANGED <<mounted, scannerRef, cameraError, scans, hasty>>
    BY <1>3 DEF Camera!Started
  <2>2. /\ Camera!Starting' \cup Camera!Running' = Camera!Starting \cup Camera!Running
        /\ s \in Camera!Running' /\ Camera!Stopping' = Camera!Stopping
    BY <1>1, <2>1 DEF Camera!Starting, Camera!Running, Camera!Stopping
  <2>3. Camera!TypeOK'
    BY <1>1, <2>1 DEF Camera!IInv, Camera!TypeOK
  <2>. QED BY <2>1, <2>2, <2>3 DEF Camera!IInv, Camera!OneCamera, Camera!ButtonIsTrue
<1>4. ASSUME NEW s \in Scanner, Camera!StartFails(s) PROVE Camera!IInv'
  <2>1. /\ camera[s] = "starting" /\ camera' = [camera EXCEPT ![s] = "failed"] /\ cameraError' = TRUE
        /\ UNCHANGED <<mounted, scannerRef, scanning, scans, hasty>>
    BY <1>4 DEF Camera!StartFails
  <2>2. /\ Camera!Starting' \subseteq Camera!Starting /\ Camera!Running' = Camera!Running
        /\ Camera!Stopping' = Camera!Stopping
    BY <1>1, <2>1 DEF Camera!Starting, Camera!Running, Camera!Stopping
  <2>3. Camera!TypeOK'
    BY <1>1, <2>1 DEF Camera!IInv, Camera!TypeOK
  <2>. QED BY <2>1, <2>2, <2>3 DEF Camera!IInv, Camera!OneCamera, Camera!ButtonIsTrue
<1>5. ASSUME NEW s \in Scanner, Camera!Scan(s) PROVE Camera!IInv'
  BY <1>1, <1>5, CameraStops DEF Camera!Scan
<1>6. ASSUME NEW s \in Scanner, Camera!Stopped(s) PROVE Camera!IInv'
  <2>1. /\ camera[s] = "stopping" /\ camera' = [camera EXCEPT ![s] = "stopped"]
        /\ scannerRef' = None /\ scanning' = FALSE
        /\ UNCHANGED <<mounted, cameraError, scans, hasty>>
    BY <1>6 DEF Camera!Stopped
  <2>2. /\ Camera!Starting' = Camera!Starting /\ Camera!Running' = Camera!Running
        /\ s \in Camera!Stopping
    BY <1>1, <2>1 DEF Camera!Starting, Camera!Running, Camera!Stopping
  <2>3. Camera!Starting \cup Camera!Running \subseteq hasty
    BY <2>2 DEF Camera!IInv
  <2>4. Camera!TypeOK'
    BY <1>1, <2>1 DEF Camera!IInv, Camera!TypeOK
  <2>. QED BY <2>1, <2>2, <2>3, <2>4 DEF Camera!IInv, Camera!OneCamera, Camera!ButtonIsTrue
<1>7. CASE Camera!StopButton
  BY <1>1, <1>7, CameraStops DEF Camera!StopButton
<1>8. CASE Camera!Unmount
  BY <1>1, <1>8, CameraStops DEF Camera!Unmount
<1>9. CASE UNCHANGED cameraVars
  BY <1>9 DEF cameraVars, Camera!IInv, Camera!TypeOK, Camera!OneCamera, Camera!ButtonIsTrue,
     Camera!Starting, Camera!Running, Camera!Stopping
<1>. QED BY <1>2, <1>3, <1>4, <1>5, <1>6, <1>7, <1>8, <1>9 DEF Camera!Next

\* The strengthening of Camera!OneCamera and Camera!ButtonIsTrue is invariant.
THEOREM CameraInvariant == Camera!ScannerAssumption /\ Camera!Spec => []Camera!IInv
<1> SUFFICES ASSUME Camera!ScannerAssumption PROVE Camera!Spec => []Camera!IInv
  OBVIOUS
<1>1. Camera!IInv /\ [Camera!Next]_cameraVars => Camera!IInv'
  BY CameraStep
<1>. QED BY <1>1, CameraInit, PTL DEF Camera!Spec, Camera!vars, cameraVars

\* No camera runs that scannerRef has lost, and never two, other than cameras whose start
\* was cut into (qr-scanner.tsx, 19-68).
THEOREM NoCameraEscapes == Camera!ScannerAssumption /\ Camera!Spec => []Camera!OneCamera
<1> SUFFICES ASSUME Camera!ScannerAssumption PROVE Camera!Spec => []Camera!OneCamera
  OBVIOUS
<1>1. Camera!IInv => Camera!OneCamera
  BY DEF Camera!IInv
<1>2. Camera!Spec => []Camera!IInv
  BY CameraInvariant
<1>. QED BY <1>1, <1>2, PTL

\* The button offers to stop a camera only while there is one, and to start one only
\* while none runs, other than cameras whose start was cut into.
THEOREM ButtonTellsTheTruth == Camera!ScannerAssumption /\ Camera!Spec => []Camera!ButtonIsTrue
<1> SUFFICES ASSUME Camera!ScannerAssumption PROVE Camera!Spec => []Camera!ButtonIsTrue
  OBVIOUS
<1>1. Camera!IInv => Camera!ButtonIsTrue
  BY DEF Camera!IInv
<1>2. Camera!Spec => []Camera!IInv
  BY CameraInvariant
<1>. QED BY <1>1, <1>2, PTL

-----------------------------------------------------------------------------
(***************************************************************************)
(* The runs of MCProgress.                                                  *)
(***************************************************************************)
\* The dashboard's hook is the board's: its queries are other ones, and so are its timers.
LEMMA DashboardStep == [Dashboard!Next]_vars => HookStep
<1>. USE DEF Live, Dashboard!Live
<1>1. Dashboard!Connect => Connect
  BY DEF Dashboard!Connect, Connect
<1>2. Dashboard!GiveUp => GiveUp
  BY DEF Dashboard!GiveUp, GiveUp
<1>3. Dashboard!Mount => Mount
  BY <1>1 DEF Dashboard!Mount, Mount, Dashboard!hookVars, hookVars
<1>4. Dashboard!Unmount => Unmount
  BY DEF Dashboard!Unmount, Unmount
<1>5. Dashboard!OnOpen => OnOpen
  BY DEF Dashboard!OnOpen, OnOpen
<1>6. Dashboard!OnError => OnError
  BY DEF Dashboard!OnError, OnError
<1>7. Dashboard!RetryFires => Retry
  BY <1>1 DEF Dashboard!RetryFires, Retry
<1>8. Dashboard!TimerFires => TimerFires
  BY <1>2 DEF Dashboard!TimerFires, TimerFires
<1>9. Dashboard!OrphanFires => OrphanFires
  BY <1>2 DEF Dashboard!OrphanFires, OrphanFires
<1>10. ASSUME NEW t, Dashboard!OnMessage(t) \/ Dashboard!ServerChange(t) \/ Dashboard!Poll
       PROVE  UNCHANGED <<enabled, phase, hookVars>>
  BY <1>10 DEF Dashboard!OnMessage, Dashboard!ServerChange, Dashboard!Poll, Dashboard!hookVars, hookVars
<1>11. UNCHANGED vars => UNCHANGED <<enabled, phase, hookVars>>
  BY DEF vars, hookVars
<1>. QED BY <1>3, <1>4, <1>5, <1>6, <1>7, <1>8, <1>9, <1>10, <1>11 DEF Dashboard!Next, HookStep

PartsIInv == HookIInv /\ Camera!IInv

\* Both hooks start with the screen, and every part leaves the others' variables alone.
LEMMA PartsInit == MCInit => PartsIInv
BY InitIInv, IInvIsHookIInv, CameraInit DEF MCInit, PartsIInv

\* A step is one of the part of the run; the others stay idle.
LEMMA PartsStep == PartsIInv /\ [MCNext]_allVars => PartsIInv'
<1>. SUFFICES ASSUME PartsIInv, [MCNext]_allVars PROVE PartsIInv'
  OBVIOUS
<1>1. [Next]_vars \/ [Dashboard!Next]_vars
  BY DEF MCNext, allVars
<1>2. [Camera!Next]_cameraVars
  BY DEF MCNext, allVars
<1>3. HookIInv'
  BY <1>1, ScreenStep, DashboardStep, HookKeepsIInv DEF PartsIInv
<1>4. Camera!IInv'
  BY <1>2, PartsAssumption, CameraStep DEF PartsIInv
<1>. QED BY <1>3, <1>4 DEF PartsIInv

\* In every run, on the board and on the dashboard, the hook's state and the camera's are
\* those of their inductive invariants.
THEOREM PartsInvariant == MCSpec => []PartsIInv
BY PartsInit, PartsStep, PTL DEF MCSpec

\* OneSourceAlways, on the board or on the dashboard as the run has chosen.
THEOREM OneSourceOnBothScreens == MCSpec => []OneSource
<1>1. PartsIInv => OneSource
  BY DEF PartsIInv, HookIInv
<1>. QED BY <1>1, PartsInvariant, PTL

\* qr-scanner.tsx: among the cameras whose start was not cut into (hasty), the one that runs
\* is the only one and the button's, however starts, scans, the button and the unmount
\* interleave.
THEOREM CameraObeysAlways == MCSpec => []CameraObeys
<1>1. PartsIInv => CameraObeys
  BY DEF PartsIInv, CameraObeys
<1>. QED BY <1>1, PartsInvariant, PTL

\* A key of the board's query begins with the key the board invalidates on an event.
LEMMA BoardKeyMatches == StartsWith(Bookings, <<"bookings", Tenant>>)
<1>. DEFINE S == {"bookings", Tenant, Branch}
<1>1. /\ Bookings \in Seq(S) /\ Len(Bookings) = 3 /\ Bookings[1] = "bookings" /\ Bookings[2] = Tenant
      /\ <<"bookings", Tenant>> \in Seq(S) /\ Len(<<"bookings", Tenant>>) = 2
  BY DEF Bookings
<1>2. SubSeq(Bookings, 1, 2) = <<"bookings", Tenant>>
  <2>1. /\ SubSeq(Bookings, 1, 2) \in Seq(S) /\ Len(SubSeq(Bookings, 1, 2)) = 2
        /\ SubSeq(Bookings, 1, 2)[1] = "bookings" /\ SubSeq(Bookings, 1, 2)[2] = Tenant
    BY <1>1, SubSeqProperties
  <2>2. /\ Len(SubSeq(Bookings, 1, 2)) = Len(<<"bookings", Tenant>>)
        /\ \A i \in 1..Len(SubSeq(Bookings, 1, 2)) : SubSeq(Bookings, 1, 2)[i] = <<"bookings", Tenant>>[i]
    <3>1. \A i \in 1..2 : i = 1 \/ i = 2
      OBVIOUS
    <3>. QED BY <1>1, <2>1, <3>1
  <2>. HIDE DEF S
  <2>. QED BY <1>1, <2>1, <2>2, SeqEqual
<1>. QED BY <1>1, <1>2 DEF StartsWith

\* useBookingsRealtime: an event the board receives leaves none of the queries it is about
\* stale.
THEOREM EventsAreHeard == MCSpec => BoardHearsEvents
<1>1. ASSUME [MCNext]_allVars PROVE [part = "kanban" => EventRefreshes]_vars
  <2>. SUFFICES ASSUME part = "kanban", Next, NEW t \in EventTypes,
                       t \in inbox, t \notin inbox', source' = "OPEN"
                PROVE  Affected(t) \cap Queries \cap stale' = {}
    BY <1>1 DEF MCNext, allVars, OnChannel, EventRefreshes
  <2>1. Screen = "kanban" /\ t = "booking_status_changed" /\ Queries = {Bookings}
    BY PartsAssumption DEF EventTypes, Queries, KanbanQueries
  <2>2. OnMessage(t)
    BY DEF Next, Mount, Connect, Unmount, OnOpen, OnError, RetryFires, TimerFires, OrphanFires, GiveUp,
           Poll, OnMessage, ServerChange, hookVars, Live
  <2>3. Bookings \in Invalidated(t)
    BY <2>1, BoardKeyMatches DEF Invalidated, KeysOf
  <2>. QED BY <2>1, <2>2, <2>3 DEF OnMessage
<1>. QED BY <1>1, PTL DEF MCSpec, BoardHearsEvents
=============================================================================
