-------------------------- MODULE RealtimeChannel --------------------------
(***************************************************************************)
(* One mounted use of the hook useRealtimeChannel of nereo-frontend (hooks/ *)
(* use-realtime-channel.ts) on behalf of a screen: the dashboard, through   *)
(* useAnalyticsRealtime, or the operator's board, through                   *)
(* useBookingsRealtime.                                                     *)
(*                                                                         *)
(* The hook keeps an event source, a timer per connection attempt of which  *)
(* it remembers the last one only, and a retry timer per error of which it  *)
(* remembers none.  Timers fire in any order: their lengths overlap (5 s    *)
(* for an attempt, 1 s to 30 s for a retry).  A query that is invalidated   *)
(* or polled is taken to be refetched at once; SubscriberCache and          *)
(* KanbanBoard model the fetch.                                             *)
(***************************************************************************)
EXTENDS Naturals, Sequences

CONSTANTS
    Screen,     \* the screen that uses the hook: "dashboard" or "kanban"
    Tenant,     \* the tenant id of the signed-in user
    Branch,     \* the selected branch id
    MaxTimers   \* attempts that fit into one connection timeout

ChannelAssumption ==
    /\ Screen \in {"dashboard", "kanban"}
    /\ Tenant # Branch
    /\ MaxTimers \in Nat

VARIABLES
    enabled,            \* whether a user, and so a tenant, is known
    phase,              \* of the component: "out", "mounted", "gone"
    status,             \* what the connection indicator shows
    useFallbackPolling,
    source,             \* readyState of the event source in eventSourceRef
    stray,              \* sources replaced in eventSourceRef while still live
    timer,              \* whether the timer in timeoutRef is pending
    orphans,            \* pending connection timers timeoutRef forgot
    retries,            \* pending retry timers
    inbox,              \* events on the wire to the open source
    stale               \* the screen's queries that lag behind the server

vars == <<enabled, phase, status, useFallbackPolling, source, stray, timer, orphans,
          retries, inbox, stale>>
hookVars == <<status, useFallbackPolling, source, stray, timer, orphans, retries>>

-----------------------------------------------------------------------------
(***************************************************************************)
(* Query keys: what a screen shows, what an event is about, what it         *)
(* invalidates.                                                             *)
(***************************************************************************)
ConnectionStatus == {"connecting", "connected", "reconnecting", "disconnected"}
Live == {"CONNECTING", "OPEN"}

Kpis == <<"analytics", "kpis", Branch>>
Revenue == <<"analytics", "revenue", Branch, "month">>
Churn == <<"analytics", "churn", Branch>>
Bookings == <<"bookings", Tenant, Branch>>

DashboardQueries == {Kpis, Revenue, Churn}
KanbanQueries == {Bookings}
Queries == IF Screen = "dashboard" THEN DashboardQueries ELSE KanbanQueries

\* The dashboard hands pollingInterval to its queries; the board does not use it.
Polled == IF Screen = "dashboard" THEN DashboardQueries ELSE {}

EventTypes ==
    IF Screen = "dashboard"
    THEN {"kpi_updated", "payment_processed", "subscription_changed", "booking_completed"}
    ELSE {"booking_status_changed"}

\* The queries whose answer changes with what an event announces.
Affected(t) ==
    CASE t = "payment_processed"    -> {Kpis, Revenue}
      [] t = "subscription_changed" -> {Kpis, Churn}
      [] t = "booking_status_changed" -> {Bookings}
      [] OTHER                      -> {Kpis}

\* The keys invalidated by onEvent of the analytics hook; the merge of a
\* kpi_updated writes to one key and replaces no absent entry.
AnalyticsKeys(t) ==
    CASE t = "kpi_updated"          -> {<<"analytics", "kpis", Tenant>>}
      [] t = "payment_processed"    -> {<<"analytics", "kpis", Tenant>>,
                                        <<"analytics", "revenue", Tenant>>}
      [] t = "subscription_changed" -> {<<"analytics", "kpis", Tenant>>,
                                        <<"subscribers", Tenant>>}
      [] t = "booking_completed"    -> {<<"analytics", "kpis", Tenant>>}

KeysOfBranch(t) == {<<"bookings", Branch>>}

\* Those of the hook that forwards the event, and of its own invalidateKeys.
KeysOf(t) ==
    IF Screen = "dashboard"
    THEN AnalyticsKeys(t) \cup {<<"analytics", Tenant>>}
    ELSE {<<"bookings", Tenant>>}

\* TanStack Query invalidates every query whose key starts with the given one.
StartsWith(key, prefix) ==
    Len(prefix) <= Len(key) /\ SubSeq(key, 1, Len(prefix)) = prefix

Invalidated(t) == {q \in Queries : \E k \in KeysOf(t) : StartsWith(q, k)}

-----------------------------------------------------------------------------
Init ==
    /\ enabled \in BOOLEAN
    /\ phase = "out"
    /\ status = "disconnected"
    /\ useFallbackPolling = FALSE
    /\ source = "none"
    /\ stray = 0
    /\ timer = FALSE
    /\ orphans = 0
    /\ retries = 0
    /\ inbox = {}
    /\ stale = {}

\* connect: a new timer and a new source take the places of the old ones, which
\* nobody clears or closes.
Connect ==
    /\ status' = "connecting"
    /\ orphans' = IF timer THEN orphans + 1 ELSE orphans
    /\ timer' = TRUE
    /\ stray' = IF source \in Live THEN stray + 1 ELSE stray
    /\ source' = "CONNECTING"
    /\ inbox' = {}
    /\ UNCHANGED useFallbackPolling

\* The effect runs connect, which returns at once when the hook is not enabled.
Mount ==
    /\ phase = "out"
    /\ phase' = "mounted"
    /\ IF enabled THEN Connect ELSE UNCHANGED <<hookVars, inbox>>
    /\ UNCHANGED <<enabled, retries, stale>>

\* The cleanup closes the source and clears the timer it remembers.
Unmount ==
    /\ phase = "mounted"
    /\ phase' = "gone"
    /\ source' = IF source \in Live THEN "CLOSED" ELSE source
    /\ timer' = FALSE
    /\ inbox' = {}
    /\ UNCHANGED <<enabled, status, useFallbackPolling, stray, orphans, retries, stale>>

OnOpen ==
    /\ source = "CONNECTING"
    /\ source' = "OPEN"
    /\ status' = "connected"
    /\ useFallbackPolling' = FALSE
    /\ timer' = FALSE
    /\ UNCHANGED <<enabled, phase, stray, orphans, retries, inbox, stale>>

\* Without es.close().
OnErrorKeepOpen ==
    /\ source \in Live
    /\ status' = "reconnecting"
    /\ retries' = retries + 1
    /\ inbox' = {}
    /\ UNCHANGED <<enabled, phase, useFallbackPolling, source, stray, timer, orphans, stale>>

\* The source is closed by hand, so the browser neither reconnects nor reports
\* another error; what was on the wire is lost.
OnError ==
    /\ source \in Live
    /\ source' = "CLOSED"
    /\ status' = "reconnecting"
    /\ retries' = retries + 1
    /\ inbox' = {}
    /\ UNCHANGED <<enabled, phase, useFallbackPolling, stray, timer, orphans, stale>>

\* The retry timer calls connect whether or not the component is still mounted.
\* At most MaxTimers attempts start before the oldest attempt's timer is due.
RetryFires ==
    /\ retries > 0
    /\ orphans < MaxTimers
    /\ retries' = retries - 1
    /\ Connect
    /\ UNCHANGED <<enabled, phase, stale>>

\* Without setUseFallbackPolling(true).
GiveUpSilently ==
    /\ source' = IF source = "CONNECTING" THEN "CLOSED" ELSE source
    /\ status' = IF source # "OPEN" THEN "disconnected" ELSE status
    /\ UNCHANGED <<useFallbackPolling, inbox>>

\* What a connection timer does when it fires: it looks at the source of now, not
\* at the one it was set for, and schedules no further attempt.
GiveUp ==
    IF source # "OPEN"
    THEN /\ source' = IF source = "CONNECTING" THEN "CLOSED" ELSE source
         /\ useFallbackPolling' = TRUE
         /\ status' = "disconnected"
         /\ UNCHANGED inbox
    ELSE UNCHANGED <<source, useFallbackPolling, status, inbox>>

TimerFires ==
    /\ timer
    /\ timer' = FALSE
    /\ GiveUp
    /\ UNCHANGED <<enabled, phase, stray, orphans, retries, stale>>

OrphanFires ==
    /\ orphans > 0
    /\ orphans' = orphans - 1
    /\ GiveUp
    /\ UNCHANGED <<enabled, phase, stray, timer, retries, stale>>

\* onmessage: the keys of the channel and of the screen's handler are invalidated.
OnMessage(t) ==
    /\ source = "OPEN"
    /\ t \in inbox
    /\ inbox' = inbox \ {t}
    /\ stale' = stale \ Invalidated(t)
    /\ UNCHANGED <<enabled, phase, hookVars>>

\* refetchInterval of the screen's queries.
Poll ==
    /\ phase = "mounted"
    /\ useFallbackPolling
    /\ stale' = stale \ Polled
    /\ UNCHANGED <<enabled, phase, hookVars, inbox>>

\* The server announces a change to whoever is connected, and keeps no backlog.
ServerChange(t) ==
    /\ phase = "mounted"
    /\ stale' = stale \cup (Affected(t) \cap Queries)
    /\ inbox' = IF source = "OPEN" THEN inbox \cup {t} ELSE inbox
    /\ UNCHANGED <<enabled, phase, hookVars>>

Next ==
    \/ Mount \/ Unmount
    \/ OnOpen \/ OnError
    \/ RetryFires \/ TimerFires \/ OrphanFires \/ Poll
    \/ \E t \in EventTypes : OnMessage(t) \/ ServerChange(t)

Spec == Init /\ [][Next]_vars

\* Timers fire, messages on an open source arrive and the query client polls.
\* The server owes nothing: it may refuse, hang or drop a connection for ever.
Fairness ==
    /\ WF_vars(RetryFires)
    /\ WF_vars(TimerFires)
    /\ WF_vars(OrphanFires)
    /\ WF_vars(Poll)
    /\ \A t \in EventTypes : WF_vars(OnMessage(t))

FairSpec == Spec /\ Fairness

-----------------------------------------------------------------------------
TypeOK ==
    /\ enabled \in BOOLEAN
    /\ phase \in {"out", "mounted", "gone"}
    /\ status \in ConnectionStatus
    /\ useFallbackPolling \in BOOLEAN
    /\ source \in {"none", "CLOSED"} \cup Live
    /\ stray \in Nat
    /\ timer \in BOOLEAN
    /\ orphans \in Nat
    /\ retries \in Nat
    /\ inbox \subseteq EventTypes
    /\ stale \subseteq Queries

\* However errors, retries, timeouts and the unmount interleave, the hook never
\* loses a live source: one it no longer refers to could never be closed.
OneSource ==
    /\ stray = 0
    /\ retries + (IF source \in Live THEN 1 ELSE 0) <= 1

\* "En vivo" is shown only while the source is open, and a query is not polled then.
LiveBadgeIsTrue ==
    phase = "mounted" /\ status = "connected" => source = "OPEN" /\ ~useFallbackPolling

\* Once an unmounted component has no retry pending and no source, it stays silent.
StaysSilent == phase = "gone" /\ retries = 0 /\ source \notin Live => source' \notin Live
SilentAfterGone == [][StaysSilent]_vars

\* The inductive invariant, proved in Progress_proofs.
IInv ==
    /\ TypeOK
    /\ OneSource
    /\ phase = "out" => source = "none" /\ retries = 0 /\ ~timer /\ orphans = 0
    /\ source = "none" => retries = 0 /\ ~timer /\ orphans = 0 /\ status = "disconnected"
    /\ status = "connected" /\ source # "OPEN" => phase = "gone"
    /\ source = "OPEN" => ~useFallbackPolling

-----------------------------------------------------------------------------
\* A mounted screen with a user ends up connected, or its queries are polled, even if every
\* attempt hangs or fails: each attempt has a timer that only an open connection cancels.
\* A screen that hands the interval to no query, as the board, only has the flag set.
ConnectedOrPolling ==
    phase = "mounted" /\ enabled
        ~> status = "connected" \/ (useFallbackPolling /\ Polled # {}) \/ phase = "gone"

\* No screen shows for ever that it is connecting: it is connected in the end or says that it
\* is not.
StatusSettles ==
    status \in {"connecting", "reconnecting"}
        ~> status \in {"connected", "disconnected"} \/ phase = "gone"

\* While it polls, a screen that uses the polling interval catches up.
FallbackRefreshes ==
    useFallbackPolling /\ stale # {} ~> stale = {} \/ ~useFallbackPolling \/ phase = "gone"

\* An event that is delivered refreshes what it is about.
EventRefreshes ==
    \A t \in EventTypes : t \in inbox /\ t \notin inbox' /\ source' = "OPEN"
                          => Affected(t) \cap Queries \cap stale' = {}
=============================================================================
