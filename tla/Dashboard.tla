------------------------------ MODULE Dashboard ------------------------------
(***************************************************************************)
(* The owner's dashboard (app/(admin)/page.tsx): a query for each widget,   *)
(* and for the revenue one per period, which the chart keeps a second time   *)
(* for its tabs (revenue-chart.tsx).  When the channel of events is down     *)
(* the page has queries polled.                                             *)
(*                                                                         *)
(* Of the query client: a query that is shown is fetched when it has no      *)
(* data, or may be when it has; a fetch that fails leaves the data alone;    *)
(* data that nothing shows is dropped in time.  Endpoints are external.      *)
(***************************************************************************)
EXTENDS Naturals

CONSTANTS
    Period,     \* with "month", the first
    Widget,     \* the other queries
    Polled,     \* of those, the ones that get refetchInterval
    Polling,    \* the channel has fallen back to polling
    None,
    MaxChanges  \* bound: changes at the server

DashboardAssumption ==
    /\ "month" \in Period /\ Period \cap Widget = {}
    /\ Polled \subseteq Widget
    /\ Polling \in BOOLEAN /\ MaxChanges \in Nat

VARIABLES
    server,         \* how often what the endpoints report has changed
    open,           \* the page is shown
    revenuePeriod,  \* of the page
    period,         \* of the chart's tabs
    data, fetch     \* of each query
page == <<open, revenuePeriod, period>>
vars == <<server, page, data, fetch>>

Query == Period \cup Widget
Idle == [pc |-> "idle"]
Report == [of : Query, version : 0..MaxChanges]
Fetch == {Idle} \cup [pc : {"sent"}, of : Query] \cup [pc : {"answered"}, report : Report]

\* A mutant: the period is no part of the query's key.
RevenueKeyOne(p) == "month"

\* ["analytics", "revenue", branch, period]
RevenueKey(p) == p

\* The queries on the screen.
Shown(q) == open /\ q \in Widget \cup {RevenueKey(revenuePeriod)}

\* A mutant: refetchInterval is left out.
IntervalNever(q) == FALSE

\* refetchInterval: pollingInterval || undefined.
Interval(q) == Polling /\ q \in Polled \cup Period

Asked(q, p) == [pc |-> "sent", of |-> IF q \in Widget THEN q ELSE p]

\* Mounting a query that has no data fetches it; data that is there may be fresh.
Mounted(q, refetched) == fetch[q] = Idle /\ (data[q] = None \/ q \in refetched)

Init ==
    /\ server = 0 /\ open = FALSE
    /\ revenuePeriod = "month" /\ period = "month"
    /\ data = [q \in Query |-> None]
    /\ fetch = [q \in Query |-> Idle]

-----------------------------------------------------------------------------
\* The page is opened: its queries, and the ones it prefetches, which are among them.
Open ==
    /\ ~open /\ open' = TRUE
    /\ revenuePeriod' = "month" /\ period' = "month"
    /\ \E refetched \in SUBSET Query :
          fetch' = [q \in Query |->
             IF q \in Widget \cup {RevenueKey("month")} /\ Mounted(q, refetched)
             THEN Asked(q, "month") ELSE fetch[q]]
    /\ UNCHANGED <<server, data>>

Leave ==
    /\ open /\ open' = FALSE
    /\ UNCHANGED <<server, revenuePeriod, period, data, fetch>>

\* handlePeriodChange: the tab, and through onPeriodChange the page's query.
SelectPeriod(p) ==
    /\ open /\ p # period
    /\ period' = p /\ revenuePeriod' = p
    /\ \E refetched \in SUBSET {RevenueKey(p)} :
          fetch' = IF Mounted(RevenueKey(p), refetched)
                   THEN [fetch EXCEPT ![RevenueKey(p)] = Asked(RevenueKey(p), p)] ELSE fetch
    /\ UNCHANGED <<server, open, data>>

\* The interval passes; a fetch under way is left to it.
Poll(q) ==
    /\ Shown(q) /\ Interval(q) /\ fetch[q] = Idle
    /\ fetch' = [fetch EXCEPT ![q] = Asked(q, revenuePeriod)]
    /\ UNCHANGED <<server, page, data>>

-----------------------------------------------------------------------------
Serve(q) ==
    /\ fetch[q].pc = "sent"
    /\ fetch' = [fetch EXCEPT ![q] =
          [pc |-> "answered", report |-> [of |-> fetch[q].of, version |-> server]]]
    /\ UNCHANGED <<server, page, data>>

Done(q) ==
    /\ fetch[q].pc = "answered"
    /\ data' = [data EXCEPT ![q] = fetch[q].report]
    /\ fetch' = [fetch EXCEPT ![q] = Idle]
    /\ UNCHANGED <<server, page>>

\* After two retries.
Fails(q) ==
    /\ fetch[q].pc = "sent"
    /\ fetch' = [fetch EXCEPT ![q] = Idle]
    /\ UNCHANGED <<server, page, data>>

Forget(q) ==
    /\ ~Shown(q) /\ fetch[q] = Idle /\ data[q] # None
    /\ data' = [data EXCEPT ![q] = None]
    /\ UNCHANGED <<server, page, fetch>>

Change ==
    /\ server < MaxChanges
    /\ server' = server + 1
    /\ UNCHANGED <<page, data, fetch>>

Next ==
    \/ Open \/ Leave \/ Change
    \/ \E p \in Period : SelectPeriod(p)
    \/ \E q \in Query : Poll(q) \/ Serve(q) \/ Done(q) \/ Fails(q) \/ Forget(q)

Spec == Init /\ [][Next]_vars

\* The timer runs while the page is shown; an endpoint asked again and again answers.
FairSpec ==
    /\ Spec
    /\ \A q \in Query : WF_vars(Poll(q)) /\ SF_vars(Serve(q)) /\ WF_vars(Done(q))

-----------------------------------------------------------------------------
TypeOK ==
    /\ server \in 0..MaxChanges /\ open \in BOOLEAN
    /\ revenuePeriod \in Period /\ period \in Period
    /\ data \in [Query -> {None} \cup Report]
    /\ fetch \in [Query -> Fetch]

\* The chart draws the period its tab names, though the tab is a state of its own and the
\* answers for other periods, asked for before and after, come in any order.
ChartIsOfPeriod ==
    LET shown == data[RevenueKey(revenuePeriod)] IN
    open /\ shown # None => shown.of = period

\* ChartIsOfPeriod, inductive: every query of a period asks for that period, whichever tab
\* is shown when its answer comes.
IInv ==
    /\ TypeOK
    /\ revenuePeriod = period
    /\ \A p \in Period :
          /\ data[p] # None => data[p].of = p
          /\ fetch[p].pc = "sent" => fetch[p].of = p
          /\ fetch[p].pc = "answered" => fetch[p].report.of = p

\* While events are not to be had, a dashboard that stays open on a period ends with the
\* last change in the widgets that poll and in the chart, whichever answers failed.
PollingCatchesUp ==
    \A p \in Period :
        <>[](open /\ period = p) =>
            <>[](\A q \in Polled \cup {p} : data[q] # None /\ data[q].version = server)
=============================================================================
