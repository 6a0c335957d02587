---------------------------- MODULE KanbanBoard ----------------------------
(***************************************************************************)
(* The operator's board of nereo-frontend (components/operario/kanban/):    *)
(* bookings in columns, moved by buttons or by dragging, shown from a query *)
(* cache that is written before the server answers, rolled back on an error *)
(* and refetched when a request settles or an event arrives.                *)
(*                                                                         *)
(* The query client keeps one fetch per query: cancelQueries drops it, and  *)
(* invalidateQueries replaces it by a new one.  onMutate awaits only that   *)
(* cancellation, which is over before the browser handles another event, so *)
(* it is one step.  The endpoints are not part of this repository; the      *)
(* server may refuse a request, and an answer may be lost.                  *)
(***************************************************************************)
EXTENDS Naturals

CONSTANTS
    Booking,        \* today's bookings
    Request,        \* status requests the operator makes, each at most once
    NoBooking,      \* no card is dragged
    MaxDrags,       \* drags the operator starts
    MaxForeign,     \* moves by other operators
    MaxFailures     \* fetches that fail

BoardAssumption ==
    /\ NoBooking \notin Booking
    /\ MaxDrags \in Nat /\ MaxForeign \in Nat /\ MaxFailures \in Nat

VARIABLES
    server,     \* the status of each booking on the server
    cache,      \* the query's data: what the columns show
    fetch,      \* the running fetch of the query, and its answer
    moves,      \* per request: the run of statusMutation
    drag,       \* the last drag: its card, what it is over, how it stands
    event,      \* whether a booking event is on the wire
    lag,        \* history: reasons why the cache may differ unnoticed
    used        \* drags, foreign moves and failures so far

vars == <<server, cache, fetch, moves, drag, event, lag, used>>

KANBAN_COLUMNS == {"waiting", "washing", "ready"}
Columns == [Booking -> KANBAN_COLUMNS]

\* A drag may be over a column, a card, or nothing.
Over == KANBAN_COLUMNS \cup {"card", "nothing"}

Fetch == [pc : {"none", "sent"}] \cup [pc : {"answered"}, data : Columns]
Move == [pc : {"idle", "done"}]
        \cup [pc : {"sent", "applied", "refused"}, booking : Booking,
              to : KANBAN_COLUMNS, previous : Columns]

InFlight == {r \in Request : moves[r].pc \notin {"idle", "done"}}

\* The board is mounted with fresh data, or with old data that is being refetched.
Init ==
    /\ server \in Columns
    /\ \/ cache = server /\ fetch = [pc |-> "none"]
       \/ cache \in Columns /\ fetch = [pc |-> "sent"]
    /\ moves = [r \in Request |-> [pc |-> "idle"]]
    /\ drag = [booking |-> NoBooking, over |-> "nothing", pc |-> "none"]
    /\ event = FALSE
    /\ lag = {}
    /\ used = [drags |-> 0, foreign |-> 0, failures |-> 0]

-----------------------------------------------------------------------------
(***************************************************************************)
(* statusMutation.                                                          *)
(***************************************************************************)
\* With cancelRefetch off.
InvalidateIdle ==
    /\ fetch' = IF fetch.pc = "none" THEN [pc |-> "sent"] ELSE fetch
    /\ lag' = lag \ {"missed"}

\* invalidateQueries: a running fetch is replaced.
Invalidate ==
    /\ fetch' = [pc |-> "sent"]
    /\ lag' = lag \ {"missed"}

\* mutate and onMutate: the fetch is dropped, the cache written.
Mutate(r, b, to) ==
    /\ moves[r].pc = "idle"
    /\ moves' = [moves EXCEPT ![r] = [pc |-> "sent", booking |-> b, to |-> to,
                                      previous |-> cache]]
    /\ cache' = [cache EXCEPT ![b] = to]
    /\ fetch' = [pc |-> "none"]

\* handleAction.
NewStatus(action) == IF action = "start" THEN "washing" ELSE "ready"

\* The card's button: "Empezar" on a waiting card, "Listo" on a washing one.
Press(r, b) ==
    /\ \/ cache[b] = "waiting" /\ Mutate(r, b, NewStatus("start"))
       \/ cache[b] = "washing" /\ Mutate(r, b, NewStatus("complete"))
    /\ UNCHANGED <<server, drag, event, lag, used>>

\* The server carries a request out, and tells whoever is connected.
Apply(r) ==
    /\ moves[r].pc = "sent"
    /\ server' = [server EXCEPT ![moves[r].booking] = moves[r].to]
    /\ moves' = [moves EXCEPT ![r].pc = "applied"]
    /\ event' \in {event, TRUE}
    /\ UNCHANGED <<cache, fetch, drag, lag, used>>

Refuse(r) ==
    /\ moves[r].pc = "sent"
    /\ moves' = [moves EXCEPT ![r].pc = "refused"]
    /\ UNCHANGED <<server, cache, fetch, drag, event, lag, used>>

\* The answer arrives: onSettled.
Succeed(r) ==
    /\ moves[r].pc = "applied"
    /\ moves' = [moves EXCEPT ![r] = [pc |-> "done"]]
    /\ Invalidate
    /\ UNCHANGED <<server, cache, drag, event, used>>

\* onSettled left out.
FailOnly(r) ==
    /\ moves[r].pc \in {"applied", "refused"}
    /\ moves' = [moves EXCEPT ![r] = [pc |-> "done"]]
    /\ cache' = moves[r].previous
    /\ UNCHANGED <<server, fetch, drag, event, lag, used>>

\* An error, or the answer is lost: onError restores the snapshot, then onSettled.
Fail(r) ==
    /\ moves[r].pc \in {"applied", "refused"}
    /\ moves' = [moves EXCEPT ![r] = [pc |-> "done"]]
    /\ cache' = moves[r].previous
    /\ Invalidate
    /\ UNCHANGED <<server, drag, event, used>>

-----------------------------------------------------------------------------
(***************************************************************************)
(* Dragging.                                                                *)
(***************************************************************************)
DragStart(b) ==
    /\ drag.pc # "dragging"
    /\ used.drags < MaxDrags
    /\ used' = [used EXCEPT !.drags = @ + 1]
    /\ drag' = [booking |-> b, over |-> cache[b], pc |-> "dragging"]
    /\ UNCHANGED <<server, cache, fetch, moves, event, lag>>

\* handleDragOver: over a column, the cache is written at once.
DragOver(o) ==
    /\ drag.pc = "dragging" /\ drag.over # o
    /\ drag' = [drag EXCEPT !.over = o]
    /\ IF o \in KANBAN_COLUMNS /\ cache[drag.booking] # o
       THEN /\ cache' = [cache EXCEPT ![drag.booking] = o]
            /\ lag' = lag \cup {"dragged"}
       ELSE UNCHANGED <<cache, lag>>
    /\ UNCHANGED <<server, fetch, moves, event, used>>

\* handleDragEnd: a request is made only when the cache does not show the card in
\* that column already.
DragEnd(r) ==
    /\ drag.pc = "dragging"
    /\ drag' = [drag EXCEPT !.pc = "dropped"]
    /\ IF drag.over \in KANBAN_COLUMNS /\ cache[drag.booking] # drag.over
       THEN Mutate(r, drag.booking, drag.over)
       ELSE UNCHANGED <<cache, fetch, moves>>
    /\ UNCHANGED <<server, event, lag, used>>

\* No handler is registered for a cancelled drag.
DragCancel ==
    /\ drag.pc = "dragging"
    /\ drag' = [drag EXCEPT !.pc = "cancelled"]
    /\ UNCHANGED <<server, cache, fetch, moves, event, lag, used>>

-----------------------------------------------------------------------------
(***************************************************************************)
(* The query and the channel.                                               *)
(***************************************************************************)
ServeFetch ==
    /\ fetch.pc = "sent"
    /\ fetch' = [pc |-> "answered", data |-> server]
    /\ UNCHANGED <<server, cache, moves, drag, event, lag, used>>

FetchDone ==
    /\ fetch.pc = "answered"
    /\ cache' = fetch.data
    /\ fetch' = [pc |-> "none"]
    /\ lag' = lag \ {"dragged"}
    /\ UNCHANGED <<server, moves, drag, event, used>>

\* After its two retries a fetch gives up and the old data stays.
FetchFails ==
    /\ fetch.pc = "sent"
    /\ used.failures < MaxFailures
    /\ used' = [used EXCEPT !.failures = @ + 1]
    /\ fetch' = [pc |-> "none"]
    /\ lag' = lag \cup {"missed"}
    /\ UNCHANGED <<server, cache, moves, drag, event>>

\* Another operator moves a booking; this board hears of it if it is connected.
ForeignMove(b, to) ==
    /\ to # server[b]
    /\ used.foreign < MaxForeign
    /\ used' = [used EXCEPT !.foreign = @ + 1]
    /\ server' = [server EXCEPT ![b] = to]
    /\ \/ event' = TRUE /\ UNCHANGED lag
       \/ lag' = lag \cup {"missed"} /\ UNCHANGED event
    /\ UNCHANGED <<cache, fetch, moves, drag>>

OnEvent ==
    /\ event
    /\ event' = FALSE
    /\ Invalidate
    /\ UNCHANGED <<server, cache, moves, drag, used>>

-----------------------------------------------------------------------------
Next ==
    \/ \E r \in Request, b \in Booking : Press(r, b)
    \/ \E r \in Request : Apply(r) \/ Refuse(r) \/ Succeed(r) \/ Fail(r) \/ DragEnd(r)
    \/ \E b \in Booking : DragStart(b)
    \/ \E o \in Over : DragOver(o)
    \/ DragCancel
    \/ ServeFetch \/ FetchDone \/ FetchFails \/ OnEvent
    \/ \E b \in Booking, to \in KANBAN_COLUMNS : ForeignMove(b, to)

Spec == Init /\ [][Next]_vars

\* Every request and fetch is answered or times out, and events arrive.
Fairness ==
    /\ \A r \in Request : WF_vars(Apply(r) \/ Refuse(r)) /\ WF_vars(Succeed(r) \/ Fail(r))
    /\ WF_vars(ServeFetch) /\ WF_vars(FetchDone) /\ WF_vars(OnEvent)

FairSpec == Spec /\ Fairness

-----------------------------------------------------------------------------
TypeOK ==
    /\ server \in Columns
    /\ cache \in Columns
    /\ fetch \in Fetch
    /\ moves \in [Request -> Move]
    /\ drag \in [booking : Booking \cup {NoBooking}, over : Over,
                 pc : {"none", "dragging", "dropped", "cancelled"}]
    /\ drag.pc = "dragging" => drag.booking \in Booking
    /\ event \in BOOLEAN
    /\ lag \subseteq {"dragged", "missed"}
    /\ used \in [drags : Nat, foreign : Nat, failures : Nat]

\* Whatever requests, rollbacks, cancelled fetches and events overlapped: when
\* nothing is under way the columns show what the server has, save for a drag that
\* was never sent and for a change of another operator that was never announced.
SettledAgrees ==
    InFlight = {} /\ fetch.pc = "none" /\ ~event /\ lag = {} => cache = server

\* The strengthening of SettledAgrees: so does an answer that is about to be shown.
AnswerFresh ==
    InFlight = {} /\ fetch.pc = "answered" /\ ~event /\ "missed" \notin lag
        => fetch.data = server

IInv == TypeOK /\ SettledAgrees /\ AnswerFresh

\* The board catches up: a difference that is nobody's forgotten drag and no missed
\* event disappears.
Converges == cache # server /\ lag = {} ~> cache = server \/ lag # {}

(***************************************************************************)
(* A claim of the repository that does not hold.                            *)
(***************************************************************************)
\* roadmap-frontend.md: dragging a card to another column changes its status, with a
\* rollback should the API fail.  Once a drop on a column has settled, the board shows
\* the status the server has.
DropReachesServer ==
    drag.pc = "dropped" /\ drag.over \in KANBAN_COLUMNS
        /\ InFlight = {} /\ fetch.pc = "none" /\ ~event /\ "missed" \notin lag
        => cache[drag.booking] = server[drag.booking]
=============================================================================
