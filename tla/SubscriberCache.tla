-------------------------- MODULE SubscriberCache --------------------------
(***************************************************************************)
(* The admin's subscribers in the query cache: one query for the list, one  *)
(* per subscriber for the detail page, and four mutations                   *)
(* (hooks/use-subscriber-mutations.ts) that write both before the server    *)
(* answers.  The three that change a status are confirmed in a dialog of    *)
(* the detail page (suscriptores/[id]/page.tsx); the fourth adds a row.     *)
(*                                                                         *)
(* Of the query client: cancelQueries drops the running fetch of a query,   *)
(* invalidateQueries marks its data and refetches it only when it is on     *)
(* the screen, and whatever fetch ends takes the mark away, as every write  *)
(* does.  A query on the screen refetches when mounted, if it has no data,  *)
(* is marked or is a minute old.  The endpoints are not in this repository. *)
(***************************************************************************)
EXTENDS Naturals

CONSTANTS
    Subscriber,
    Call,           \* calls of mutate, each at most once
    None,           \* no data
    Stays           \* the owner does not leave a page while a call is under way

MembershipStatus == {"active", "expired", "pending", "paused"}

CacheAssumption ==
    /\ Subscriber \cap Call = {} /\ None \notin Subscriber \cup MembershipStatus
    /\ Stays \in BOOLEAN

VARIABLES
    server,     \* the status of each row on the server
    list,       \* the list's data
    marked,     \* it is invalidated
    listFetch,
    detail,     \* per subscriber: the status the detail page shows
    detailFetch,
    clouded,    \* history: subscribers of whom a call was made beside another one or beside
                \* the page's load, a load begun beside a call, or a call's answer lost,
                \* and whom no load without a call has been of since
    page,       \* "list", "elsewhere", or the subscriber of a detail page
    confirmAction,
    call

vars == <<server, list, marked, listFetch, detail, detailFetch, clouded, page, confirmAction, call>>
listVars == <<list, marked, listFetch>>
detailVars == <<detail, detailFetch, clouded>>

\* A call that creates a subscriber gives its row its name.
Row == Subscriber \cup Call
ServerRows == [Row -> MembershipStatus \cup {"absent"}]
ListRows == [Row -> MembershipStatus \cup {"absent", "temp"}]

Idle == [pc |-> "idle"]
Sent == [pc |-> "sent"]

\* renew, pause and cancel by what they make of a membership.
Result == [renew |-> "active", pause |-> "paused", cancel |-> "expired"]
Action == DOMAIN Result

Pending == {c \in Call : call[c].pc \in {"sent", "applied"}}
CallsOf(s) == {c \in Pending : call[c].row = s}

\* isPending of the mutation the dialog shows: calls of another mount do not count.
Loading(a) == \E c \in Pending : call[c].action = a /\ call[c].mounted

MayLeave == Stays => Pending = {}

Init ==
    /\ server \in {f \in ServerRows : \A r \in Row : f[r] = "absent" <=> r \in Call}
    /\ list \in {None, server}
    /\ marked = FALSE
    /\ listFetch = IF list = None THEN Sent ELSE Idle
    /\ detail = [s \in Subscriber |-> None]
    /\ detailFetch = [s \in Subscriber |-> Idle]
    /\ clouded = {}
    /\ page = "list"
    /\ confirmAction = [type |-> "renew", open |-> FALSE]
    /\ call = [c \in Call |-> Idle]

-----------------------------------------------------------------------------
(***************************************************************************)
(* Pages.                                                                   *)
(***************************************************************************)
\* A fetch, unless there is one; it may be left out for data that is neither missing
\* nor marked.
Mount(f, needed) ==
    IF f # Idle THEN {f} ELSE IF needed THEN {Sent} ELSE {Sent, Idle}

\* The callbacks given to mutate itself die with the page.
Unmount == call' = [c \in Call |-> IF call[c].pc \in {"sent", "applied"}
                                   THEN [call[c] EXCEPT !.mounted = FALSE] ELSE call[c]]

OpenDetail(s) ==
    /\ MayLeave /\ page = "list" /\ list # None
    /\ list[s] \in MembershipStatus
    /\ page' = s
    /\ \E f \in Mount(detailFetch[s], detail[s] = None) : detailFetch' = [detailFetch EXCEPT ![s] = f]
    /\ clouded' = clouded \cup {t \in {s} : CallsOf(t) # {}}
    /\ confirmAction' = [type |-> "renew", open |-> FALSE]
    /\ Unmount
    /\ UNCHANGED <<server, listVars, detail>>

\* router.back(), or a link.
OpenList ==
    /\ MayLeave /\ page # "list" /\ ~confirmAction.open
    /\ page' = "list"
    /\ listFetch' \in Mount(listFetch, list = None \/ marked)
    /\ Unmount
    /\ UNCHANGED <<server, list, marked, detailVars, confirmAction>>

\* The dashboard fetches the list ahead of its use.
OpenDashboard ==
    /\ MayLeave /\ page # "elsewhere" /\ ~confirmAction.open
    /\ page' = "elsewhere"
    /\ listFetch' \in Mount(listFetch, list = None \/ marked)
    /\ Unmount
    /\ UNCHANGED <<server, list, marked, detailVars, confirmAction>>

\* handlePrefetch: the pointer is over the sidebar's link.
Prefetch ==
    /\ MayLeave /\ ~confirmAction.open
    /\ listFetch' \in Mount(listFetch, list = None \/ marked)
    /\ UNCHANGED <<server, list, marked, detailVars, page, confirmAction, call>>

\* The button of an action; the dialog is modal.
AskFor(a) ==
    /\ page \in Subscriber /\ detail[page] # None
    /\ ~confirmAction.open
    /\ confirmAction' = [type |-> a, open |-> TRUE]
    /\ UNCHANGED <<server, listVars, detailVars, page, call>>

\* Its button is disabled while the call is under way; Esc and a click outside are not.
Dismiss ==
    /\ confirmAction.open
    /\ confirmAction' = [confirmAction EXCEPT !.open = FALSE]
    /\ UNCHANGED <<server, listVars, detailVars, page, call>>

-----------------------------------------------------------------------------
(***************************************************************************)
(* Mutations.                                                               *)
(***************************************************************************)

\* onMutate of a status: the list's fetch is dropped, the detail's goes on.
OptimisticStatusUpdate(s, status) ==
    /\ listFetch' = Idle
    /\ IF list = None THEN UNCHANGED <<list, marked>>
       ELSE /\ list' = [list EXCEPT ![s] = IF @ = "absent" THEN @ ELSE status]
            /\ marked' = FALSE
    /\ detail' = [detail EXCEPT ![s] = IF @ = None THEN @ ELSE status]
    /\ clouded' = clouded \cup {t \in {s} : CallsOf(t) # {} \/ detailFetch[t] # Idle}
    /\ UNCHANGED detailFetch

\* handleAction, from the dialog's button.
Confirm(c) ==
    LET a == confirmAction.type IN
    /\ confirmAction.open /\ ~Loading(a)
    /\ call[c] = Idle
    /\ call' = [call EXCEPT ![c] = [pc |-> "sent", action |-> a, row |-> page, mounted |-> TRUE,
                                    previous |-> list, prevDetail |-> detail[page]]]
    /\ OptimisticStatusUpdate(page, Result[a])
    /\ UNCHANGED <<server, page, confirmAction>>

\* createMutation: the modal's last step.  Without a list, the row is all there is.
Create(c) ==
    /\ page = "list" /\ call[c] = Idle
    /\ call' = [call EXCEPT ![c] = [pc |-> "sent", action |-> "create", row |-> c, mounted |-> TRUE,
                                    previous |-> list, prevDetail |-> None]]
    /\ listFetch' = Idle
    /\ marked' = FALSE
    /\ list' = IF list = None THEN [r \in Row |-> IF r = c THEN "temp" ELSE "absent"]
               ELSE [list EXCEPT ![c] = "temp"]
    /\ UNCHANGED <<server, detailVars, page, confirmAction>>

Apply(c) ==
    /\ call[c].pc = "sent"
    /\ server' = [server EXCEPT ![call[c].row] =
                      IF call[c].action = "create" THEN "active" ELSE Result[call[c].action]]
    /\ call' = [call EXCEPT ![c].pc = "applied"]
    /\ UNCHANGED <<listVars, detailVars, page, confirmAction>>

\* Without a mark for a list that is not on the screen.
InvalidateShown ==
    /\ marked' = marked
    /\ listFetch' = IF page = "list" THEN Sent ELSE listFetch

\* onSettled: a list on the screen is refetched at once, and afresh.
Invalidate ==
    /\ marked' = TRUE
    /\ listFetch' = IF page = "list" THEN Sent ELSE listFetch

\* The dialog is closed, whatever it asks by now.
Succeed(c) ==
    /\ call[c].pc = "applied"
    /\ call' = [call EXCEPT ![c] = [pc |-> "done"]]
    /\ Invalidate
    /\ confirmAction' = IF call[c].action \in Action /\ call[c].mounted
                        THEN [type |-> call[c].action, open |-> FALSE] ELSE confirmAction
    /\ UNCHANGED <<server, list, detailVars, page>>

\* The list restored, the detail page left as it is.
RestoreList(c) ==
    /\ list' = IF call[c].previous = None THEN list ELSE call[c].previous
    /\ UNCHANGED detail

\* Both as they were when the call was made.
Restore(c) ==
    /\ list' = IF call[c].previous = None THEN list ELSE call[c].previous
    /\ detail' = IF call[c].prevDetail = None THEN detail
                 ELSE [detail EXCEPT ![call[c].row] = call[c].prevDetail]

\* onError and onSettled, of a call that was carried out or not.
Fail(c) ==
    /\ call[c].pc \in {"sent", "applied"}
    /\ call' = [call EXCEPT ![c] = [pc |-> "done"]]
    /\ Restore(c)
    /\ Invalidate
    /\ clouded' = IF call[c].pc = "applied" THEN clouded \cup ({call[c].row} \cap Subscriber) ELSE clouded
    /\ UNCHANGED <<server, detailFetch, page, confirmAction>>

-----------------------------------------------------------------------------
(***************************************************************************)
(* Fetches.                                                                 *)
(***************************************************************************)
ServeList ==
    /\ listFetch = Sent
    /\ listFetch' = [pc |-> "answered", data |-> server]
    /\ UNCHANGED <<server, list, marked, detailVars, page, confirmAction, call>>

ListDone ==
    /\ listFetch.pc = "answered"
    /\ list' = listFetch.data
    /\ marked' = FALSE
    /\ listFetch' = Idle
    /\ UNCHANGED <<server, detailVars, page, confirmAction, call>>

\* After two retries; the old data stays, marked.
ListFails ==
    /\ listFetch = Sent
    /\ marked' = TRUE
    /\ listFetch' = Idle
    /\ UNCHANGED <<server, list, detailVars, page, confirmAction, call>>

ServeDetail(s) ==
    /\ detailFetch[s] = Sent
    /\ detailFetch' = [detailFetch EXCEPT ![s] = [pc |-> "answered", data |-> server[s]]]
    /\ clouded' = IF CallsOf(s) = {} THEN clouded \ {s} ELSE clouded
    /\ UNCHANGED <<server, listVars, detail, page, confirmAction, call>>

DetailDone(s) ==
    /\ detailFetch[s].pc = "answered"
    /\ detail' = [detail EXCEPT ![s] = detailFetch[s].data]
    /\ detailFetch' = [detailFetch EXCEPT ![s] = Idle]
    /\ UNCHANGED <<server, listVars, clouded, page, confirmAction, call>>

DetailFails(s) ==
    /\ detailFetch[s] = Sent
    /\ detailFetch' = [detailFetch EXCEPT ![s] = Idle]
    /\ UNCHANGED <<server, listVars, detail, clouded, page, confirmAction, call>>

Next ==
    \/ OpenList \/ OpenDashboard \/ Prefetch \/ Dismiss
    \/ \E a \in Action : AskFor(a)
    \/ \E s \in Subscriber : OpenDetail(s) \/ ServeDetail(s) \/ DetailDone(s) \/ DetailFails(s)
    \/ \E c \in Call : Confirm(c) \/ Create(c) \/ Apply(c) \/ Succeed(c) \/ Fail(c)
    \/ ServeList \/ ListDone \/ ListFails

Spec == Init /\ [][Next]_vars

-----------------------------------------------------------------------------
Fetch(D) == {Idle, Sent} \cup [pc : {"answered"}, data : D]
CallState ==
    {Idle, [pc |-> "done"]}
    \cup [pc : {"sent", "applied"}, action : Action \cup {"create"}, row : Row, mounted : BOOLEAN,
          previous : ListRows \cup {None}, prevDetail : MembershipStatus \cup {None}]

TypeOK ==
    /\ server \in ServerRows
    /\ list = None \/ list \in ListRows
    /\ marked \in BOOLEAN
    /\ listFetch \in Fetch(ServerRows)
    /\ \A s \in Subscriber : detail[s] = None \/ detail[s] \in MembershipStatus
    /\ detailFetch \in [Subscriber -> Fetch(MembershipStatus)]
    /\ clouded \subseteq Subscriber
    /\ page \in Subscriber \cup {"list", "elsewhere"}
    /\ confirmAction \in [type : Action, open : BOOLEAN]
    /\ \A c \in Call : call[c] \in CallState

\* When no call or fetch is under way, the list shows what the server has or is marked
\* to be fetched again, however calls, rollbacks and lost answers overlapped.  It takes
\* Stays: a fetch begun during a call, for a list that is left again, is not dropped when
\* the call settles, ends with the data of before and takes the mark away.
ListSettles ==
    Pending = {} /\ listFetch = Idle /\ list # None /\ ~marked => list = server

\* When no call or load of a subscriber is under way, the badge of the detail page shows
\* what the server has: nothing refetches it, so the rollbacks must be right by themselves.
\* They are, whatever happens to other subscribers and to the list, unless the calls of
\* this one overlapped each other or its load, or an answer was lost: then a rollback
\* brings back what another call showed, or undoes what was done, and that stays.
DetailSettles ==
    \A s \in Subscriber :
        CallsOf(s) = {} /\ detailFetch[s] = Idle /\ detail[s] # None /\ s \notin clouded
            => detail[s] = server[s]

\* The inductive invariant, proved in Subscribers_proofs; it needs Stays.
IInv ==
    /\ ListSettles
    /\ Pending = {} /\ listFetch.pc = "answered" => listFetch.data = server
    /\ Pending # {} /\ page # "list" => listFetch = Idle
    /\ listFetch.pc \in {"idle", "sent", "answered"}
    /\ listFetch.pc = "idle" => listFetch = Idle
    /\ call = [c \in Call |-> call[c]]

\* TypeOK, inductive: the two it says least of are functions, a subscriber's row is never
\* absent, and the dialog is one of a detail page.
Typed ==
    /\ TypeOK
    /\ \A s \in Subscriber : server[s] # "absent"
    /\ confirmAction.open => page \in Subscriber
    /\ detail = [s \in Subscriber |-> detail[s]]
    /\ call = [c \in Call |-> call[c]]

\* DetailSettles, inductive.  A badge that is not clouded is right, or its load has the right
\* answer, except while the one call of its own subscriber is under way; that call has no
\* load beside it, and keeps what will be right if it fails.
DetailIInv ==
    /\ \A c \in Pending : call[c].row \in Subscriber => call[c].action \in Action
    /\ \A s \in Subscriber \ clouded :
          /\ \A c, d \in CallsOf(s) : c = d
          /\ CallsOf(s) = {} =>
                /\ detailFetch[s].pc = "answered" => detailFetch[s].data = server[s]
                /\ detail[s] \in {None, server[s]} \/ detailFetch[s].pc = "answered"
          /\ \A c \in CallsOf(s) :
                /\ detailFetch[s] = Idle
                /\ detail[s] \in {None, Result[call[c].action]}
                /\ call[c].pc = "sent" =>
                      \/ call[c].prevDetail = None /\ detail[s] = None
                      \/ call[c].prevDetail = server[s]
                /\ call[c].pc = "applied" => server[s] = Result[call[c].action]
=============================================================================
