------------------------- MODULE Subscribers_proofs -------------------------
(***************************************************************************)
(* Theorems about SubscriberCache, for any subscribers and calls: a list at *)
(* rest is right or marked, as long as the owner stays for the answers, and *)
(* the badge of a detail page is right, wherever the owner goes, unless the *)
(* calls of its subscriber overlapped or an answer was lost.                *)
(*                                                                         *)
(* The mark vouches for the list only if no fetch of older data is left to  *)
(* take it away when the last call settles.  On the list's page that call's *)
(* refetch replaces any other; on other pages there is none to replace,     *)
(* because each call dropped it when it was made and only leaving a page    *)
(* begins another.                                                          *)
(***************************************************************************)
EXTENDS MCSubscribers, TLAPS

\* The initial list is the server's, or missing and being fetched.
LEMMA InitIInv == Init => IInv
BY DEF Init, IInv, ListSettles, Idle, Sent, Pending

\* A page is left only while no call is under way.
LEMMA PagesKeep ==
    ASSUME Stays, IInv,
           \/ \E s \in Subscriber : OpenDetail(s)
           \/ OpenList
           \/ OpenDashboard
           \/ Prefetch
    PROVE  IInv'
<1>1. Pending = {}
  BY DEF OpenDetail, OpenList, OpenDashboard, Prefetch, MayLeave
<1>2. Pending' = {}
  BY <1>1 DEF OpenDetail, OpenList, OpenDashboard, Prefetch, Unmount, Pending, Idle
<1>3. listFetch' = listFetch \/ (listFetch = Idle /\ listFetch' \in {Sent, Idle})
  BY DEF OpenDetail, OpenList, OpenDashboard, Prefetch, listVars, Mount
<1>4. UNCHANGED <<server, list, marked>>
  BY DEF OpenDetail, OpenList, OpenDashboard, Prefetch, listVars
<1>5. call' = [d \in Call |-> call'[d]]
  BY DEF OpenDetail, OpenList, OpenDashboard, Prefetch, Unmount, IInv
<1>. QED
  BY <1>1, <1>2, <1>3, <1>4, <1>5 DEF IInv, ListSettles, Idle, Sent

\* A call drops the list's fetch and is under way.
LEMMA CallsKeep ==
    ASSUME IInv, NEW c \in Call, Confirm(c) \/ Create(c)
    PROVE  IInv'
<1>1. listFetch' = Idle
  BY DEF Confirm, Create, OptimisticStatusUpdate
<1>2. c \in Pending'
  <2>1. CASE Confirm(c)
    BY <2>1 DEF Confirm, Pending, IInv
  <2>2. CASE Create(c)
    BY <2>2 DEF Create, Pending, IInv
  <2>. QED  BY <2>1, <2>2
<1>3. call' = [d \in Call |-> call'[d]]
  BY DEF Confirm, Create, IInv
<1>. QED
  BY <1>1, <1>2, <1>3 DEF IInv, ListSettles, Idle

\* The server carries out a call that stays under way.
LEMMA ApplyKeeps ==
    ASSUME IInv, NEW c \in Call, Apply(c)
    PROVE  IInv'
<1>1. c \in Pending /\ c \in Pending'
  BY DEF Apply, Pending, IInv
<1>2. call' = [d \in Call |-> call'[d]]
  BY DEF Apply, IInv
<1>. QED
  BY <1>1, <1>2 DEF Apply, listVars, IInv, ListSettles, Idle

\* The last call to settle marks the list, and leaves no fetch but one of its own.
LEMMA SettleKeeps ==
    ASSUME IInv, NEW c \in Call, Succeed(c) \/ Fail(c)
    PROVE  IInv'
<1>1. c \in Pending
  BY DEF Succeed, Fail, Pending
<1>2. marked' = TRUE /\ page' = page
  BY DEF Succeed, Fail, Invalidate
<1>3. listFetch' = IF page = "list" THEN Sent ELSE listFetch
  BY DEF Succeed, Fail, Invalidate
<1>4. page # "list" => listFetch = Idle
  BY <1>1 DEF IInv
<1>5. call' = [d \in Call |-> call'[d]]
  BY DEF Succeed, Fail, IInv
<1>. QED
  BY <1>2, <1>3, <1>4, <1>5 DEF IInv, ListSettles, Idle, Sent

\* What a fetch brings while no call is under way is what the server has.
LEMMA FetchesKeep ==
    ASSUME IInv, ServeList \/ ListDone \/ ListFails
    PROVE  IInv'
<1>1. Pending' = Pending /\ UNCHANGED <<server, page, call>>
  BY DEF ServeList, ListDone, ListFails, Pending
<1>2. listFetch # Idle
  BY DEF ServeList, ListDone, ListFails, Idle, Sent
<1>3. Pending # {} => page = "list"
  BY <1>2 DEF IInv
<1>4. CASE ServeList
  BY <1>1, <1>3, <1>4 DEF ServeList, IInv, ListSettles, Idle
<1>5. CASE ListDone
  BY <1>1, <1>3, <1>5 DEF ListDone, IInv, ListSettles, Idle
<1>6. CASE ListFails
  BY <1>1, <1>3, <1>6 DEF ListFails, IInv, ListSettles, Idle
<1>. QED  BY <1>4, <1>5, <1>6

\* The dialog and the detail's fetches leave the list alone.
LEMMA OthersKeep ==
    ASSUME IInv,
           \/ Dismiss
           \/ \E a \in Action : AskFor(a)
           \/ \E s \in Subscriber : ServeDetail(s) \/ DetailDone(s) \/ DetailFails(s)
           \/ UNCHANGED vars
    PROVE  IInv'
<1>1. UNCHANGED <<server, list, marked, listFetch, page, call>>
  BY DEF Dismiss, AskFor, ServeDetail, DetailDone, DetailFails, listVars, vars
<1>. QED
  BY <1>1 DEF IInv, ListSettles, Pending, Idle

\* The list's invariant holds in every reachable state, for an owner who stays.
THEOREM InductiveInvariant == Stays /\ Spec => []IInv
<1>. SUFFICES ASSUME Stays
             PROVE  Spec => []IInv
  OBVIOUS
<1>1. IInv /\ [Next]_vars => IInv'
  <2>. SUFFICES ASSUME IInv, [Next]_vars
               PROVE  IInv'
    OBVIOUS
  <2>. QED
    BY PagesKeep, CallsKeep, ApplyKeeps, SettleKeeps, FetchesKeep, OthersKeep DEF Next
<1>. QED
  BY InitIInv, <1>1, PTL DEF Spec

\* A list at rest shows what the server has or is marked to be fetched again, whatever
\* calls, rollbacks and lost answers overlapped.
THEOREM ListIsRight == Stays /\ Spec => []ListSettles
<1>1. IInv => ListSettles
  BY DEF IInv
<1>. QED
  BY InductiveInvariant, <1>1, PTL

-----------------------------------------------------------------------------
(***************************************************************************)
(* The types.                                                               *)
(***************************************************************************)
StatusCall == [pc : {"sent", "applied"}, action : Action \cup {"create"}, row : Row, mounted : BOOLEAN,
               previous : ListRows \cup {None}, prevDetail : MembershipStatus \cup {None}]

\* What the three actions of a detail page make of a status.
LEMMA Actions ==
    /\ Action = {"renew", "pause", "cancel"} /\ "create" \notin Action
    /\ \A a \in Action : Result[a] \in {"active", "paused", "expired"}
BY DEF Action, Result

\* A call under way has its whole record.
LEMMA PendingCall ==
    ASSUME Typed, NEW c \in Call, call[c].pc \in {"sent", "applied"}
    PROVE  call[c] \in StatusCall
BY DEF Typed, TypeOK, CallState, StatusCall, Idle

\* No page has been opened.
LEMMA InitTyped == ASSUME CacheAssumption, Init PROVE Typed
<1>1. server \in ServerRows /\ (list = None \/ list \in ListRows) /\ marked \in BOOLEAN
  BY DEF Init, ServerRows, ListRows
<1>2. listFetch \in Fetch(ServerRows) /\ detailFetch \in [Subscriber -> Fetch(MembershipStatus)]
  BY DEF Init, Fetch
<1>3. /\ \A s \in Subscriber : detail[s] = None
      /\ detail = [s \in Subscriber |-> detail[s]]
  BY DEF Init
<1>4. page \in Subscriber \cup {"list", "elsewhere"} /\ confirmAction \in [type : Action, open : BOOLEAN]
  BY Actions DEF Init
<1>5. (\A c \in Call : call[c] \in CallState) /\ call = [c \in Call |-> call[c]]
  BY DEF Init, CallState
<1>6. confirmAction.open = FALSE /\ \A s \in Subscriber : server[s] # "absent"
  BY DEF Init, CacheAssumption, Row
<1>7. clouded \subseteq Subscriber
  BY DEF Init
<1>. QED BY <1>1, <1>2, <1>3, <1>4, <1>5, <1>6, <1>7 DEF Typed, TypeOK

\* Leaving a page forgets the callbacks of the calls under way.
LEMMA UnmountTyped ==
    ASSUME Typed, Unmount
    PROVE  (\A c \in Call : call'[c] \in CallState) /\ call' = [c \in Call |-> call'[c]]
<1>1. call' = [c \in Call |-> IF call[c].pc \in {"sent", "applied"}
                              THEN [call[c] EXCEPT !.mounted = FALSE] ELSE call[c]]
  BY DEF Unmount
<1>2. ASSUME NEW c \in Call PROVE call'[c] \in CallState
  <2>1. CASE call[c].pc \in {"sent", "applied"}
    <3>1. [call[c] EXCEPT !.mounted = FALSE] \in StatusCall
      BY <2>1, PendingCall DEF StatusCall
    <3>. QED BY <1>1, <2>1, <3>1 DEF CallState, StatusCall
  <2>2. CASE call[c].pc \notin {"sent", "applied"}
    BY <1>1, <2>2 DEF Typed, TypeOK
  <2>. QED BY <2>1, <2>2
<1>. QED BY <1>1, <1>2

\* A fetch that may be begun.
LEMMA MountTyped ==
    ASSUME NEW D, NEW f \in Fetch(D), NEW needed, NEW g \in Mount(f, needed)
    PROVE  g \in Fetch(D)
BY DEF Mount, Fetch

\* Pages are opened and left.
LEMMA PagesTyped ==
    ASSUME Typed,
           \/ \E s \in Subscriber : OpenDetail(s)
           \/ OpenList
           \/ OpenDashboard
           \/ Prefetch
    PROVE  Typed'
<1>. USE DEF Typed, TypeOK
<1>1. ASSUME NEW s \in Subscriber, OpenDetail(s) PROVE Typed'
  <2>1. (\A c \in Call : call'[c] \in CallState) /\ call' = [c \in Call |-> call'[c]]
    BY <1>1, UnmountTyped DEF OpenDetail
  <2>2. PICK f \in Mount(detailFetch[s], detail[s] = None) : detailFetch' = [detailFetch EXCEPT ![s] = f]
    BY <1>1 DEF OpenDetail
  <2>3. f \in Fetch(MembershipStatus)
    BY <2>2, MountTyped
  <2>4. detailFetch' \in [Subscriber -> Fetch(MembershipStatus)]
    BY <2>2, <2>3
  <2>. QED BY <1>1, <2>1, <2>4, Actions DEF OpenDetail, listVars
<1>2. ASSUME OpenList \/ OpenDashboard PROVE Typed'
  <2>1. (\A c \in Call : call'[c] \in CallState) /\ call' = [c \in Call |-> call'[c]]
    BY <1>2, UnmountTyped DEF OpenList, OpenDashboard
  <2>2. listFetch' \in Fetch(ServerRows)
    BY <1>2, MountTyped DEF OpenList, OpenDashboard
  <2>. QED BY <1>2, <2>1, <2>2 DEF OpenList, OpenDashboard, detailVars
<1>3. CASE Prefetch
  <2>1. listFetch' \in Fetch(ServerRows)
    BY <1>3, MountTyped DEF Prefetch
  <2>. QED BY <1>3, <2>1 DEF Prefetch, detailVars
<1>. QED BY <1>1, <1>2, <1>3

\* Another state for a call.
LEMMA CallTyped ==
    ASSUME Typed, NEW c \in Call, NEW x \in CallState, call' = [call EXCEPT ![c] = x]
    PROVE  /\ \A d \in Call : call'[d] \in CallState
           /\ call' = [d \in Call |-> call'[d]]
           /\ call'[c] = x /\ \A d \in Call \ {c} : call'[d] = call[d]
BY DEF Typed, TypeOK

\* The list, with a status for a row it knows, and the detail, with one for a shown badge.
LEMMA OptimisticTyped ==
    ASSUME Typed, NEW s \in Subscriber, NEW status \in MembershipStatus, OptimisticStatusUpdate(s, status)
    PROVE  /\ list' = None \/ list' \in ListRows
           /\ marked' \in BOOLEAN /\ listFetch' = Idle
           /\ \A t \in Subscriber : detail'[t] = IF t = s /\ detail[s] # None THEN status ELSE detail[t]
           /\ detail' = [t \in Subscriber |-> detail'[t]]
           /\ UNCHANGED detailFetch
<1>. USE DEF OptimisticStatusUpdate, Typed, TypeOK
<1>1. list' = None \/ list' \in ListRows
  <2>1. CASE list = None
    BY <2>1
  <2>2. CASE list # None
    BY <2>2 DEF ListRows
  <2>. QED BY <2>1, <2>2
<1>2. /\ \A t \in Subscriber : detail'[t] = IF t = s /\ detail[s] # None THEN status ELSE detail[t]
      /\ detail' = [t \in Subscriber |-> detail'[t]]
  OBVIOUS
<1>. QED BY <1>1, <1>2

\* What a confirmed dialog makes of the calls.
LEMMA ConfirmCall ==
    ASSUME Typed, NEW c \in Call, Confirm(c)
    PROVE  /\ page \in Subscriber /\ confirmAction.type \in Action
           /\ call'[c] = [pc |-> "sent", action |-> confirmAction.type, row |-> page, mounted |-> TRUE,
                          previous |-> list, prevDetail |-> detail[page]]
           /\ \A d \in Call \ {c} : call'[d] = call[d]
           /\ \A d \in Call : call'[d] \in CallState
           /\ call' = [d \in Call |-> call'[d]]
<1>1. page \in Subscriber /\ confirmAction.type \in Action
  BY DEF Confirm, Typed, TypeOK
<1>. DEFINE x == [pc |-> "sent", action |-> confirmAction.type, row |-> page, mounted |-> TRUE,
                  previous |-> list, prevDetail |-> detail[page]]
<1>2. list \in ListRows \cup {None} /\ detail[page] \in MembershipStatus \cup {None} /\ page \in Row
  BY <1>1 DEF Typed, TypeOK, Row
<1>3. x \in CallState
  BY <1>1, <1>2 DEF CallState
<1>4. call' = [call EXCEPT ![c] = x]
  BY DEF Confirm
<1>5. call'[c] = x /\ (\A d \in Call \ {c} : call'[d] = call[d])
      /\ (\A d \in Call : call'[d] \in CallState) /\ call' = [d \in Call |-> call'[d]]
  BY <1>3, <1>4, CallTyped
<1>. QED BY <1>1, <1>5

\* What creating a subscriber makes of the calls.
LEMMA CreateCall ==
    ASSUME Typed, NEW c \in Call, Create(c)
    PROVE  /\ call'[c] = [pc |-> "sent", action |-> "create", row |-> c, mounted |-> TRUE,
                          previous |-> list, prevDetail |-> None]
           /\ \A d \in Call \ {c} : call'[d] = call[d]
           /\ \A d \in Call : call'[d] \in CallState
           /\ call' = [d \in Call |-> call'[d]]
<1>. DEFINE x == [pc |-> "sent", action |-> "create", row |-> c, mounted |-> TRUE,
                  previous |-> list, prevDetail |-> None]
<1>1. x \in CallState
  BY DEF CallState, Typed, TypeOK, Row
<1>2. call' = [call EXCEPT ![c] = x]
  BY DEF Create
<1>. QED BY <1>1, <1>2, CallTyped

\* A call is made.
LEMMA CallsTyped ==
    ASSUME Typed, NEW c \in Call, Confirm(c) \/ Create(c)
    PROVE  Typed'
<1>1. CASE Confirm(c)
  <2>1. /\ page \in Subscriber /\ confirmAction.type \in Action
        /\ \A d \in Call : call'[d] \in CallState
        /\ call' = [d \in Call |-> call'[d]]
    BY <1>1, ConfirmCall
  <2>2. Result[confirmAction.type] \in MembershipStatus
    BY <2>1, Actions DEF MembershipStatus
  <2>3. /\ list' = None \/ list' \in ListRows
        /\ marked' \in BOOLEAN /\ listFetch' = Idle
        /\ \A t \in Subscriber :
              detail'[t] = IF t = page /\ detail[page] # None THEN Result[confirmAction.type] ELSE detail[t]
        /\ detail' = [t \in Subscriber |-> detail'[t]]
        /\ UNCHANGED detailFetch
    BY <1>1, <2>1, <2>2, OptimisticTyped DEF Confirm
  <2>4. clouded' \subseteq Subscriber
    BY <1>1, <2>1 DEF Confirm, OptimisticStatusUpdate, Typed, TypeOK
  <2>. QED BY <1>1, <2>1, <2>2, <2>3, <2>4 DEF Confirm, Typed, TypeOK, Fetch
<1>2. CASE Create(c)
  <2>1. (\A d \in Call : call'[d] \in CallState) /\ call' = [d \in Call |-> call'[d]]
    BY <1>2, CreateCall
  <2>2. list' \in ListRows
    BY <1>2 DEF Create, Typed, TypeOK, ListRows, Row
  <2>. QED BY <1>2, <2>1, <2>2 DEF Create, Typed, TypeOK, Fetch, detailVars
<1>. QED BY <1>1, <1>2

\* The server carries a call out.
LEMMA ApplyTyped ==
    ASSUME Typed, NEW c \in Call, Apply(c)
    PROVE  /\ Typed'
           /\ call'[c] = [call[c] EXCEPT !.pc = "applied"]
           /\ \A d \in Call \ {c} : call'[d] = call[d]
<1>1. call[c] \in StatusCall
  BY PendingCall DEF Apply
<1>2. [call[c] EXCEPT !.pc = "applied"] \in CallState
  BY <1>1 DEF StatusCall, CallState
<1>3. call' = [call EXCEPT ![c] = [call[c] EXCEPT !.pc = "applied"]]
  BY DEF Apply
<1>4. /\ \A d \in Call : call'[d] \in CallState
      /\ call' = [d \in Call |-> call'[d]]
      /\ call'[c] = [call[c] EXCEPT !.pc = "applied"] /\ \A d \in Call \ {c} : call'[d] = call[d]
  BY <1>2, <1>3, CallTyped
<1>5. server' \in ServerRows
  <2>1. call[c].row \in Row /\ call[c].action \in Action \cup {"create"}
    BY <1>1 DEF StatusCall
  <2>2. (IF call[c].action = "create" THEN "active" ELSE Result[call[c].action]) \in MembershipStatus
    BY <2>1, Actions DEF MembershipStatus
  <2>. QED BY <2>1, <2>2 DEF Apply, Typed, TypeOK, ServerRows
<1>6. \A s \in Subscriber : server'[s] # "absent"
  <2>1. call[c].row \in Row /\ call[c].action \in Action \cup {"create"}
    BY <1>1 DEF StatusCall
  <2>2. (IF call[c].action = "create" THEN "active" ELSE Result[call[c].action]) # "absent"
    BY <2>1, Actions
  <2>. QED BY <2>1, <2>2 DEF Apply, Typed, TypeOK, ServerRows, Row
<1>. QED BY <1>4, <1>5, <1>6 DEF Apply, Typed, TypeOK, listVars, detailVars

\* A call that has ended.
LEMMA DoneCall ==
    ASSUME Typed, NEW c \in Call, Succeed(c) \/ Fail(c)
    PROVE  /\ \A d \in Call : call'[d] \in CallState
           /\ call' = [d \in Call |-> call'[d]]
           /\ call'[c] = [pc |-> "done"] /\ \A d \in Call \ {c} : call'[d] = call[d]
<1>1. [pc |-> "done"] \in CallState
  BY DEF CallState
<1>2. call' = [call EXCEPT ![c] = [pc |-> "done"]]
  BY DEF Succeed, Fail
<1>. QED BY <1>1, <1>2, CallTyped

\* A call ends, and the list is marked or fetched again.
LEMMA SettleTyped ==
    ASSUME Typed, NEW c \in Call, Succeed(c) \/ Fail(c)
    PROVE  Typed'
<1>1. /\ \A d \in Call : call'[d] \in CallState
      /\ call' = [d \in Call |-> call'[d]]
  BY DoneCall
<1>2. marked' \in BOOLEAN /\ listFetch' \in Fetch(ServerRows) /\ UNCHANGED <<server, detailFetch, page>>
  BY DEF Succeed, Fail, Invalidate, Fetch, Typed, TypeOK, detailVars
<1>3. call[c] \in StatusCall
  BY PendingCall DEF Succeed, Fail
<1>4. CASE Succeed(c)
  <2>1. confirmAction' \in [type : Action, open : BOOLEAN] /\ (confirmAction'.open => confirmAction.open)
    BY <1>4 DEF Succeed, Typed, TypeOK
  <2>. QED BY <1>1, <1>2, <1>4, <2>1 DEF Succeed, Typed, TypeOK, detailVars
<1>5. CASE Fail(c)
  <2>1. list' = None \/ list' \in ListRows
    BY <1>3, <1>5 DEF Fail, Restore, StatusCall, Typed, TypeOK
  <2>2. (\A s \in Subscriber : detail'[s] = None \/ detail'[s] \in MembershipStatus)
        /\ detail' = [s \in Subscriber |-> detail'[s]]
    <3>1. CASE call[c].prevDetail = None
      BY <1>5, <3>1 DEF Fail, Restore, Typed, TypeOK
    <3>2. CASE call[c].prevDetail # None
      <4>1. call[c].prevDetail \in MembershipStatus
        BY <1>3, <3>2 DEF StatusCall
      <4>. QED BY <1>5, <3>2, <4>1 DEF Fail, Restore, Typed, TypeOK
    <3>. QED BY <3>1, <3>2
  <2>. QED BY <1>1, <1>2, <1>5, <2>1, <2>2 DEF Fail, Typed, TypeOK
<1>. QED BY <1>4, <1>5

\* A fetch is served, ends or fails.
LEMMA FetchesTyped ==
    ASSUME Typed,
           \/ ServeList \/ ListDone \/ ListFails
           \/ \E s \in Subscriber : ServeDetail(s) \/ DetailDone(s) \/ DetailFails(s)
    PROVE  Typed'
<1>1. CASE ServeList
  BY <1>1 DEF ServeList, Typed, TypeOK, Fetch, detailVars
<1>2. CASE ListDone
  <2>1. listFetch.data \in ServerRows
    BY <1>2 DEF ListDone, Typed, TypeOK, Fetch, Idle, Sent
  <2>2. listFetch.data \in ListRows
    BY <2>1 DEF ServerRows, ListRows
  <2>. QED BY <1>2, <2>2 DEF ListDone, Typed, TypeOK, Fetch, detailVars
<1>3. CASE ListFails
  BY <1>3 DEF ListFails, Typed, TypeOK, Fetch, detailVars
<1>4. ASSUME NEW s \in Subscriber, ServeDetail(s) PROVE Typed'
  <2>1. server[s] \in MembershipStatus
    BY DEF Typed, TypeOK, ServerRows, Row
  <2>2. detailFetch' \in [Subscriber -> Fetch(MembershipStatus)]
    BY <1>4, <2>1 DEF ServeDetail, Typed, TypeOK, Fetch
  <2>. QED BY <1>4, <2>2 DEF ServeDetail, Typed, TypeOK, listVars
<1>5. ASSUME NEW s \in Subscriber, DetailDone(s) \/ DetailFails(s) PROVE Typed'
  <2>1. detailFetch' \in [Subscriber -> Fetch(MembershipStatus)]
    BY <1>5 DEF DetailDone, DetailFails, Typed, TypeOK, Fetch
  <2>2. (\A t \in Subscriber : detail'[t] = None \/ detail'[t] \in MembershipStatus)
        /\ detail' = [t \in Subscriber |-> detail'[t]]
    <3>1. CASE DetailDone(s)
      <4>1. detailFetch[s].data \in MembershipStatus
        BY <3>1 DEF DetailDone, Typed, TypeOK, Fetch, Idle, Sent
      <4>. QED BY <3>1, <4>1 DEF DetailDone, Typed, TypeOK
    <3>2. CASE DetailFails(s)
      BY <3>2 DEF DetailFails, Typed, TypeOK
    <3>. QED BY <1>5, <3>1, <3>2
  <2>. QED BY <1>5, <2>1, <2>2 DEF DetailDone, DetailFails, Typed, TypeOK, listVars
<1>. QED BY <1>1, <1>2, <1>3, <1>4, <1>5

\* The dialog of a detail page, and steps that change nothing.
LEMMA OthersTyped ==
    ASSUME Typed, Dismiss \/ (\E a \in Action : AskFor(a)) \/ UNCHANGED vars
    PROVE  Typed'
<1>1. confirmAction' \in [type : Action, open : BOOLEAN] /\ (confirmAction'.open => page \in Subscriber)
  <2>1. CASE Dismiss
    BY <2>1 DEF Dismiss, Typed, TypeOK
  <2>2. ASSUME NEW a \in Action, AskFor(a)
        PROVE  confirmAction' \in [type : Action, open : BOOLEAN] /\ page \in Subscriber
    BY <2>2 DEF AskFor
  <2>3. CASE UNCHANGED vars
    BY <2>3 DEF vars, Typed, TypeOK
  <2>. QED BY <2>1, <2>2, <2>3
<1>2. UNCHANGED <<server, list, marked, listFetch, detail, detailFetch, clouded, page, call>>
  BY DEF Dismiss, AskFor, vars, listVars, detailVars
<1>. QED BY <1>1, <1>2 DEF Typed, TypeOK

\* Every step of an owner keeps the types.
LEMMA NextTyped == Typed /\ [Next]_vars => Typed'
BY PagesTyped, CallsTyped, ApplyTyped, SettleTyped, FetchesTyped, OthersTyped DEF Next

-----------------------------------------------------------------------------
(***************************************************************************)
(* The badge.                                                               *)
(***************************************************************************)
\* What a subscriber's badge keeps that is not clouded.
BadgeIInv(s) ==
    /\ \A c, d \in CallsOf(s) : c = d
    /\ CallsOf(s) = {} =>
          /\ detailFetch[s].pc = "answered" => detailFetch[s].data = server[s]
          /\ detail[s] \in {None, server[s]} \/ detailFetch[s].pc = "answered"
    /\ \A c \in CallsOf(s) :
          /\ detailFetch[s] = Idle
          /\ detail[s] \in {None, Result[call[c].action]}
          /\ call[c].pc = "sent" =>
                \/ call[c].prevDetail = None /\ detail[s] = None
                \/ call[c].prevDetail = server[s]
          /\ call[c].pc = "applied" => server[s] = Result[call[c].action]

ActionsOnly == \A c \in Pending : call[c].row \in Subscriber => call[c].action \in Action

\* DetailIInv, by subscriber, before a step and after it.
LEMMA ByBadge ==
    /\ DetailIInv <=> ActionsOnly /\ \A s \in Subscriber \ clouded : BadgeIInv(s)
    /\ DetailIInv' <=> ActionsOnly' /\ \A s \in Subscriber \ clouded' : BadgeIInv(s)'
BY DEF DetailIInv, ActionsOnly, BadgeIInv

\* No badge is shown, no call under way.
LEMMA InitDetail == ASSUME Init PROVE DetailIInv
BY DEF Init, DetailIInv, Pending, CallsOf, Idle

\* A badge whose variables and calls a step leaves alone.
LEMMA SameBadge ==
    ASSUME NEW s \in Subscriber, BadgeIInv(s),
           server'[s] = server[s], detail'[s] = detail[s], detailFetch'[s] = detailFetch[s],
           CallsOf(s)' = CallsOf(s),
           \A c \in CallsOf(s) : /\ call'[c].action = call[c].action /\ call'[c].pc = call[c].pc
                                 /\ call'[c].prevDetail = call[c].prevDetail
    PROVE  BadgeIInv(s)'
BY DEF BadgeIInv, Result, Idle

\* Leaving a page changes of a call only what happens to its callbacks.
LEMMA SameCalls ==
    ASSUME Typed, Unmount
    PROVE  /\ Pending' = Pending
           /\ \A s \in Subscriber : CallsOf(s)' = CallsOf(s)
           /\ \A c \in Pending : /\ call'[c].action = call[c].action /\ call'[c].pc = call[c].pc
                                 /\ call'[c].prevDetail = call[c].prevDetail /\ call'[c].row = call[c].row
<1>1. \A c \in Call : call'[c] = IF call[c].pc \in {"sent", "applied"}
                                THEN [call[c] EXCEPT !.mounted = FALSE] ELSE call[c]
  BY DEF Unmount
<1>2. ASSUME NEW c \in Call
      PROVE  /\ call'[c].pc = call[c].pc
             /\ c \in Pending => /\ call'[c].action = call[c].action /\ call'[c].row = call[c].row
                                 /\ call'[c].prevDetail = call[c].prevDetail
  <2>1. CASE call[c].pc \in {"sent", "applied"}
    <3>1. call[c] \in StatusCall
      BY <2>1, PendingCall
    <3>. QED BY <1>1, <2>1, <3>1 DEF StatusCall
  <2>2. CASE call[c].pc \notin {"sent", "applied"}
    BY <1>1, <2>2 DEF Pending
  <2>. QED BY <2>1, <2>2
<1>3. Pending' = Pending
  BY <1>2 DEF Pending
<1>. QED BY <1>2, <1>3 DEF CallsOf, Pending

\* Pages change no badge; a page opened while a call of its subscriber is under way clouds it.
LEMMA PagesDetail ==
    ASSUME Typed, DetailIInv,
           \/ \E s \in Subscriber : OpenDetail(s)
           \/ OpenList
           \/ OpenDashboard
           \/ Prefetch
    PROVE  DetailIInv'
<1>1. /\ Pending' = Pending
      /\ \A s \in Subscriber : CallsOf(s)' = CallsOf(s)
      /\ \A c \in Pending : /\ call'[c].action = call[c].action /\ call'[c].pc = call[c].pc
                            /\ call'[c].prevDetail = call[c].prevDetail /\ call'[c].row = call[c].row
  <2>1. CASE UNCHANGED call
    BY <2>1 DEF Pending, CallsOf
  <2>2. CASE Unmount
    BY <2>2, SameCalls
  <2>. QED BY <2>1, <2>2 DEF OpenDetail, OpenList, OpenDashboard, Prefetch
<1>2. UNCHANGED <<server, detail>>
  BY DEF OpenDetail, OpenList, OpenDashboard, Prefetch, detailVars
<1>3. ActionsOnly'
  BY <1>1, ByBadge DEF ActionsOnly
<1>4. ASSUME NEW s \in Subscriber \ clouded' PROVE BadgeIInv(s)'
  <2>1. s \notin clouded
    BY DEF OpenDetail, OpenList, OpenDashboard, Prefetch, detailVars
  <2>2. BadgeIInv(s)
    BY <2>1, ByBadge
  <2>3. CASE detailFetch'[s] = detailFetch[s]
    <3>1. CallsOf(s) \subseteq Pending
      BY DEF CallsOf
    <3>. QED BY <1>1, <1>2, <2>2, <2>3, <3>1, SameBadge
  <2>4. CASE detailFetch'[s] # detailFetch[s]
    <3>1. OpenDetail(s)
      BY <2>4 DEF OpenDetail, OpenList, OpenDashboard, Prefetch, detailVars, Typed, TypeOK
    <3>2. CallsOf(s) = {} /\ detailFetch[s] = Idle /\ detailFetch'[s] \in {Idle, Sent}
      BY <2>4, <3>1 DEF OpenDetail, Mount, Typed, TypeOK
    <3>. QED BY <1>1, <1>2, <2>2, <3>2 DEF BadgeIInv, Idle, Sent
  <2>. QED BY <2>3, <2>4
<1>. QED BY <1>3, <1>4, ByBadge

\* A call about a subscriber: what the badge showed is kept.
LEMMA ConfirmDetail ==
    ASSUME Typed, DetailIInv, NEW c \in Call, Confirm(c)
    PROVE  DetailIInv'
<1>1. /\ page \in Subscriber /\ confirmAction.type \in Action /\ call[c] = Idle
      /\ UNCHANGED <<server, detailFetch>>
      /\ clouded' = clouded \cup {t \in {page} : CallsOf(t) # {} \/ detailFetch[t] # Idle}
  BY ConfirmCall DEF Confirm, OptimisticStatusUpdate
<1>2. /\ call'[c].row = page /\ call'[c].action = confirmAction.type /\ call'[c].pc = "sent"
      /\ call'[c].prevDetail = detail[page]
      /\ \A d \in Call \ {c} : call'[d] = call[d]
  BY ConfirmCall
<1>3. c \notin Pending /\ Pending' = Pending \cup {c}
  BY <1>1, <1>2 DEF Pending, Idle
<1>4. \A s \in Subscriber : CallsOf(s)' = IF s = page THEN CallsOf(s) \cup {c} ELSE CallsOf(s)
  BY <1>2, <1>3 DEF CallsOf, Pending
<1>5. Result[confirmAction.type] \in MembershipStatus
  BY <1>1, Actions DEF MembershipStatus
<1>6. \A t \in Subscriber :
         detail'[t] = IF t = page /\ detail[page] # None THEN Result[confirmAction.type] ELSE detail[t]
  BY <1>1, <1>5, OptimisticTyped DEF Confirm
<1>7. ActionsOnly'
  BY <1>1, <1>2, <1>3, ByBadge DEF ActionsOnly, Pending
<1>8. ASSUME NEW s \in Subscriber \ clouded' PROVE BadgeIInv(s)'
  <2>1. s \notin clouded /\ BadgeIInv(s)
    BY <1>1, ByBadge
  <2>2. CASE s # page
    <3>1. \A d \in CallsOf(s) : call'[d] = call[d]
      BY <1>2, <1>3 DEF CallsOf, Pending
    <3>. QED BY <1>1, <1>4, <1>6, <2>1, <2>2, <3>1, SameBadge
  <2>3. CASE s = page
    <3>1. CallsOf(s) = {} /\ detailFetch[s] = Idle
      BY <1>1, <2>3
    <3>2. CallsOf(s)' = {c} /\ detail[s] \in {None, server[s]}
      BY <1>4, <2>1, <2>3, <3>1 DEF BadgeIInv, Idle
    <3>3. detail'[s] \in {None, Result[call'[c].action]} /\ (detail[s] = None => detail'[s] = None)
      BY <1>2, <1>6, <2>3
    <3>. QED BY <1>1, <1>2, <2>3, <3>1, <3>2, <3>3 DEF BadgeIInv, Result, Idle
  <2>. QED BY <2>2, <2>3
<1>. QED BY <1>7, <1>8, ByBadge

\* A call about a new subscriber, whom no badge shows.
LEMMA CreateDetail ==
    ASSUME CacheAssumption, Typed, DetailIInv, NEW c \in Call, Create(c)
    PROVE  DetailIInv'
<1>1. UNCHANGED <<server, detail, detailFetch, clouded>> /\ call[c] = Idle
  BY DEF Create, detailVars
<1>2. /\ call'[c].pc = "sent" /\ call'[c].row = c /\ c \notin Subscriber
      /\ \A d \in Call \ {c} : call'[d] = call[d]
  <2>1. call'[c] = [pc |-> "sent", action |-> "create", row |-> c, mounted |-> TRUE,
                    previous |-> list, prevDetail |-> None]
    BY CreateCall
  <2>. QED BY <2>1, CreateCall DEF CacheAssumption
<1>3. c \notin Pending /\ Pending' = Pending \cup {c}
  BY <1>1, <1>2 DEF Pending, Idle
<1>4. \A s \in Subscriber : CallsOf(s)' = CallsOf(s) /\ \A d \in CallsOf(s) : call'[d] = call[d]
  BY <1>2, <1>3 DEF CallsOf, Pending
<1>5. ActionsOnly'
  BY <1>2, <1>3, ByBadge DEF ActionsOnly, Pending
<1>6. ASSUME NEW s \in Subscriber \ clouded' PROVE BadgeIInv(s)'
  BY <1>1, <1>4, SameBadge, ByBadge
<1>. QED BY <1>5, <1>6, ByBadge

\* The server carries the call out: the badge shows what it does.
LEMMA ApplyDetail ==
    ASSUME Typed, DetailIInv, NEW c \in Call, Apply(c)
    PROVE  DetailIInv'
<1>1. call[c] \in StatusCall /\ call[c].pc = "sent" /\ c \in Pending
  BY PendingCall DEF Apply, Pending
<1>2. /\ call'[c].row = call[c].row /\ call'[c].action = call[c].action /\ call'[c].pc = "applied"
      /\ call'[c].prevDetail = call[c].prevDetail
      /\ \A d \in Call \ {c} : call'[d] = call[d]
  BY <1>1, ApplyTyped DEF StatusCall
<1>3. Pending' = Pending /\ \A s \in Subscriber : CallsOf(s)' = CallsOf(s)
  <2>1. Pending' = Pending
    BY <1>1, <1>2 DEF Pending
  <2>. QED BY <1>2, <2>1 DEF CallsOf, Pending
<1>4. UNCHANGED <<detail, detailFetch, clouded>> /\ \A r \in Row : r # call[c].row => server'[r] = server[r]
  BY DEF Apply, detailVars, Typed, TypeOK, ServerRows
<1>5. ActionsOnly /\ ActionsOnly'
  BY <1>2, <1>3, ByBadge DEF ActionsOnly, Pending
<1>6. call[c].row \in Subscriber => server'[call[c].row] = Result[call[c].action]
  BY <1>1, <1>5, Actions DEF Apply, ActionsOnly, Typed, TypeOK, ServerRows, Row
<1>7. ASSUME NEW s \in Subscriber \ clouded' PROVE BadgeIInv(s)'
  <2>1. BadgeIInv(s)
    BY <1>4, ByBadge
  <2>2. CASE s # call[c].row
    <3>1. server'[s] = server[s] /\ \A d \in CallsOf(s) : call'[d] = call[d]
      BY <1>2, <1>4, <2>2 DEF Row, CallsOf, Pending
    <3>. QED BY <1>3, <1>4, <2>1, <3>1, SameBadge
  <2>3. CASE s = call[c].row
    <3>1. CallsOf(s)' = {c} /\ CallsOf(s) = {c}
      BY <1>1, <1>3, <2>1, <2>3 DEF BadgeIInv, CallsOf
    <3>. QED BY <1>2, <1>4, <1>6, <2>1, <2>3, <3>1 DEF BadgeIInv, Result, Idle
  <2>. QED BY <2>2, <2>3
<1>. QED BY <1>5, <1>7, ByBadge

\* The call ends: the badge stays, or what was kept comes back; a lost answer clouds it.
LEMMA SettleDetail ==
    ASSUME CacheAssumption, Typed, DetailIInv, NEW c \in Call, Succeed(c) \/ Fail(c)
    PROVE  DetailIInv'
<1>1. c \in Pending /\ call[c] \in StatusCall
  BY PendingCall DEF Succeed, Fail, Pending
<1>2. call'[c] = [pc |-> "done"] /\ \A d \in Call \ {c} : call'[d] = call[d]
  BY DoneCall
<1>3. Pending' = Pending \ {c} /\ \A s \in Subscriber : CallsOf(s)' = CallsOf(s) \ {c}
  <2>1. Pending' = Pending \ {c}
    BY <1>2 DEF Pending
  <2>. QED BY <1>2, <2>1 DEF CallsOf, Pending
<1>4. UNCHANGED <<server, detailFetch>> /\ clouded \subseteq clouded'
  BY DEF Succeed, Fail, detailVars
<1>5. ActionsOnly'
  BY <1>2, <1>3, ByBadge DEF ActionsOnly, Pending
<1>6. ASSUME NEW s \in Subscriber \ clouded' PROVE BadgeIInv(s)'
  <2>1. BadgeIInv(s)
    BY <1>4, ByBadge
  <2>2. CASE s # call[c].row
    <3>1. detail'[s] = detail[s]
      BY <2>2 DEF Succeed, Fail, Restore, detailVars, Typed
    <3>2. CallsOf(s)' = CallsOf(s) /\ \A d \in CallsOf(s) : call'[d] = call[d]
      BY <1>2, <1>3, <2>2 DEF CallsOf, Pending
    <3>. QED BY <1>4, <2>1, <3>1, <3>2, SameBadge
  <2>3. CASE s = call[c].row
    <3>1. c \in CallsOf(s) /\ CallsOf(s)' = {}
      BY <1>1, <1>3, <2>1, <2>3 DEF BadgeIInv, CallsOf
    <3>2. detailFetch[s] = Idle /\ detailFetch'[s] = Idle
      BY <1>4, <2>1, <3>1 DEF BadgeIInv
    <3>3. detail'[s] \in {None, server[s]}
      <4>1. CASE Succeed(c)
        BY <2>1, <3>1, <4>1 DEF Succeed, BadgeIInv, detailVars
      <4>2. CASE Fail(c)
        <5>1. call[c].pc = "sent"
          BY <2>3, <4>2 DEF Fail
        <5>2. (call[c].prevDetail = None /\ detail[s] = None) \/ call[c].prevDetail = server[s]
          BY <2>1, <3>1, <5>1 DEF BadgeIInv
        <5>3. server[s] # None
          BY DEF CacheAssumption, Typed, TypeOK, ServerRows, Row
        <5>. QED BY <2>3, <4>2, <5>2, <5>3 DEF Fail, Restore, Typed
      <4>. QED BY <4>1, <4>2
    <3>. QED BY <1>4, <3>1, <3>2, <3>3 DEF BadgeIInv, Idle
  <2>. QED BY <2>2, <2>3
<1>. QED BY <1>5, <1>6, ByBadge

\* A load's answer is the server's, unless a call of its subscriber is under way, and then
\* its badge is clouded.
LEMMA FetchesDetail ==
    ASSUME Typed, DetailIInv,
           \E s \in Subscriber : ServeDetail(s) \/ DetailDone(s) \/ DetailFails(s)
    PROVE  DetailIInv'
<1>1. PICK s \in Subscriber : ServeDetail(s) \/ DetailDone(s) \/ DetailFails(s)
  OBVIOUS
<1>2. UNCHANGED <<server, call>> /\ Pending' = Pending /\ \A t \in Subscriber : CallsOf(t)' = CallsOf(t)
  BY <1>1 DEF ServeDetail, DetailDone, DetailFails, Pending, CallsOf
<1>3. ActionsOnly'
  BY <1>2, ByBadge DEF ActionsOnly
<1>4. \A t \in Subscriber \ {s} :
         /\ detailFetch'[t] = detailFetch[t] /\ detail'[t] = detail[t]
         /\ t \notin clouded' => t \notin clouded
  BY <1>1 DEF ServeDetail, DetailDone, DetailFails, Typed, TypeOK
<1>5. ASSUME s \notin clouded' PROVE BadgeIInv(s)'
  <2>1. detailFetch[s] # Idle
    BY <1>1 DEF ServeDetail, DetailDone, DetailFails, Idle, Sent
  <2>2. CASE ServeDetail(s) /\ CallsOf(s) = {}
    <3>1. detailFetch'[s] = [pc |-> "answered", data |-> server[s]]
      BY <2>2 DEF ServeDetail, Typed, TypeOK
    <3>. QED BY <1>2, <2>2, <3>1 DEF BadgeIInv
  <2>3. CASE ~(ServeDetail(s) /\ CallsOf(s) = {})
    <3>1. s \notin clouded
      BY <1>1, <1>5, <2>3 DEF ServeDetail, DetailDone, DetailFails
    <3>2. BadgeIInv(s)
      BY <3>1, ByBadge
    <3>3. CallsOf(s) = {}
      BY <2>1, <3>2 DEF BadgeIInv
    <3>4. detailFetch'[s] = Idle /\ detail'[s] \in {None, server[s]}
      <4>1. CASE DetailDone(s)
        BY <3>2, <3>3, <4>1 DEF DetailDone, BadgeIInv, Typed, TypeOK
      <4>2. CASE DetailFails(s)
        BY <3>2, <3>3, <4>2 DEF DetailFails, BadgeIInv, Typed, TypeOK, Sent
      <4>. QED BY <1>1, <2>3, <3>3, <4>1, <4>2
    <3>. QED BY <1>2, <3>3, <3>4 DEF BadgeIInv, Idle
  <2>. QED BY <2>2, <2>3
<1>6. ASSUME NEW t \in Subscriber \ clouded', t # s PROVE BadgeIInv(t)'
  <2>1. BadgeIInv(t) /\ detailFetch'[t] = detailFetch[t] /\ detail'[t] = detail[t]
    BY <1>4, <1>6, ByBadge
  <2>. QED BY <1>2, <2>1, SameBadge
<1>. QED BY <1>3, <1>5, <1>6, ByBadge

\* Steps that neither the badges nor their loads take part in.
LEMMA OthersDetail ==
    ASSUME DetailIInv,
           \/ ServeList \/ ListDone \/ ListFails
           \/ Dismiss \/ (\E a \in Action : AskFor(a)) \/ UNCHANGED vars
    PROVE  DetailIInv'
<1>1. UNCHANGED <<server, detail, detailFetch, clouded, call>>
  BY DEF ServeList, ListDone, ListFails, Dismiss, AskFor, vars, listVars, detailVars
<1>. QED BY <1>1 DEF DetailIInv, Pending, CallsOf

\* Every step.
LEMMA NextDetail ==
    ASSUME CacheAssumption, Typed, DetailIInv, [Next]_vars
    PROVE  DetailIInv'
BY PagesDetail, ConfirmDetail, CreateDetail, ApplyDetail, SettleDetail, FetchesDetail, OthersDetail
   DEF Next

\* For any subscribers and calls, and an owner who leaves pages as he likes: when no call or
\* load of a subscriber is under way the badge of the detail page shows what the server has,
\* unless the subscriber's calls overlapped each other or a load, or an answer was lost
\* (use-subscriber-mutations.ts, whose rollbacks nothing refetches).
THEOREM BadgesAreRight == Spec => []BadgeSettles
<1>. USE SubscribersAssumption DEF SubscribersAssumption
<1>1. Init => Typed /\ DetailIInv
  BY InitTyped, InitDetail
<1>2. Typed /\ DetailIInv /\ [Next]_vars => (Typed /\ DetailIInv)'
  BY NextTyped, NextDetail
<1>3. Typed /\ DetailIInv => BadgeSettles
  BY DEF BadgeSettles, Typed, DetailIInv, DetailSettles, Idle
<1>. QED BY <1>1, <1>2, <1>3, PTL DEF Spec
=============================================================================
