--------------------------- MODULE Operario_proofs ---------------------------
(***************************************************************************)
(* Proofs about the operator's screens, for any bookings, cars, cards, tabs *)
(* and calls and without bounds that matter: first about each screen, by    *)
(* the inductive invariant its module states, and then about MCOperario,    *)
(* whose runs are those of one screen each.                                 *)
(***************************************************************************)
EXTENDS MCOperario, FiniteSetTheorems, TLAPS

-----------------------------------------------------------------------------
(***************************************************************************)
(* The board: KanbanBoard.                                                  *)
(***************************************************************************)
\* A board that is mounted shows the server's data or is fetching it.
LEMMA InitIInv == Init => IInv
<1> SUFFICES ASSUME Init PROVE IInv
  OBVIOUS
<1>1. server \in Columns /\ cache \in Columns
  BY DEF Init
<1>2. fetch \in {[pc |-> "none"], [pc |-> "sent"]}
  BY DEF Init
<1>3. fetch \in Fetch /\ fetch.pc # "answered"
  BY <1>2 DEF Fetch
<1>4. moves \in [Request -> Move]
  BY DEF Init, Move
<1>5. drag \in [booking : Booking \cup {NoBooking}, over : Over,
                pc : {"none", "dragging", "dropped", "cancelled"}] /\ drag.pc = "none"
  BY DEF Init, Over
<1>6. used \in [drags : Nat, foreign : Nat, failures : Nat]
  BY DEF Init
<1>7. fetch.pc = "none" => cache = server
  BY DEF Init
<1>8. event = FALSE /\ lag = {}
  BY DEF Init
<1>. QED BY <1>1, <1>3, <1>4, <1>5, <1>6, <1>7, <1>8 DEF IInv, TypeOK, SettledAgrees, AnswerFresh

-----------------------------------------------------------------------------
\* Sending a request is typed, and puts it in flight.
LEMMA MutateFacts ==
    ASSUME TypeOK, NEW r \in Request, NEW b \in Booking, NEW to \in KANBAN_COLUMNS,
           Mutate(r, b, to)
    PROVE  /\ moves' \in [Request -> Move] /\ cache' \in Columns /\ fetch' \in Fetch
           /\ fetch'.pc = "none" /\ InFlight' # {}
<1>1. cache \in Columns /\ moves \in [Request -> Move]
  BY DEF TypeOK
<1>2. [pc |-> "sent", booking |-> b, to |-> to, previous |-> cache] \in Move
  BY <1>1 DEF Move
<1>3. moves' \in [Request -> Move] /\ moves'[r].pc = "sent"
  BY <1>1, <1>2 DEF Mutate
<1>4. cache' \in Columns
  BY <1>1 DEF Mutate, Columns
<1>5. r \in InFlight'
  BY <1>3 DEF InFlight
<1>6. fetch' \in Fetch /\ fetch'.pc = "none"
  BY DEF Mutate, Fetch
<1>. QED BY <1>3, <1>4, <1>5, <1>6

\* A step that leaves a request in flight owes nothing but types.
LEMMA BusyIInv ==
    ASSUME TypeOK', InFlight' # {} \/ fetch'.pc = "sent"
    PROVE  IInv'
<1>1. CASE InFlight' # {}
  BY <1>1 DEF IInv, SettledAgrees, AnswerFresh
<1>2. CASE fetch'.pc = "sent"
  BY <1>2 DEF IInv, SettledAgrees, AnswerFresh
<1>. QED BY <1>1, <1>2

\* The record of a request in flight has a booking, a target and a snapshot.
LEMMA InFlightMove ==
    ASSUME TypeOK, NEW r \in Request, moves[r].pc \in {"sent", "applied", "refused"}
    PROVE  moves[r] \in [pc : {"sent", "applied", "refused"}, booking : Booking,
                         to : KANBAN_COLUMNS, previous : Columns]
BY DEF TypeOK, Move

\* A settled request's record, and a fetch newly sent, are typed.
LEMMA SettleFacts ==
    ASSUME TypeOK, NEW r \in Request, moves' = [moves EXCEPT ![r] = [pc |-> "done"]],
           Invalidate
    PROVE  /\ moves' \in [Request -> Move] /\ fetch' \in Fetch
           /\ fetch'.pc = "sent" /\ lag' \subseteq {"dragged", "missed"}
BY DEF TypeOK, Invalidate, Move, Fetch

\* A button of a card starts a request.
LEMMA PressIInv ==
    ASSUME IInv, NEW r \in Request, NEW b \in Booking, Press(r, b)
    PROVE  IInv'
<1>1. TypeOK
  BY DEF IInv
<1>2. PICK to \in KANBAN_COLUMNS : Mutate(r, b, to)
  BY DEF Press, NewStatus, KANBAN_COLUMNS
<1>3. TypeOK' /\ InFlight' # {}
  BY <1>1, <1>2, MutateFacts DEF Press, TypeOK
<1>. QED BY <1>3, BusyIInv

\* The server carries a request out; the answers made before are of an older board.
LEMMA ApplyIInv ==
    ASSUME IInv, NEW r \in Request, Apply(r)
    PROVE  IInv'
<1>. USE DEF Apply
<1>1. TypeOK /\ moves[r] \in [pc : {"sent", "applied", "refused"}, booking : Booking,
                              to : KANBAN_COLUMNS, previous : Columns]
  BY InFlightMove DEF IInv
<1>2. server' \in Columns
  BY <1>1 DEF TypeOK, Columns
<1>3. [moves[r] EXCEPT !.pc = "applied"] \in Move
  BY <1>1 DEF Move
<1>4. moves' \in [Request -> Move] /\ moves'[r].pc = "applied"
  BY <1>1, <1>3 DEF TypeOK
<1>5. r \in InFlight'
  BY <1>4 DEF InFlight
<1>6. TypeOK'
  BY <1>1, <1>2, <1>4 DEF TypeOK
<1>. QED BY <1>5, <1>6, BusyIInv

\* The server refuses a request, and its board stays.
LEMMA RefuseIInv ==
    ASSUME IInv, NEW r \in Request, Refuse(r)
    PROVE  IInv'
<1>. USE DEF Refuse
<1>1. TypeOK /\ moves[r] \in [pc : {"sent", "applied", "refused"}, booking : Booking,
                              to : KANBAN_COLUMNS, previous : Columns]
  BY InFlightMove DEF IInv
<1>2. [moves[r] EXCEPT !.pc = "refused"] \in Move
  BY <1>1 DEF Move
<1>3. moves' \in [Request -> Move] /\ moves'[r].pc = "refused"
  BY <1>1, <1>2 DEF TypeOK
<1>4. r \in InFlight'
  BY <1>3 DEF InFlight
<1>5. TypeOK'
  BY <1>1, <1>3 DEF TypeOK
<1>. QED BY <1>4, <1>5, BusyIInv

\* Both ways a request settles end in a fetch.
LEMMA SettleIInv ==
    ASSUME IInv, NEW r \in Request, Succeed(r) \/ Fail(r)
    PROVE  IInv'
<1>1. TypeOK
  BY DEF IInv
<1>2. cache' \in Columns
  <2>1. CASE Succeed(r)
    BY <1>1, <2>1 DEF Succeed, TypeOK
  <2>2. CASE Fail(r)
    BY <1>1, <2>2, InFlightMove DEF Fail
  <2>. QED BY <2>1, <2>2
<1>3. moves' = [moves EXCEPT ![r] = [pc |-> "done"]] /\ Invalidate
      /\ UNCHANGED <<server, drag, event, used>>
  BY DEF Succeed, Fail
<1>4. TypeOK' /\ fetch'.pc = "sent"
  BY <1>1, <1>2, <1>3, SettleFacts DEF TypeOK
<1>. QED BY <1>4, BusyIInv

-----------------------------------------------------------------------------
\* Dragging writes the cache only with the lag on record.
LEMMA DragIInv ==
    ASSUME IInv, (\E b \in Booking : DragStart(b)) \/ (\E o \in Over : DragOver(o))
                 \/ (\E r \in Request : DragEnd(r)) \/ DragCancel
    PROVE  IInv'
<1>1. TypeOK
  BY DEF IInv
<1>2. ASSUME NEW b \in Booking, DragStart(b) PROVE IInv'
  <2>1. drag' \in [booking : Booking \cup {NoBooking}, over : Over,
                   pc : {"none", "dragging", "dropped", "cancelled"}]
        /\ drag'.booking \in Booking
    BY <1>1, <1>2 DEF DragStart, TypeOK, Columns, Over
  <2>2. used' \in [drags : Nat, foreign : Nat, failures : Nat]
    BY <1>1, <1>2 DEF DragStart, TypeOK
  <2>. QED BY <1>2, <2>1, <2>2
           DEF DragStart, IInv, TypeOK, SettledAgrees, AnswerFresh, InFlight
<1>3. ASSUME NEW o \in Over, DragOver(o) PROVE IInv'
  <2>1. drag' \in [booking : Booking \cup {NoBooking}, over : Over,
                   pc : {"none", "dragging", "dropped", "cancelled"}]
        /\ drag'.booking \in Booking
    BY <1>1, <1>3 DEF DragOver, TypeOK
  <2>2. cache' \in Columns /\ lag' \subseteq {"dragged", "missed"}
    BY <1>1, <1>3 DEF DragOver, TypeOK, Columns
  <2>3. TypeOK'
    BY <1>1, <1>3, <2>1, <2>2 DEF DragOver, TypeOK
  <2>4. (lag' = {} => UNCHANGED <<cache, lag>>)
        /\ ("missed" \notin lag' => "missed" \notin lag)
    BY <1>3 DEF DragOver
  <2>. QED BY <1>3, <2>3, <2>4 DEF DragOver, IInv, SettledAgrees, AnswerFresh, InFlight
<1>4. ASSUME NEW r \in Request, DragEnd(r) PROVE IInv'
  <2>1. drag' \in [booking : Booking \cup {NoBooking}, over : Over,
                   pc : {"none", "dragging", "dropped", "cancelled"}]
        /\ drag'.pc = "dropped"
    BY <1>1, <1>4 DEF DragEnd, TypeOK
  <2>2. CASE drag.over \in KANBAN_COLUMNS /\ cache[drag.booking] # drag.over
    <3>1. Mutate(r, drag.booking, drag.over) /\ drag.booking \in Booking
      BY <1>1, <1>4, <2>2 DEF DragEnd, TypeOK
    <3>2. TypeOK' /\ InFlight' # {}
      BY <1>1, <1>4, <2>1, <2>2, <3>1, MutateFacts DEF DragEnd, TypeOK
    <3>. QED BY <3>2, BusyIInv
  <2>3. CASE ~(drag.over \in KANBAN_COLUMNS /\ cache[drag.booking] # drag.over)
    BY <1>4, <2>1, <2>3 DEF DragEnd, IInv, TypeOK, SettledAgrees, AnswerFresh, InFlight
  <2>. QED BY <2>2, <2>3
<1>5. CASE DragCancel
  <2>1. drag' \in [booking : Booking \cup {NoBooking}, over : Over,
                   pc : {"none", "dragging", "dropped", "cancelled"}]
        /\ drag'.pc = "cancelled"
    BY <1>1, <1>5 DEF DragCancel, TypeOK
  <2>. QED BY <1>5, <2>1 DEF DragCancel, IInv, TypeOK, SettledAgrees, AnswerFresh, InFlight
<1>. QED BY <1>2, <1>3, <1>4, <1>5

-----------------------------------------------------------------------------
\* A fetch is answered with what the server has; showing the answer agrees with it.
LEMMA FetchIInv ==
    ASSUME IInv, ServeFetch \/ FetchDone \/ FetchFails \/ OnEvent
    PROVE  IInv'
<1>1. TypeOK
  BY DEF IInv
<1>2. CASE ServeFetch
  <2>1. fetch' \in Fetch /\ fetch'.pc = "answered" /\ fetch'.data = server
    BY <1>1, <1>2 DEF ServeFetch, TypeOK, Fetch
  <2>. QED BY <1>2, <2>1 DEF ServeFetch, IInv, TypeOK, SettledAgrees, AnswerFresh, InFlight
<1>3. CASE FetchDone
  <2>1. fetch.data \in Columns
    BY <1>1, <1>3 DEF FetchDone, TypeOK, Fetch
  <2>2. fetch' \in Fetch /\ fetch'.pc = "none" /\ lag' \subseteq {"dragged", "missed"}
    BY <1>1, <1>3 DEF FetchDone, TypeOK, Fetch
  <2>3. TypeOK'
    BY <1>1, <1>3, <2>1, <2>2 DEF FetchDone, TypeOK
  <2>4. lag' = {} => "missed" \notin lag
    BY <1>3 DEF FetchDone
  <2>. QED BY <1>3, <2>2, <2>3, <2>4 DEF FetchDone, IInv, SettledAgrees, AnswerFresh, InFlight
<1>4. CASE FetchFails
  <2>1. fetch' \in Fetch /\ fetch'.pc = "none" /\ "missed" \in lag'
        /\ lag' \subseteq {"dragged", "missed"}
    BY <1>1, <1>4 DEF FetchFails, TypeOK, Fetch
  <2>2. used' \in [drags : Nat, foreign : Nat, failures : Nat]
    BY <1>1, <1>4 DEF FetchFails, TypeOK
  <2>. QED BY <1>4, <2>1, <2>2 DEF FetchFails, IInv, TypeOK, SettledAgrees, AnswerFresh
<1>5. CASE OnEvent
  <2>1. TypeOK' /\ fetch'.pc = "sent"
    BY <1>1, <1>5 DEF OnEvent, Invalidate, TypeOK, Fetch
  <2>. QED BY <2>1, BusyIInv
<1>. QED BY <1>2, <1>3, <1>4, <1>5

\* Another operator's move is announced, or the lag is on record.
LEMMA ForeignIInv ==
    ASSUME IInv, NEW b \in Booking, NEW to \in KANBAN_COLUMNS, ForeignMove(b, to)
    PROVE  IInv'
<1>. USE DEF ForeignMove
<1>1. server' \in Columns
  BY DEF IInv, TypeOK, Columns
<1>2. used' \in [drags : Nat, foreign : Nat, failures : Nat]
  BY DEF IInv, TypeOK
<1>3. event' = TRUE \/ "missed" \in lag'
  OBVIOUS
<1>4. event' \in BOOLEAN /\ lag' \subseteq {"dragged", "missed"}
  BY DEF IInv, TypeOK
<1>5. TypeOK'
  BY <1>1, <1>2, <1>4 DEF IInv, TypeOK
<1>. QED BY <1>3, <1>5 DEF IInv, SettledAgrees, AnswerFresh

\* Every step of the board.
LEMMA NextIInv == IInv /\ [Next]_vars => IInv'
<1> SUFFICES ASSUME IInv, [Next]_vars PROVE IInv'
  OBVIOUS
<1>1. CASE UNCHANGED vars
  BY <1>1 DEF vars, IInv, TypeOK, SettledAgrees, AnswerFresh, InFlight
<1>2. CASE Next
  BY <1>2, PressIInv, ApplyIInv, RefuseIInv, SettleIInv, DragIInv, FetchIInv, ForeignIInv
     DEF Next
<1>. QED BY <1>1, <1>2

\* The strengthening of SettledAgrees is invariant.
THEOREM BoardInvariant == Spec => []IInv
BY InitIInv, NextIInv, PTL DEF Spec

\* A board at rest shows what the server has (kanban-board.tsx, statusMutation), except
\* for a drag that sent nothing and a change nobody announced.
THEOREM BoardSettles == Spec => []SettledAgrees
<1>1. IInv => SettledAgrees
  BY DEF IInv
<1>. QED BY <1>1, BoardInvariant, PTL

-----------------------------------------------------------------------------
(***************************************************************************)
(* The header: HighContrast.                                                *)
(***************************************************************************)
\* Before a header is there, no document has the class.
LEMMA HeaderInit == Header!Init => Header!IInv
BY DEF Header!Init, Header!IInv, Header!ButtonSaysTheme

\* Every step of a header preserves its invariant.
LEMMA HeaderStep == Header!IInv /\ [Header!Next]_headerVars => Header!IInv'
<1> SUFFICES ASSUME Header!IInv, [Header!Next]_headerVars PROVE Header!IInv'
  OBVIOUS
<1>. USE DEF Header!IInv, Header!ButtonSaysTheme
<1>1. ASSUME NEW t \in Tab, Header!Mount(t) PROVE Header!IInv'
  BY <1>1, Zenon DEF Header!Mount
<1>2. ASSUME NEW t \in Tab, Header!Unmount(t) PROVE Header!IInv'
  BY <1>2 DEF Header!Unmount
<1>3. ASSUME NEW t \in Tab, Header!Reload(t) PROVE Header!IInv'
  BY <1>3 DEF Header!Reload
<1>4. ASSUME NEW t \in Tab, Header!Toggle(t) PROVE Header!IInv'
  BY <1>4 DEF Header!Toggle
<1>5. CASE UNCHANGED headerVars
  BY <1>5 DEF headerVars
<1>. QED BY <1>1, <1>2, <1>3, <1>4, <1>5 DEF Header!Next

-----------------------------------------------------------------------------
(***************************************************************************)
(* The problem modal: ProblemReport.                                        *)
(***************************************************************************)
\* A modal that is closed and empty keeps the invariant's promises.
LEMMA ModalInit == ASSUME Modal!ReportAssumption, Modal!Init PROVE Modal!IInv
<1>. USE DEF Modal!ReportAssumption, Modal!Init
<1>1. report.pc = "idle" /\ report = Modal!Idle
  BY DEF Modal!Idle
<1>2. Modal!TypeOK
  <2>1. sent \in 0..MaxReports
    OBVIOUS
  <2>2. notes \subseteq Card /\ left \subseteq Card /\ stored \subseteq Modal!Report
    OBVIOUS
  <2>3. loading \in BOOLEAN
    OBVIOUS
  <2>. QED BY <2>1, <2>2, <2>3 DEF Modal!TypeOK
<1>3. Modal!AboutItsBooking
  BY DEF Modal!AboutItsBooking
<1>. QED BY <1>1, <1>2, <1>3 DEF Modal!IInv

\* Every step of the modal preserves its invariant: text that does not belong to the card
\* the modal is open for has been left there, or goes with an answer.
LEMMA ModalStep ==
    ASSUME Modal!ReportAssumption, Modal!IInv, [Modal!Next]_modalVars
    PROVE  Modal!IInv'
<1>. USE DEF Modal!IInv, Modal!TypeOK, Modal!AboutItsBooking, Modal!Report
<1>1. report # Modal!Idle =>
        report.booking \in Card /\ report.notes \subseteq {report.booking} \cup report.left
  OBVIOUS
<1>2. report.pc \in {"sent", "stored"} => report # Modal!Idle
  BY DEF Modal!Idle
<1>3. ASSUME NEW b \in Card, Modal!OpenFor(b) PROVE Modal!IInv'
  <2>1. notes \subseteq left
    BY <1>3 DEF Modal!OpenFor, Modal!ReportAssumption
  <2>. QED BY <1>3, <2>1 DEF Modal!OpenFor
<1>4. CASE Modal!Type
  BY <1>4 DEF Modal!Type
<1>5. CASE Modal!Dismiss
  BY <1>5 DEF Modal!Dismiss
<1>6. CASE Modal!HandleSubmit
  <2>1. notes \subseteq {problemBookingId} \cup left /\ problemBookingId \in Card
    BY <1>6 DEF Modal!HandleSubmit
  <2>2. sent' \in 0..MaxReports
    BY <1>6 DEF Modal!HandleSubmit, Modal!ReportAssumption
  <2>3. report' \in [pc : {"sent", "stored"}, booking : Card, notes : SUBSET Card, left : SUBSET Card]
        /\ report'.notes \subseteq {report'.booking} \cup report'.left
    BY <1>6, <2>1 DEF Modal!HandleSubmit
  <2>. QED BY <1>6, <2>1, <2>2, <2>3 DEF Modal!HandleSubmit
<1>7. CASE Modal!Store
  <2>1. report # Modal!Idle
    BY <1>2, <1>7 DEF Modal!Store
  <2>2. report' \in [pc : {"sent", "stored"}, booking : Card, notes : SUBSET Card, left : SUBSET Card]
        /\ report'.notes \subseteq {report'.booking} \cup report'.left
    BY <1>1, <1>7, <2>1 DEF Modal!Store
  <2>3. stored' \subseteq [booking : Card, notes : SUBSET Card, left : SUBSET Card]
        /\ \A r \in stored' : r.notes \subseteq {r.booking} \cup r.left
    BY <1>1, <1>7, <2>1 DEF Modal!Store
  <2>. QED BY <1>7, <2>2, <2>3 DEF Modal!Store
<1>8. CASE Modal!Resolve
  BY <1>8 DEF Modal!Resolve
<1>9. CASE Modal!Reject
  BY <1>9 DEF Modal!Reject
<1>10. CASE UNCHANGED modalVars
  BY <1>10 DEF modalVars
<1>. QED BY <1>3, <1>4, <1>5, <1>6, <1>7, <1>8, <1>9, <1>10 DEF Modal!Next

-----------------------------------------------------------------------------
(***************************************************************************)
(* The check-in: CheckIn.                                                   *)
(***************************************************************************)
\* The types, and that a call is about a car.
Typed == Desk!TypeOK /\ Desk!CallsHaveCars

\* A new result is typed, and keeps the histories typed.
LEMMA ShowTyped ==
    ASSUME None \notin Car, Desk!TypeOK,
           NEW r \in [type : {"active", "expired"}, car : Car] \cup [type : {"invalid"}, car : {None}],
           Desk!Show(r)
    PROVE  /\ result' \in [type : Desk!CheckInResultType, car : Car \cup {None}]
           /\ result'.type \in {"active", "expired"} => result'.car \in Car
           /\ shown' \in [Car -> Nat] /\ tapped' \in BOOLEAN /\ retaps' \in [Car -> Nat]
<1>1. result' = r /\ r \in [type : Desk!CheckInResultType, car : Car \cup {None}]
      /\ (r.type \in {"active", "expired"} => r.car \in Car)
  BY DEF Desk!Show, Desk!CheckInResultType
<1>2. shown \in [Car -> Nat]
      /\ shown' = [c \in Car |-> IF r = [type |-> "active", car |-> c] THEN shown[c] + 1 ELSE shown[c]]
  BY DEF Desk!Show, Desk!TypeOK
<1>3. tapped' \in BOOLEAN /\ retaps' \in [Car -> Nat]
  BY DEF Desk!Show, Desk!TypeOK
<1>. QED BY <1>1, <1>2, <1>3

\* What the answer to a verification, or its failure, puts on the screen.
LEMMA VerifiedShows ==
    ASSUME Typed, NEW c \in Call, Desk!Verified(c) \/ Desk!VerifyFails(c)
    PROVE  \E r \in [type : {"active", "expired"}, car : {verify[c].car}]
                    \cup [type : {"invalid"}, car : {None}] :
              verify[c].car \in Car /\ Desk!Show(r)
<1>1. verify[c].pc = "sent" /\ verify[c].car \in Car
  BY DEF Typed, Desk!Verified, Desk!VerifyFails, Desk!CallsHaveCars
<1>2. CASE Desk!Verified(c)
  BY <1>1, <1>2 DEF Desk!Verified
<1>3. CASE Desk!VerifyFails(c)
  BY <1>1, <1>3 DEF Desk!VerifyFails
<1>. QED BY <1>2, <1>3


\* A call's record in another state is one, about the same car.
LEMMA RunTyped ==
    ASSUME NEW f \in [Call -> Desk!Run], NEW c \in Call, NEW pc \in {"stored", "done"},
           f[c].car \in Car, \A d \in Call : f[d].pc # "idle" => f[d].car \in Car,
           NEW g, g = [f EXCEPT ![c].pc = pc]
    PROVE  /\ g \in [Call -> Desk!Run]
           /\ \A d \in Call : g[d].pc # "idle" => g[d].car \in Car
           /\ g[c] = [pc |-> pc, car |-> f[c].car] /\ \A d \in Call \ {c} : g[d] = f[d]
<1>1. f[c] \in Desk!Run
  OBVIOUS
<1>2. [f[c] EXCEPT !.pc = pc] = [pc |-> pc, car |-> f[c].car]
  BY <1>1 DEF Desk!Run
<1>3. [pc |-> pc, car |-> f[c].car] \in Desk!Run
  BY DEF Desk!Run
<1>4. g = [f EXCEPT ![c] = [pc |-> pc, car |-> f[c].car]]
  BY <1>2
<1>. QED BY <1>3, <1>4

\* A registration that moves on stays about its car, and the others stay as they are.
LEMMA RegistrationMoves ==
    ASSUME Typed, NEW c \in Call, NEW pc \in {"stored", "done"}, register[c].pc # "idle",
           register' = [register EXCEPT ![c].pc = pc]
    PROVE  /\ register[c].car \in Car
           /\ register'[c] = [pc |-> pc, car |-> register[c].car]
           /\ \A d \in Call \ {c} : register'[d] = register[d]
<1>1. register \in [Call -> Desk!Run] /\ \A d \in Call : register[d].pc # "idle" => register[d].car \in Car
  BY DEF Typed, Desk!TypeOK, Desk!CallsHaveCars
<1>2. register[c] \in Desk!Run /\ register[c].car \in Car
  BY <1>1
<1>3. [register[c] EXCEPT !.pc = pc] = [pc |-> pc, car |-> register[c].car]
  BY <1>2 DEF Desk!Run
<1>4. register' = [register EXCEPT ![c] = [pc |-> pc, car |-> register[c].car]]
  BY <1>3
<1>. QED BY <1>1, <1>2, <1>4

\* Every step of every operator keeps the types.
LEMMA CheckInTyped ==
    ASSUME None \notin Car, Typed, [Desk!Next]_checkInVars
    PROVE  Typed'
<1>. USE DEF Typed, Desk!TypeOK, Desk!CallsHaveCars
<1>1. ASSUME NEW c \in Car, Desk!NextCar(c) PROVE Typed'
  BY <1>1 DEF Desk!NextCar, Desk!callVars, Desk!serverVars, Desk!tapVars
<1>2. ASSUME NEW t \in {"plate", "qr"}, Desk!SetTab(t) PROVE Typed'
  BY <1>2 DEF Desk!SetTab, Desk!callVars, Desk!serverVars, Desk!tapVars
<1>3. ASSUME NEW c \in Call, Desk!HandleQRScan(c) PROVE Typed'
  <2>1. verify' = [verify EXCEPT ![c] = [pc |-> "sent", car |-> front]] /\ front \in Car
    BY <1>3 DEF Desk!HandleQRScan
  <2>2. [pc |-> "sent", car |-> front] \in Desk!Run
    BY <2>1 DEF Desk!Run
  <2>3. verify' \in [Call -> Desk!Run] /\ \A d \in Call : verify'[d].pc # "idle" => verify'[d].car \in Car
    BY <2>1, <2>2
  <2>. QED BY <1>3, <2>3 DEF Desk!HandleQRScan, Desk!serverVars, Desk!tapVars
<1>4. ASSUME NEW c \in Call, Desk!Verified(c) \/ Desk!VerifyFails(c) PROVE Typed'
  <2>1. verify' = [verify EXCEPT ![c].pc = "done"] /\ verify[c].car \in Car
    BY <1>4 DEF Desk!Verified, Desk!VerifyFails
  <2>2. verify' \in [Call -> Desk!Run] /\ \A d \in Call : verify'[d].pc # "idle" => verify'[d].car \in Car
    BY <2>1, RunTyped
  <2>3. PICK r \in [type : {"active", "expired"}, car : {verify[c].car}]
                   \cup [type : {"invalid"}, car : {None}] :
               verify[c].car \in Car /\ Desk!Show(r)
    BY <1>4, VerifiedShows
  <2>4. /\ result' \in [type : Desk!CheckInResultType, car : Car \cup {None}]
        /\ result'.type \in {"active", "expired"} => result'.car \in Car
        /\ shown' \in [Car -> Nat] /\ tapped' \in BOOLEAN /\ retaps' \in [Car -> Nat]
    BY <2>3, ShowTyped
  <2>5. UNCHANGED <<front, tab, register, member, today, washes>>
    BY <1>4 DEF Desk!Verified, Desk!VerifyFails, Desk!serverVars
  <2>. QED BY <2>2, <2>4, <2>5
<1>5. CASE Desk!HandlePlateSelect
  <2>1. Desk!Show([type |-> "active", car |-> front])
    BY <1>5 DEF Desk!HandlePlateSelect
  <2>2. /\ result' \in [type : Desk!CheckInResultType, car : Car \cup {None}]
        /\ result'.type \in {"active", "expired"} => result'.car \in Car
        /\ shown' \in [Car -> Nat] /\ tapped' \in BOOLEAN /\ retaps' \in [Car -> Nat]
    BY <2>1, ShowTyped
  <2>. QED BY <1>5, <2>2 DEF Desk!HandlePlateSelect, Desk!callVars, Desk!serverVars
<1>6. ASSUME NEW c \in Call, Desk!HandleRegisterWash(c) PROVE Typed'
  <2>1. result.car \in Car
    BY <1>6 DEF Desk!HandleRegisterWash, Desk!RegisterButton
  <2>2. register' = [register EXCEPT ![c] = [pc |-> "sent", car |-> result.car]]
    BY <1>6 DEF Desk!HandleRegisterWash
  <2>3. [pc |-> "sent", car |-> result.car] \in Desk!Run
    BY <2>1 DEF Desk!Run
  <2>4. register' \in [Call -> Desk!Run] /\ \A d \in Call : register'[d].pc # "idle" => register'[d].car \in Car
    BY <2>1, <2>2, <2>3
  <2>5. tapped' \in BOOLEAN /\ retaps' \in [Car -> Nat]
    BY <1>6, <2>1 DEF Desk!HandleRegisterWash
  <2>. QED BY <1>6, <2>4, <2>5 DEF Desk!HandleRegisterWash, Desk!serverVars
<1>7. ASSUME NEW c \in Call, Desk!Store(c) \/ Desk!Registered(c) \/ Desk!RegisterFails(c) PROVE Typed'
  <2>1. register[c].car \in Car
    BY <1>7 DEF Desk!Store, Desk!Registered, Desk!RegisterFails
  <2>2. PICK pc \in {"stored", "done"} : register' = [register EXCEPT ![c].pc = pc]
    BY <1>7 DEF Desk!Store, Desk!Registered, Desk!RegisterFails
  <2>3. register' \in [Call -> Desk!Run] /\ \A d \in Call : register'[d].pc # "idle" => register'[d].car \in Car
    BY <2>1, <2>2, RunTyped
  <2>4. washes' \in [Car -> Nat]
    BY <1>7, <2>1 DEF Desk!Store, Desk!Registered, Desk!RegisterFails, Desk!serverVars
  <2>5. UNCHANGED <<member, today, front, tab, verify, shown, retaps>>
        /\ result' \in {result, Desk!NoResult} /\ tapped' \in {tapped, FALSE}
    BY <1>7 DEF Desk!Store, Desk!Registered, Desk!RegisterFails, Desk!Clear, Desk!serverVars, Desk!tapVars
  <2>6. result' \in [type : Desk!CheckInResultType, car : Car \cup {None}] \cup {Desk!NoResult}
        /\ (result'.type \in {"active", "expired"} => result'.car \in Car)
    BY <2>5 DEF Desk!NoResult
  <2>7. tapped' \in BOOLEAN
    BY <2>5
  <2>. QED BY <2>3, <2>4, <2>5, <2>6, <2>7
<1>8. CASE Desk!HandleReset
  BY <1>8 DEF Desk!HandleReset, Desk!Clear, Desk!NoResult, Desk!callVars, Desk!serverVars
<1>9. CASE UNCHANGED checkInVars
  BY <1>9 DEF checkInVars
<1>. QED BY <1>1, <1>2, <1>3, <1>4, <1>5, <1>6, <1>7, <1>8, <1>9 DEF Desk!Next

-----------------------------------------------------------------------------
\* The instance has the operators of FiniteSets under names of its own.
LEMMA SameCardinality == ASSUME NEW S PROVE Desk!Cardinality(S) = Cardinality(S)
BY DEF Desk!Cardinality, Cardinality

\* The same of finiteness.
LEMMA SameFinite == ASSUME NEW S PROVE Desk!IsFiniteSet(S) <=> IsFiniteSet(S)
BY DEF Desk!IsFiniteSet, IsFiniteSet

\* What the inequality of OneWashIInv is about are natural numbers.
LEMMA Counts ==
    ASSUME Typed, IsFiniteSet(Call), NEW car \in Car
    PROVE  /\ IsFiniteSet(Desk!Sent(car)) /\ Cardinality(Desk!Sent(car)) \in Nat
           /\ washes[car] \in Nat /\ shown[car] \in Nat /\ retaps[car] \in Nat
           /\ Desk!Fresh(car) \in {0, 1}
<1>1. Desk!Sent(car) \subseteq Call
  BY DEF Desk!Sent
<1>2. IsFiniteSet(Desk!Sent(car)) /\ Cardinality(Desk!Sent(car)) \in Nat
  BY <1>1, FS_Subset, FS_CardinalityType
<1>3. washes[car] \in Nat /\ shown[car] \in Nat /\ retaps[car] \in Nat
  BY DEF Typed, Desk!TypeOK
<1>4. Desk!Fresh(car) \in {0, 1}
  BY DEF Desk!Fresh
<1>. QED BY <1>2, <1>3, <1>4

\* The inductive invariant says that washes are paid for.
LEMMA WashesArePaidFor ==
    ASSUME Desk!OneWashIInv, IsFiniteSet(Call)
    PROVE  Desk!OneWashPerScreen
<1> SUFFICES ASSUME NEW car \in Car PROVE washes[car] <= shown[car] + retaps[car]
  BY DEF Desk!OneWashPerScreen
<1>1. washes[car] + Cardinality(Desk!Sent(car)) + Desk!Fresh(car) <= shown[car] + retaps[car]
  BY SameCardinality DEF Desk!OneWashIInv
<1>. QED BY <1>1, Counts DEF Typed, Desk!OneWashIInv

\* A check-in begins without calls, showings and washes.
LEMMA DeskInit == ASSUME Desk!CheckInAssumption, Desk!Init PROVE Desk!OneWashIInv
<1>. USE DEF Desk!CheckInAssumption, Desk!Init, Desk!NoResult
<1>1. Desk!CallsHaveCars /\ \A c \in Call : register[c].pc = "idle"
  BY DEF Desk!CallsHaveCars
<1>2. Desk!TypeOK
  BY DEF Desk!TypeOK, Desk!Run
<1>3. ASSUME NEW car \in Car
      PROVE  washes[car] + Cardinality(Desk!Sent(car)) + Desk!Fresh(car) <= shown[car] + retaps[car]
  <2>1. Desk!Sent(car) = {} /\ Cardinality({}) = 0
    BY <1>1, FS_EmptySet DEF Desk!Sent
  <2>2. Desk!Fresh(car) = 0
    BY DEF Desk!Fresh
  <2>. QED BY <2>1, <2>2
<1>4. ASSUME NEW car \in Car
      PROVE  washes[car] + Desk!Cardinality(Desk!Sent(car)) + Desk!Fresh(car) <= shown[car] + retaps[car]
  BY <1>3, SameCardinality
<1>. HIDE DEF Desk!CheckInAssumption, Desk!Init, Desk!NoResult
<1>. QED BY <1>1, <1>2, <1>4 DEF Desk!OneWashIInv

\* Every step of the check-in preserves the invariant: a first tap uses the showing of its
\* screen up, a further one counts itself, and a call becomes one wash at most.
LEMMA DeskStep ==
    ASSUME Desk!CheckInAssumption, Desk!OneWashIInv, [Desk!Next]_checkInVars
    PROVE  Desk!OneWashIInv'
<1>. DEFINE Sent(car) == Cardinality(Desk!Sent(car))
            Paid(car) == washes[car] + Sent(car) + Desk!Fresh(car) <= shown[car] + retaps[car]
<1>1. Typed /\ IsFiniteSet(Call) /\ None \notin Car /\ \A car \in Car : Paid(car)
  BY SameCardinality, SameFinite DEF Desk!CheckInAssumption, Desk!OneWashIInv, Typed
<1>2. Typed'
  BY <1>1, CheckInTyped
<1>3. ASSUME NEW car \in Car PROVE Paid(car)'
  <2>1. /\ Desk!Fresh(car) \in {0, 1} /\ Desk!Fresh(car)' \in {0, 1}
        /\ Sent(car) \in Nat /\ Sent(car)' \in Nat /\ IsFiniteSet(Desk!Sent(car))
        /\ washes[car] \in Nat /\ shown[car] \in Nat /\ retaps[car] \in Nat
        /\ washes'[car] \in Nat /\ shown'[car] \in Nat /\ retaps'[car] \in Nat
    <3>1. Desk!Fresh(car)' \in {0, 1}
      BY DEF Desk!Fresh
    <3>2. Desk!Sent(car)' \subseteq Call
      BY DEF Desk!Sent
    <3>3. Sent(car)' \in Nat
      BY <1>1, <3>2, FS_Subset, FS_CardinalityType
    <3>4. washes'[car] \in Nat /\ shown'[car] \in Nat /\ retaps'[car] \in Nat
      BY <1>2 DEF Typed, Desk!TypeOK
    <3>. QED BY <1>1, <3>1, <3>3, <3>4, Counts
  <2>. HIDE DEF Sent
  <2>2. Paid(car)
    BY <1>1
  <2>3. /\ register \in [Call -> Desk!Run]
        /\ \A c \in Call : register[c].pc # "idle" => register[c].car \in Car
        /\ result.type = "active" => result.car \in Car
        /\ tapped \in BOOLEAN /\ retaps \in [Car -> Nat] /\ washes \in [Car -> Nat]
    BY <1>1 DEF Typed, Desk!TypeOK, Desk!CallsHaveCars
  <2>4. register' = register => Sent(car)' = Sent(car)
    BY DEF Sent, Desk!Sent
  <2>5. ASSUME NEW r \in [type : {"active", "expired"}, car : Car] \cup [type : {"invalid"}, car : {None}],
               Desk!Show(r), UNCHANGED <<register, washes>>
        PROVE  Paid(car)'
    <3>1. shown'[car] = IF r = [type |-> "active", car |-> car] THEN shown[car] + 1 ELSE shown[car]
      BY <2>5 DEF Desk!Show
    <3>2. Desk!Fresh(car)' = IF r = [type |-> "active", car |-> car] THEN 1 ELSE 0
      BY <2>5 DEF Desk!Show, Desk!Fresh
    <3>3. retaps' = retaps
      BY <2>5 DEF Desk!Show
    <3>. QED BY <2>1, <2>2, <2>4, <2>5, <3>1, <3>2, <3>3
  <2>6. ASSUME UNCHANGED <<register, shown, retaps, washes>>,
               UNCHANGED <<result, tapped>> \/ result'.type = "none"
        PROVE  Paid(car)'
    <3>1. Desk!Fresh(car)' = Desk!Fresh(car) \/ Desk!Fresh(car)' = 0
      BY <2>6 DEF Desk!Fresh
    <3>. QED BY <2>1, <2>2, <2>4, <2>6, <3>1
  <2>7. ASSUME NEW c \in Car, Desk!NextCar(c) PROVE Paid(car)'
    BY <2>6, <2>7 DEF Desk!NextCar, Desk!callVars, Desk!serverVars, Desk!tapVars
  <2>8. ASSUME NEW t \in {"plate", "qr"}, Desk!SetTab(t) PROVE Paid(car)'
    BY <2>6, <2>8 DEF Desk!SetTab, Desk!callVars, Desk!serverVars, Desk!tapVars
  <2>9. ASSUME NEW c \in Call, Desk!HandleQRScan(c) PROVE Paid(car)'
    BY <2>6, <2>9 DEF Desk!HandleQRScan, Desk!serverVars, Desk!tapVars
  <2>10. ASSUME NEW c \in Call, Desk!Verified(c) \/ Desk!VerifyFails(c) PROVE Paid(car)'
    <3>1. PICK r \in [type : {"active", "expired"}, car : {verify[c].car}]
                     \cup [type : {"invalid"}, car : {None}] :
                 verify[c].car \in Car /\ Desk!Show(r)
      BY <1>1, <2>10, VerifiedShows
    <3>2. UNCHANGED <<register, washes>>
      BY <2>10 DEF Desk!Verified, Desk!VerifyFails, Desk!serverVars
    <3>. QED BY <2>5, <3>1, <3>2
  <2>11. CASE Desk!HandlePlateSelect
    <3>1. Desk!Show([type |-> "active", car |-> front]) /\ UNCHANGED <<register, washes>> /\ front \in Car
      BY <1>1, <2>11 DEF Desk!HandlePlateSelect, Desk!callVars, Desk!serverVars, Typed, Desk!TypeOK
    <3>. QED BY <2>5, <3>1
  <2>12. ASSUME NEW c \in Call, Desk!HandleRegisterWash(c) PROVE Paid(car)'
    <3>1. /\ register[c].pc = "idle" /\ result.type = "active" /\ result.car \in Car
          /\ register' = [register EXCEPT ![c] = [pc |-> "sent", car |-> result.car]]
          /\ tapped' = TRUE
          /\ retaps' = IF tapped THEN [retaps EXCEPT ![result.car] = retaps[result.car] + 1] ELSE retaps
          /\ UNCHANGED <<result, shown, washes>>
      BY <2>3, <2>12 DEF Desk!HandleRegisterWash, Desk!RegisterButton, Desk!serverVars
    <3>2. Desk!Fresh(car)' = 0
      BY <3>1 DEF Desk!Fresh
    <3>3. CASE car = result.car
      <4>1. Desk!Sent(car)' = Desk!Sent(car) \cup {c} /\ c \notin Desk!Sent(car)
        BY <2>3, <3>1, <3>3 DEF Desk!Sent
      <4>2. Sent(car)' = Sent(car) + 1
        BY <2>1, <4>1, FS_AddElement DEF Sent
      <4>3. Desk!Fresh(car) = IF tapped THEN 0 ELSE 1
        BY <3>1, <3>3 DEF Desk!Fresh
      <4>4. retaps'[car] = IF tapped THEN retaps[car] + 1 ELSE retaps[car]
        BY <2>3, <3>1, <3>3
      <4>. QED BY <2>1, <2>2, <3>1, <3>2, <4>2, <4>3, <4>4
    <3>4. CASE car # result.car
      <4>1. Desk!Sent(car)' = Desk!Sent(car)
        BY <2>3, <3>1, <3>4 DEF Desk!Sent
      <4>2. Sent(car)' = Sent(car)
        BY <4>1 DEF Sent
      <4>3. retaps'[car] = retaps[car]
        BY <2>3, <3>1, <3>4
      <4>. QED BY <2>1, <2>2, <3>1, <3>2, <4>2, <4>3
    <3>. QED BY <3>3, <3>4
  <2>13. ASSUME NEW c \in Call, Desk!Store(c) PROVE Paid(car)'
    <3>1. /\ register[c].pc = "sent" /\ register' = [register EXCEPT ![c].pc = "stored"]
          /\ washes' = [washes EXCEPT ![register[c].car] = washes[register[c].car] + 1]
          /\ UNCHANGED <<result, tapped, shown, retaps>>
      BY <2>13 DEF Desk!Store, Desk!tapVars
    <3>2. /\ register[c].car \in Car
          /\ register'[c] = [pc |-> "stored", car |-> register[c].car]
          /\ \A d \in Call \ {c} : register'[d] = register[d]
      BY <1>1, <3>1, RegistrationMoves
    <3>3. Desk!Fresh(car)' = Desk!Fresh(car)
      BY <3>1 DEF Desk!Fresh
    <3>4. CASE car = register[c].car
      <4>1. Desk!Sent(car)' = Desk!Sent(car) \ {c} /\ c \in Desk!Sent(car)
        BY <3>1, <3>2, <3>4 DEF Desk!Sent
      <4>2. Sent(car)' = Sent(car) - 1
        BY <2>1, <4>1, FS_RemoveElement DEF Sent
      <4>3. washes'[car] = washes[car] + 1
        BY <2>3, <3>1, <3>4
      <4>. QED BY <2>1, <2>2, <3>1, <3>3, <4>2, <4>3
    <3>5. CASE car # register[c].car
      <4>1. Desk!Sent(car)' = Desk!Sent(car)
        BY <3>1, <3>2, <3>5 DEF Desk!Sent
      <4>2. Sent(car)' = Sent(car) /\ washes'[car] = washes[car]
        BY <2>3, <3>1, <3>5, <4>1 DEF Sent
      <4>. QED BY <2>1, <2>2, <3>1, <3>3, <4>2
    <3>. QED BY <3>4, <3>5
  <2>14. ASSUME NEW c \in Call, Desk!Registered(c) \/ Desk!RegisterFails(c) PROVE Paid(car)'
    <3>1. /\ register[c].pc # "idle" /\ register' = [register EXCEPT ![c].pc = "done"]
          /\ UNCHANGED <<shown, retaps, washes>>
          /\ UNCHANGED <<result, tapped>> \/ result'.type = "none"
      BY <2>14 DEF Desk!Registered, Desk!RegisterFails, Desk!Clear, Desk!NoResult,
                   Desk!serverVars, Desk!tapVars
    <3>2. /\ register'[c] = [pc |-> "done", car |-> register[c].car]
          /\ \A d \in Call \ {c} : register'[d] = register[d]
      BY <1>1, <3>1, RegistrationMoves
    <3>3. Desk!Sent(car)' = Desk!Sent(car) \ {c}
      BY <3>2 DEF Desk!Sent
    <3>4. Sent(car)' <= Sent(car)
      <4>1. Sent(car)' = IF c \in Desk!Sent(car) THEN Sent(car) - 1 ELSE Sent(car)
        BY <2>1, <3>3, FS_RemoveElement DEF Sent
      <4>. QED BY <2>1, <4>1
    <3>5. Desk!Fresh(car)' = Desk!Fresh(car) \/ Desk!Fresh(car)' = 0
      BY <3>1 DEF Desk!Fresh
    <3>. QED BY <2>1, <2>2, <3>1, <3>4, <3>5
  <2>15. CASE Desk!HandleReset
    BY <2>6, <2>15 DEF Desk!HandleReset, Desk!Clear, Desk!NoResult, Desk!callVars, Desk!serverVars
  <2>16. CASE UNCHANGED checkInVars
    BY <2>6, <2>16 DEF checkInVars
  <2>. QED BY <2>7, <2>8, <2>9, <2>10, <2>11, <2>12, <2>13, <2>14, <2>15, <2>16 DEF Desk!Next
<1>4. ASSUME NEW car \in Car
      PROVE  (washes[car] + Desk!Cardinality(Desk!Sent(car)) + Desk!Fresh(car) <= shown[car] + retaps[car])'
  <2>1. Desk!Cardinality(Desk!Sent(car)') = Cardinality(Desk!Sent(car)')
    BY SameCardinality
  <2>. QED BY <1>3, <2>1
<1>. QED BY <1>2, <1>4 DEF Desk!OneWashIInv, Typed

-----------------------------------------------------------------------------
(***************************************************************************)
(* The parts together: each run is one of a single screen, so what a screen *)
(* always keeps, MCOperario keeps of it.                                    *)
(***************************************************************************)
PartsIInv ==
    /\ part = "board" => IInv
    /\ part = "modal" => Modal!IInv
    /\ part = "desk" => Desk!OneWashIInv
    /\ part = "header" => Header!IInv
    /\ part # "board" => SettledAgrees

\* A run begins in the initial state of its screen, the other screens idle.
LEMMA PartsInit == MCInit => PartsIInv
<1> SUFFICES ASSUME MCInit PROVE PartsIInv
  OBVIOUS
<1>. USE PartsAssumption
<1>1. CASE part = "board"
  BY <1>1, InitIInv DEF MCInit, PartsIInv
<1>2. CASE part # "board"
  <2>1. BoardIdle
    BY <1>2 DEF MCInit
  <2>2. SettledAgrees
    BY <2>1 DEF BoardIdle, SettledAgrees
  <2>3. part = "modal" => Modal!IInv
    BY ModalInit, PartsAssumption DEF MCInit, PartsAssumption
  <2>5. part = "desk" => Desk!OneWashIInv
    BY DeskInit, PartsAssumption DEF MCInit, PartsAssumption
  <2>6. part = "header" => Header!IInv
    BY HeaderInit DEF MCInit
  <2>. QED BY <1>2, <2>2, <2>3, <2>5, <2>6 DEF PartsIInv
<1>. QED BY <1>1, <1>2

\* A step is one of the screen of the run; the other screens stay idle.
LEMMA PartsStep == PartsIInv /\ [MCNext]_<<part, vars, modalVars, checkInVars, headerVars>> => PartsIInv'
<1> SUFFICES ASSUME PartsIInv, [MCNext]_<<part, vars, modalVars, checkInVars, headerVars>>
             PROVE  PartsIInv'
  OBVIOUS
<1>1. part' = part
  BY DEF MCNext
<1>2. part = "board" => [Next]_vars
  BY DEF MCNext, BoardNext, ModalNext, DeskNext, HeaderNext
<1>3. part = "modal" => [Modal!Next]_modalVars
  BY DEF MCNext, BoardNext, ModalNext, DeskNext, HeaderNext
<1>5. part = "desk" => [Desk!Next]_checkInVars
  BY DEF MCNext, BoardNext, ModalNext, DeskNext, HeaderNext
<1>6. part = "header" => [Header!Next]_headerVars
  BY DEF MCNext, BoardNext, ModalNext, DeskNext, HeaderNext
<1>7. part # "board" => UNCHANGED vars
  BY DEF MCNext, BoardNext, ModalNext, DeskNext, HeaderNext
<1>8. part # "board" => SettledAgrees'
  BY <1>7 DEF PartsIInv, vars, SettledAgrees, InFlight
<1>9. part = "board" => IInv'
  BY <1>2, NextIInv DEF PartsIInv
<1>10. part = "modal" => Modal!IInv'
  BY <1>3, ModalStep, PartsAssumption DEF PartsIInv, PartsAssumption
<1>12. part = "desk" => Desk!OneWashIInv'
  BY <1>5, DeskStep, PartsAssumption DEF PartsIInv, PartsAssumption
<1>13. part = "header" => Header!IInv'
  BY <1>6, HeaderStep DEF PartsIInv
<1>. QED BY <1>1, <1>8, <1>9, <1>10, <1>12, <1>13 DEF PartsIInv

\* What each screen's module takes for its inductive invariant holds of the screens together.
THEOREM PartsInvariant == MCSpec => []PartsIInv
BY PartsInit, PartsStep, PTL DEF MCSpec

\* The same of the board among the screens: at rest it shows what the server has.
THEOREM BoardSettlesAmongScreens == MCSpec => []SettledAgrees
<1>1. PartsIInv => SettledAgrees
  BY DEF PartsIInv, IInv
<1>. QED BY <1>1, PartsInvariant, PTL

\* For any cards and any number of reports, whenever and however they are answered: what
\* the server has on record about a card was written about it, or about one at which the
\* operator closed the modal over the text (problem-modal.tsx, kanban-board.tsx).
THEOREM ReportsAboutTheirCards == MCSpec => []AboutItsBooking
<1>1. PartsIInv => AboutItsBooking
  BY DEF PartsIInv, AboutItsBooking, Modal!IInv
<1>. QED BY <1>1, PartsInvariant, PTL

\* For any cars and calls, whenever and however they are answered: no car has more washes
\* than it has been shown as active, plus the further taps of a screen that was tapped
\* before (checkin/page.tsx, handleRegisterWash).
THEOREM NoSecondWash == MCSpec => []OneWashPerScreen
<1>1. PartsIInv => OneWashPerScreen
  <2> SUFFICES ASSUME PartsIInv, part = "desk" PROVE Desk!TypeOK /\ Desk!OneWashPerScreen
    BY DEF OneWashPerScreen
  <2>1. Desk!OneWashIInv /\ IsFiniteSet(Call)
    BY PartsAssumption, SameFinite DEF PartsIInv, PartsAssumption, Desk!CheckInAssumption
  <2>. QED BY <2>1, WashesArePaidFor DEF Desk!OneWashIInv
<1>. QED BY <1>1, PartsInvariant, PTL

\* For any tabs: a header that has been there since the document was loaded says what the
\* document looks like (use-high-contrast.ts).
THEOREM HeaderTellsTheme == MCSpec => []ButtonSaysTheme
<1>1. PartsIInv => ButtonSaysTheme
  BY DEF PartsIInv, ButtonSaysTheme, Header!IInv
<1>. QED BY <1>1, PartsInvariant, PTL
=============================================================================
