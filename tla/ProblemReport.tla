--------------------------- MODULE ProblemReport ---------------------------
(***************************************************************************)
(* The problem modal of the operator's board (problem-modal.tsx and its use *)
(* in kanban-board.tsx): one modal for all cards, whose notes and spinner   *)
(* belong to the modal and not to the card it was opened for.               *)
(***************************************************************************)
EXTENDS Naturals

CONSTANTS
    Booking,        \* the cards
    None,           \* no card: the modal is closed
    MaxReports      \* reports sent

ReportAssumption == None \notin Booking /\ MaxReports \in Nat

VARIABLES
    problemBookingId,   \* the card the modal is open for
    notes,              \* the cards the text in the modal was written about
    left,               \* history: the cards at which the operator closed it over that text
    loading,            \* the button's spinner
    report,             \* the call that is under way
    stored,             \* reports the server has: a card, what was written, and left
    sent                \* reports sent so far

vars == <<problemBookingId, notes, left, loading, report, stored, sent>>

Report == [booking : Booking, notes : SUBSET Booking, left : SUBSET Booking]
Idle == [pc |-> "idle"]

Init ==
    /\ problemBookingId = None
    /\ notes = {}
    /\ left = {}
    /\ loading = FALSE
    /\ report = Idle
    /\ stored = {}
    /\ sent = 0

\* The card's problem button; the modal covers the board, so it is closed before.
OpenFor(b) ==
    /\ problemBookingId = None
    /\ problemBookingId' = b
    /\ UNCHANGED <<notes, left, loading, report, stored, sent>>

\* The operator writes, after whatever text is there, or erases all of it.
Type ==
    /\ problemBookingId # None
    /\ \/ notes' = notes \cup {problemBookingId} /\ left' = left
       \/ notes' = {} /\ left' = {}
    /\ UNCHANGED <<problemBookingId, loading, report, stored, sent>>

\* onOpenChange(false): the text stays.
Dismiss ==
    /\ problemBookingId # None
    /\ problemBookingId' = None
    /\ left' = IF notes = {} THEN left ELSE left \cup {problemBookingId}
    /\ UNCHANGED <<notes, loading, report, stored, sent>>

\* handleSubmit up to its await.
HandleSubmit ==
    /\ problemBookingId # None /\ notes # {} /\ ~loading
    /\ sent < MaxReports
    /\ sent' = sent + 1
    /\ loading' = TRUE
    /\ report' = [pc |-> "sent", booking |-> problemBookingId, notes |-> notes, left |-> left]
    /\ UNCHANGED <<problemBookingId, notes, left, stored>>

\* The server stores a report.
Store ==
    /\ report.pc = "sent"
    /\ report' = [report EXCEPT !.pc = "stored"]
    /\ stored' = stored \cup {[booking |-> report.booking, notes |-> report.notes, left |-> report.left]}
    /\ UNCHANGED <<problemBookingId, notes, left, loading, sent>>

\* Without setNotes("").
ResolveKeepsNotes ==
    /\ report.pc = "stored"
    /\ report' = Idle
    /\ problemBookingId' = None
    /\ loading' = FALSE
    /\ UNCHANGED <<notes, left, stored, sent>>

\* The call succeeds: whatever the modal shows by now is cleared and closed.
Resolve ==
    /\ report.pc = "stored"
    /\ report' = Idle
    /\ notes' = {}
    /\ left' = {}
    /\ problemBookingId' = None
    /\ loading' = FALSE
    /\ UNCHANGED <<stored, sent>>

\* The call fails, or its answer is lost: the spinner ends, the text stays.
Reject ==
    /\ report.pc \in {"sent", "stored"}
    /\ report' = Idle
    /\ loading' = FALSE
    /\ UNCHANGED <<problemBookingId, notes, left, stored, sent>>

Next ==
    \/ \E b \in Booking : OpenFor(b)
    \/ Type \/ Dismiss \/ HandleSubmit
    \/ Store \/ Resolve \/ Reject

Spec == Init /\ [][Next]_vars

\* A call ends.
FairSpec == Spec /\ WF_vars(Store) /\ WF_vars(Resolve \/ Reject)

-----------------------------------------------------------------------------
TypeOK ==
    /\ problemBookingId \in Booking \cup {None}
    /\ notes \subseteq Booking /\ left \subseteq Booking
    /\ loading \in BOOLEAN
    /\ report \in {Idle} \cup [pc : {"sent", "stored"}, booking : Booking,
                               notes : SUBSET Booking, left : SUBSET Booking]
    /\ stored \subseteq Report
    /\ sent \in 0..MaxReports

\* What the server has on record about a card was written about that card, or about one
\* at which the operator had closed the modal over the text: a late, failed or lost answer
\* to one report never puts its text into another one.
AboutItsBooking == \A r \in stored : r.notes \subseteq {r.booking} \cup r.left

\* The button comes back: no answer, or missing answer, of whichever report leaves
\* the one modal of the board blocked for every other card.
SpinnerEnds == []<>~loading

\* AboutItsBooking, inductive: text about another card than the one the modal is open for
\* has been left there, and was when the call that is under way was made.
IInv ==
    /\ TypeOK
    /\ AboutItsBooking
    /\ notes \subseteq {problemBookingId} \cup left
    /\ report # Idle => report.notes \subseteq {report.booking} \cup report.left
=============================================================================
