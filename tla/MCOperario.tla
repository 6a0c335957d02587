----------------------------- MODULE MCOperario -----------------------------
(***************************************************************************)
(* The operator's screens, for TLC: the board, the problem modal, the       *)
(* check-in and the header.  Here none reads what another one writes, so    *)
(* Init chooses a part, the variables of the others stay idle, and TLC      *)
(* explores the sum of the parts' states instead of their product.          *)
(***************************************************************************)
EXTENDS KanbanBoard, TLC

CONSTANTS
    None,
    Card, MaxReports,
    Car, Call, MaxShown,
    Tab

VARIABLES
    part,
    problemBookingId, notes, left, loading, report, stored, sent,
    member, today, front, result, tab, verify, register, shown, tapped, retaps, washes,
    preference, class, mounted, enabled, again

Modal == INSTANCE ProblemReport WITH Booking <- Card
Desk == INSTANCE CheckIn
Header == INSTANCE HighContrast

ASSUME PartsAssumption ==
    /\ BoardAssumption
    /\ Modal!ReportAssumption
    /\ Desk!CheckInAssumption

modalVars == <<problemBookingId, notes, left, loading, report, stored, sent>>
checkInVars == <<member, today, front, result, tab, verify, register, shown, tapped, retaps, washes>>
headerVars == <<preference, class, mounted, enabled, again>>

\* A board at rest, every booking waiting.
BoardIdle == Init /\ server = [b \in Booking |-> "waiting"] /\ cache = server /\ fetch.pc = "none"
ModalIdle ==
    /\ problemBookingId = None /\ notes = None /\ left = None /\ loading = None
    /\ report = None /\ stored = None /\ sent = None
CheckInIdle ==
    /\ member = None /\ today = None /\ front = None /\ result = None /\ tab = None
    /\ verify = None /\ register = None /\ shown = None /\ tapped = None /\ retaps = None /\ washes = None
HeaderIdle ==
    preference = None /\ class = None /\ mounted = None /\ enabled = None /\ again = None

MCInit ==
    \/ part = "board" /\ Init /\ ModalIdle /\ CheckInIdle /\ HeaderIdle
    \/ part = "modal" /\ Modal!Init /\ BoardIdle /\ CheckInIdle /\ HeaderIdle
    \/ part = "desk" /\ Desk!Init /\ BoardIdle /\ ModalIdle /\ HeaderIdle
    \/ part = "header" /\ Header!Init /\ BoardIdle /\ ModalIdle /\ CheckInIdle

BoardNext == part = "board" /\ Next /\ UNCHANGED <<modalVars, checkInVars, headerVars>>
ModalNext == part = "modal" /\ Modal!Next /\ UNCHANGED <<vars, checkInVars, headerVars>>
DeskNext == part = "desk" /\ Desk!Next /\ UNCHANGED <<vars, modalVars, headerVars>>
HeaderNext == part = "header" /\ Header!Next /\ UNCHANGED <<vars, modalVars, checkInVars>>

MCNext == UNCHANGED part /\ (BoardNext \/ ModalNext \/ DeskNext \/ HeaderNext)

MCSpec == MCInit /\ [][MCNext]_<<part, vars, modalVars, checkInVars, headerVars>>

Symmetry ==
    Permutations(Booking) \cup Permutations(Request)
    \cup Permutations(Card) \cup Permutations(Car) \cup Permutations(Call)

-----------------------------------------------------------------------------
\* SettledAgrees is KanbanBoard's.  The others are those of their modules, with the types
\* of the part's variables.

\* What the server has on record about a card was written about that card, or about one
\* at which the operator had closed the modal over the text.
AboutItsBooking == part = "modal" => Modal!TypeOK /\ Modal!AboutItsBooking

\* Each time a car comes up as active registers one wash at most, but for further taps of
\* a screen that has been tapped before.
OneWashPerScreen == part = "desk" => Desk!TypeOK /\ Desk!OneWashPerScreen

\* The header's button says what the document looks like.
ButtonSaysTheme == part = "header" => Header!ButtonSaysTheme
=============================================================================
