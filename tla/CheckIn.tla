------------------------------ MODULE CheckIn ------------------------------
(***************************************************************************)
(* The operator's check-in screen (operario/checkin/page.tsx with           *)
(* plate-search.tsx and check-in-result.tsx): a QR code is verified by the  *)
(* server, or a plate is picked from today's bookings; the result screen    *)
(* registers the wash.  Both calls run in the background and their answers  *)
(* are applied to whatever the screen shows by then.  QRScanner models the  *)
(* camera; here it may read the code of the car in front at any time.       *)
(***************************************************************************)
EXTENDS Naturals, FiniteSets

CONSTANTS
    Car,        \* cars, each with a code, a plate and perhaps a subscriber
    Call,       \* verifications, and as many registrations
    None,       \* no car
    MaxShown    \* active results per car

CheckInAssumption == None \notin Car /\ IsFiniteSet(Call) /\ MaxShown \in Nat

VARIABLES
    member,     \* what the server knows about each car's subscription
    today,      \* cars with a booking of today: what the plate search offers
    front,      \* the car in front of the operator
    result,     \* the result screen, or NoResult
    tab,        \* the tab behind it
    verify,     \* runs of checkMembership
    register,   \* runs of registerWash
    shown,      \* history: how often each car has come up as active
    tapped,     \* history: whether the button of this screen has been tapped
    retaps,     \* history: taps of each car's button after that, on the same screen
    washes      \* washes the server has registered for each car

vars == <<member, today, front, result, tab, verify, register, shown, tapped, retaps, washes>>
callVars == <<verify, register>>
serverVars == <<member, today, washes>>
tapVars == <<tapped, retaps>>

NoResult == [type |-> "none", car |-> None]
CheckInResultType == {"active", "expired", "invalid"}

\* setResult, with the history.
Show(r) ==
    /\ result' = r
    /\ shown' = [c \in Car |-> IF r = [type |-> "active", car |-> c] THEN shown[c] + 1 ELSE shown[c]]
    /\ tapped' = FALSE
    /\ UNCHANGED retaps

\* setResult(null): the next screen has not been tapped.
Clear ==
    /\ result' = NoResult
    /\ tapped' = FALSE
    /\ UNCHANGED retaps

Run == [pc : {"idle", "sent", "stored", "done"}, car : Car \cup {None}]

Init ==
    /\ member \in [Car -> {"active", "expired", "not_found"}]
    /\ today \in SUBSET Car
    /\ front \in Car
    /\ result = NoResult
    /\ tab = "plate"
    /\ verify = [c \in Call |-> [pc |-> "idle", car |-> None]]
    /\ register = [c \in Call |-> [pc |-> "idle", car |-> None]]
    /\ shown = [c \in Car |-> 0]
    /\ tapped = FALSE
    /\ retaps = [c \in Car |-> 0]
    /\ washes = [c \in Car |-> 0]

-----------------------------------------------------------------------------
\* The next car drives up while no result is on the screen.
NextCar(c) ==
    /\ result = NoResult
    /\ c # front
    /\ front' = c
    /\ UNCHANGED <<result, tab, shown, tapVars, callVars, serverVars>>

SetTab(t) ==
    /\ result = NoResult
    /\ tab # t
    /\ tab' = t
    /\ UNCHANGED <<front, result, callVars, shown, tapVars, serverVars>>

\* handleQRScan; the camera is on the screen under the QR tab only.
HandleQRScan(c) ==
    /\ result = NoResult /\ tab = "qr"
    /\ verify[c].pc = "idle"
    /\ verify' = [verify EXCEPT ![c] = [pc |-> "sent", car |-> front]]
    /\ UNCHANGED <<front, result, tab, register, shown, tapVars, serverVars>>

\* onSuccess of checkMembership.
Verified(c) ==
    /\ verify[c].pc = "sent"
    /\ verify' = [verify EXCEPT ![c].pc = "done"]
    /\ Show(IF member[verify[c].car] \in {"active", "expired"}
            THEN [type |-> member[verify[c].car], car |-> verify[c].car]
            ELSE [type |-> "invalid", car |-> None])
    /\ UNCHANGED <<front, tab, register, serverVars>>

\* onError of checkMembership.
VerifyFails(c) ==
    /\ verify[c].pc = "sent"
    /\ verify' = [verify EXCEPT ![c].pc = "done"]
    /\ Show([type |-> "invalid", car |-> None])
    /\ UNCHANGED <<front, tab, register, serverVars>>

\* What the search can offer: the cars with a booking of today.
Searched == {c \in today : shown[c] < MaxShown}

\* handlePlateSelect: the membership is taken to be active, unseen.
HandlePlateSelect ==
    /\ result = NoResult /\ tab = "plate"
    /\ front \in Searched
    /\ Show([type |-> "active", car |-> front])
    /\ UNCHANGED <<front, tab, callVars, serverVars>>

-----------------------------------------------------------------------------
\* The green screen has the button, and nothing disables it.
RegisterButton == result.type = "active"

\* handleRegisterWash, also while an earlier call is under way.  A booking without a subscriber is ignored.
HandleRegisterWash(c) ==
    /\ RegisterButton
    /\ member[result.car] # "not_found"
    /\ register[c].pc = "idle"
    /\ register' = [register EXCEPT ![c] = [pc |-> "sent", car |-> result.car]]
    /\ tapped' = TRUE
    /\ retaps' = IF tapped THEN [retaps EXCEPT ![result.car] = @ + 1] ELSE retaps
    /\ UNCHANGED <<front, result, tab, verify, shown, serverVars>>

Store(c) ==
    /\ register[c].pc = "sent"
    /\ register' = [register EXCEPT ![c].pc = "stored"]
    /\ washes' = [washes EXCEPT ![register[c].car] = @ + 1]
    /\ UNCHANGED <<member, today, front, result, tab, verify, shown, tapVars>>

\* Without setResult(null).
RegisteredStays(c) ==
    /\ register[c].pc = "stored"
    /\ register' = [register EXCEPT ![c].pc = "done"]
    /\ tapped' = FALSE
    /\ UNCHANGED <<front, result, tab, verify, shown, retaps, serverVars>>

\* onSuccess of registerWash: the query that is refetched is the board's, not the plate
\* search's, and the screen is cleared whatever it shows.
Registered(c) ==
    /\ register[c].pc = "stored"
    /\ register' = [register EXCEPT ![c].pc = "done"]
    /\ Clear
    /\ UNCHANGED <<front, tab, verify, shown, serverVars>>

\* onError of registerWash; an answer may be lost, too.
RegisterFails(c) ==
    /\ register[c].pc \in {"sent", "stored"}
    /\ register' = [register EXCEPT ![c].pc = "done"]
    /\ UNCHANGED <<front, result, tab, verify, shown, tapVars, serverVars>>

\* handleReset; from an invalid result also with the plate tab.
HandleReset ==
    /\ result # NoResult
    /\ Clear
    /\ tab' \in IF result.type = "invalid" THEN {tab, "plate"} ELSE {tab}
    /\ UNCHANGED <<front, callVars, shown, serverVars>>

Next ==
    \/ \E c \in Car : NextCar(c)
    \/ \E t \in {"plate", "qr"} : SetTab(t)
    \/ \E c \in Call : \/ HandleQRScan(c) \/ Verified(c) \/ VerifyFails(c)
                       \/ HandleRegisterWash(c) \/ Store(c) \/ Registered(c) \/ RegisterFails(c)
    \/ HandlePlateSelect \/ HandleReset

Spec == Init /\ [][Next]_vars

-----------------------------------------------------------------------------
TypeOK ==
    /\ member \in [Car -> {"active", "expired", "not_found"}]
    /\ today \subseteq Car
    /\ front \in Car
    /\ result \in [type : CheckInResultType, car : Car \cup {None}] \cup {NoResult}
    /\ result.type \in {"active", "expired"} => result.car \in Car
    /\ tab \in {"plate", "qr"}
    /\ verify \in [Call -> Run] /\ register \in [Call -> Run]
    /\ shown \in [Car -> Nat] /\ washes \in [Car -> Nat]
    /\ tapped \in BOOLEAN /\ retaps \in [Car -> Nat]

\* Each time a car comes up as active registers one wash at most, however often calls
\* fail, the screen is left or late verifications replace it, but for the further taps of
\* a screen whose button was tapped before and which no success has taken away: nothing
\* in it keeps a double tap, or a retry after a lost answer, from being a second wash.
OneWashPerScreen == \A c \in Car : washes[c] <= shown[c] + retaps[c]

\* A call that has been made is about a car.
CallsHaveCars ==
    \A c \in Call : /\ verify[c].pc # "idle" => verify[c].car \in Car
                    /\ register[c].pc # "idle" => register[c].car \in Car

\* The registrations of a car the server may still carry out, and the showing of the car
\* that no tap has used.
Sent(car) == {c \in Call : register[c].pc = "sent" /\ register[c].car = car}
Fresh(car) == IF result.type = "active" /\ result.car = car /\ ~tapped THEN 1 ELSE 0

\* OneWashPerScreen, inductive: showings and further taps pay for the washes, for the
\* calls that may become washes and for the tap the screen still offers.
OneWashIInv ==
    /\ TypeOK /\ CallsHaveCars
    /\ \A car \in Car : washes[car] + Cardinality(Sent(car)) + Fresh(car) <= shown[car] + retaps[car]
=============================================================================
