--------------------------- MODULE PaymentLedger ---------------------------
(***************************************************************************)
(* What the billing core promises about Mercado Pago's payments, with no     *)
(* goroutines, requests or cron in sight: a payment enters the ledger at     *)
(* most once, its entry never changes, and it moves the standing of its      *)
(* subscription at most once, afterwards, and as its entry says.  An entry   *)
(* may also be abandoned: recorded, and never applied.                       *)
(***************************************************************************)
CONSTANTS Payments, Subs, None

VARIABLES
    ledger,     \* by payment: how far it got, and what was recorded of it
    standing    \* by subscription: its status

Unseen == [stage |-> "unseen", sub |-> None, status |-> "none"]

Entry(sub, status, stage) == [stage |-> stage, sub |-> sub, status |-> status]

Init ==
    /\ ledger = [p \in Payments |-> Unseen]
    /\ standing = [s \in Subs |-> "absent"]

\* A payment that is still open, or was refunded, is settled by its record alone.
Record(p, s) ==
    /\ ledger[p] = Unseen
    /\ \/ \E status \in {"approved", "rejected"} :
             ledger' = [ledger EXCEPT ![p] = Entry(s, status, "recorded")]
       \/ \E status \in {"pending", "refunded"} :
             ledger' = [ledger EXCEPT ![p] = Entry(s, status, "settled")]
    /\ UNCHANGED standing

Settle(p) ==
    /\ ledger[p].stage = "recorded"
    /\ ledger' = [ledger EXCEPT ![p] = Entry(ledger[p].sub, ledger[p].status, "settled")]
    /\ standing' = [standing EXCEPT ![ledger[p].sub] =
                       IF ledger[p].status = "approved" THEN "active" ELSE "past_due"]

\* A crash abandons every entry its goroutines had still to apply.
Abandon(P) ==
    /\ \A p \in P : ledger[p].stage = "recorded"
    /\ ledger' = [p \in Payments |->
                     IF p \in P THEN Entry(ledger[p].sub, ledger[p].status, "abandoned")
                     ELSE ledger[p]]
    /\ UNCHANGED standing

\* Staff and cron move standings too, but only a payment makes one past_due.
Move(s) ==
    /\ \E status \in {"active", "cancelled"} : standing' = [standing EXCEPT ![s] = status]
    /\ UNCHANGED ledger

Next ==
    \/ \E p \in Payments, s \in Subs : Record(p, s)
    \/ \E p \in Payments : Settle(p)
    \/ \E P \in SUBSET Payments : Abandon(P)
    \/ \E s \in Subs : Move(s)

Spec == Init /\ [][Next]_<<ledger, standing>>
=============================================================================
