---------------------------- MODULE PaymentLinks ----------------------------
(***************************************************************************)
(* What the checkout promises to whoever asks for a payment link, with no    *)
(* attempts, lost answers or late posts in sight: all that Mercado Pago      *)
(* makes for a call, be it once or once per attempt, is one deal, which the  *)
(* plan had on offer; and the call is answered once, with that deal's link   *)
(* or a refusal.  A link may be made for a call that was refused.            *)
(***************************************************************************)
CONSTANTS Call, Plan, None

VARIABLES
    catalogue,  \* by plan: what it has had on offer
    link,       \* by call: the deals made for it, of which there is one at most
    answer      \* by call: what it was told

Refusal == [said |-> "refused"]
Told(deal) == [said |-> "link", deal |-> deal]

Init ==
    /\ catalogue = [p \in Plan |-> {}]
    /\ link = [c \in Call |-> {}]
    /\ answer = [c \in Call |-> None]

\* Plans are offered, at other prices too; what a plan once offered is not forgotten.
Offer ==
    /\ \A p \in Plan : catalogue[p] \subseteq catalogue'[p]
    /\ UNCHANGED <<link, answer>>

Make(c, p) ==
    /\ link[c] = {}
    /\ \E offer \in catalogue[p] : link' = [link EXCEPT ![c] = {[plan |-> p, offer |-> offer]}]
    /\ UNCHANGED <<catalogue, answer>>

Answer(c) ==
    /\ answer[c] = None
    /\ \E deal \in link[c] : answer' = [answer EXCEPT ![c] = Told(deal)]
    /\ UNCHANGED <<catalogue, link>>

Refuse(c) ==
    /\ answer[c] = None
    /\ answer' = [answer EXCEPT ![c] = Refusal]
    /\ UNCHANGED <<catalogue, link>>

Next ==
    \/ Offer
    \/ \E c \in Call : Answer(c) \/ Refuse(c) \/ \E p \in Plan : Make(c, p)

Spec == Init /\ [][Next]_<<catalogue, link, answer>>
=============================================================================
