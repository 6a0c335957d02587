------------------------------ MODULE Checkout ------------------------------
(***************************************************************************)
(* Sending a customer to Mercado Pago: CreatePreference and                 *)
(* CreateSubscriptionMP (internal/payment/handler.go), which do the same    *)
(* with another path, and the client they post with                         *)
(* (internal/payment/mercadopago.go, doRequest).  Plans are updated, sold   *)
(* and deactivated meanwhile.  Mercado Pago is external: it carries out     *)
(* what reaches it, once per idempotency key, sometimes after the client    *)
(* has stopped waiting.                                                     *)
(***************************************************************************)
EXTENDS Plans

CONSTANTS
    Call,           \* runs of the two handlers
    MaxRetries      \* 3

ASSUME CheckoutAssumption == MaxRetries \in Nat

VARIABLES
    call,       \* the runs; attempt is doRequest's
    posts,      \* requests Mercado Pago has not looked at yet
    answers,    \* to the attempts that are waited for
    made        \* preferences and preapprovals at Mercado Pago

mpvars == <<call, posts, answers, made>>

Code == {"201", "4xx", "5xx"}
Attempt == 0..MaxRetries
OfferType == [price : Price, interval : Interval]

KeyType == [call : Call, attempt : Attempt]

CheckoutTypeOK ==
    /\ call \in [Call -> {Idle}
          \cup [pc : {"begun"}, plan : Plan]
          \cup [pc : {"ready", "sent", "created"}, plan : Plan, offer : OfferType, attempt : Attempt]
          \cup [pc : {"notFound", "failed"}]]
    /\ posts \subseteq [key : KeyType, plan : Plan, offer : OfferType]
    /\ answers \subseteq [key : KeyType, code : Code]
    /\ made \subseteq [key : KeyType, plan : Plan, offer : OfferType, external_reference : Call]

CheckoutInit ==
    /\ Init
    /\ call = [c \in Call |-> Idle]
    /\ posts = {} /\ answers = {} /\ made = {}

Key(c) == [call |-> c, attempt |-> call[c].attempt]
Replies(c, answer) == call' = [call EXCEPT ![c] = [pc |-> answer]]

-----------------------------------------------------------------------------
(***************************************************************************)
(* The handlers.                                                            *)
(***************************************************************************)
BeginCheckout(c) ==
    /\ call[c] = Idle
    /\ \E p \in Plan : call' = [call EXCEPT ![c] = [pc |-> "begun", plan |-> p]]
    /\ UNCHANGED <<vars, posts, answers, made>>

\* A mutant: the query does not ask for active plans.
GetPlanAny(c) ==
    /\ call[c].pc = "begun"
    /\ LET p == call[c].plan IN
       IF plans[p] = None THEN Replies(c, "notFound")
       ELSE call' = [call EXCEPT ![c] = [pc |-> "ready", plan |-> p, offer |-> Offer(plans[p]), attempt |-> 0]]
    /\ UNCHANGED <<vars, posts, answers, made>>

GetPlanWithTenant(c) ==
    /\ call[c].pc = "begun"
    /\ LET p == call[c].plan IN
       IF plans[p] = None THEN Replies(c, "notFound")
       ELSE IF ~plans[p].active THEN Replies(c, "notFound")
       ELSE call' = [call EXCEPT ![c] = [pc |-> "ready", plan |-> p, offer |-> Offer(plans[p]), attempt |-> 0]]
    /\ UNCHANGED <<vars, posts, answers, made>>

\* The key holds the time in nanoseconds: each attempt has another.
Post(c) ==
    /\ call[c].pc = "ready"
    /\ posts' = posts \cup {[key |-> Key(c), plan |-> call[c].plan, offer |-> call[c].offer]}
    /\ call' = [call EXCEPT ![c].pc = "sent"]
    /\ UNCHANGED <<vars, answers, made>>

\* A mutant: the attempt is not counted.
TryAgainForever(c) == call' = [call EXCEPT ![c].pc = "ready"]

\* A mutant: each attempt reads the plan again.
TryAgainAnew(c) ==
    IF call[c].attempt < MaxRetries
    THEN call' = [call EXCEPT ![c].pc = "ready", ![c].attempt = @ + 1, ![c].offer = Offer(plans[call[c].plan])]
    ELSE Replies(c, "failed")

\* The end of doRequest's loop.
TryAgain(c) ==
    IF call[c].attempt < MaxRetries
    THEN call' = [call EXCEPT ![c].pc = "ready", ![c].attempt = @ + 1]
    ELSE Replies(c, "failed")

\* A mutant: an answer of the 500s is read like one of the 200s.
ReceiveAny(c) ==
    /\ call[c].pc = "sent"
    /\ \E a \in answers :
          /\ a.key = Key(c)
          /\ answers' = answers \ {a}
          /\ IF a.code = "4xx" THEN Replies(c, "failed")
             ELSE call' = [call EXCEPT ![c].pc = "created"]
    /\ UNCHANGED <<vars, posts, made>>

Receive(c) ==
    /\ call[c].pc = "sent"
    /\ \E a \in answers :
          /\ a.key = Key(c)
          /\ answers' = answers \ {a}
          /\ CASE a.code = "201" -> call' = [call EXCEPT ![c].pc = "created"]
               [] a.code = "4xx" -> Replies(c, "failed")
               [] a.code = "5xx" -> TryAgain(c)
    /\ UNCHANGED <<vars, posts, made>>

Unheard(c) == {a \in answers : a.key = Key(c)}

\* Nothing came, or not all of it: the client's own timeout is 15 seconds.
TimeOut(c) ==
    /\ call[c].pc = "sent"
    /\ answers' = answers \ Unheard(c)
    /\ TryAgain(c)
    /\ UNCHANGED <<vars, posts, made>>

\* Whoever asked has gone, and the request's context with him.
GiveUp(c) ==
    /\ call[c].pc \in {"begun", "ready", "sent"}
    /\ answers' = IF call[c].pc = "sent" THEN answers \ Unheard(c) ELSE answers
    /\ Replies(c, "failed")
    /\ UNCHANGED <<vars, posts, made>>

-----------------------------------------------------------------------------
(***************************************************************************)
(* Mercado Pago.                                                            *)
(***************************************************************************)
\* external_reference is the uuid the handler drew for the call.
Carry(m) ==
    /\ posts' = posts \ {m}
    /\ \E code \in Code, done \in BOOLEAN :
          /\ code = "201" => done
          /\ code = "4xx" => ~done
          /\ made' = IF done THEN made \cup {[key |-> m.key, plan |-> m.plan, offer |-> m.offer,
                                              external_reference |-> m.key.call]}
                     ELSE made
          /\ answers' = IF call[m.key.call].pc = "sent" /\ Key(m.key.call) = m.key
                        THEN answers \cup {[key |-> m.key, code |-> code]} ELSE answers
    /\ UNCHANGED <<vars, call>>

\* The post does not arrive.
Drop(m) ==
    /\ posts' = posts \ {m}
    /\ UNCHANGED <<vars, call, answers, made>>

\* The handlers, and what reaches Mercado Pago.
CheckoutStep ==
    \/ \E c \in Call :
          \/ BeginCheckout(c) \/ GetPlanWithTenant(c) \/ Post(c)
          \/ Receive(c) \/ TimeOut(c) \/ GiveUp(c)
    \/ \E m \in posts : Carry(m) \/ Drop(m)

CheckoutNext == CheckoutStep \/ (Next /\ UNCHANGED mpvars)

CheckoutSpec == CheckoutInit /\ [][CheckoutNext]_<<vars, mpvars>>

\* A handler goes on; neither Mercado Pago nor the network owes anything.
HandlerRun(c) == GetPlanWithTenant(c) \/ Post(c) \/ Receive(c) \/ TimeOut(c)

-----------------------------------------------------------------------------
\* What a customer can be asked to pay is what the plan cost at some time while it was
\* active, however late the post is carried out and whatever happens to the plan.
MadeAsOffered == \A m \in made : m.offer \in offered[m.plan]

\* A call that is answered with a link has made what the link is for, at the price it read.
CreatedIsMade ==
    \A c \in Call : call[c].pc = "created" =>
        \E m \in made : m.key = Key(c) /\ m.offer = call[c].offer

\* The invariant that carries both: a call's offer was made, and what it has sent is for
\* that offer.
Priced(c) == call[c].pc \in {"ready", "sent", "created"}
CallsOffered == \A c \in Call : Priced(c) => call[c].offer \in offered[call[c].plan]
SentForCall(m) ==
    /\ m.offer \in offered[m.plan]
    /\ call[m.key.call].pc \notin {"idle", "begun"}
    /\ Priced(m.key.call) => m.offer = call[m.key.call].offer
AnsweredIsMade == \A a \in answers : a.code = "201" => \E m \in made : m.key = a.key

CheckoutIInv ==
    /\ IInv /\ CheckoutTypeOK
    /\ CallsOffered
    /\ \A m \in posts \cup made : SentForCall(m)
    /\ AnsweredIsMade /\ CreatedIsMade

DealOf(m) == [plan |-> m.plan, offer |-> m.offer]

\* As PaymentLinks sees it: the deals that were made for a call, and what it was told.
LinkView ==
    [c \in Call |-> {DealOf(m) : m \in {n \in made : n.key.call = c}}]
AnswerView ==
    [c \in Call |-> CASE call[c].pc = "created" ->
                            [said |-> "link", deal |-> DealOf(call[c])]
                      [] call[c].pc \in {"notFound", "failed"} -> [said |-> "refused"]
                      [] OTHER -> None]
Links == INSTANCE PaymentLinks WITH catalogue <- offered, link <- LinkView, answer <- AnswerView

\* All that is made for a call, by whichever of its attempts and however late, is for one
\* plan at one price, and the call is answered once, with that or a refusal.
LinksSpec == Links!Spec

\* What a call has sent or made is one deal, and its own while it has one.
LinksAgree ==
    \A m \in posts \cup made :
        /\ Priced(m.key.call) => DealOf(m) = DealOf(call[m.key.call])
        /\ \A n \in posts \cup made : n.key.call = m.key.call => DealOf(n) = DealOf(m)

\* Every call ends, whatever Mercado Pago does: it is tried MaxRetries times again and no
\* more.
CallsEnd == \A c \in Call : call[c].pc = "begun" ~> call[c].pc \in {"created", "notFound", "failed"}
=============================================================================
