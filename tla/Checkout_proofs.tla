-------------------------- MODULE Checkout_proofs --------------------------
(***************************************************************************)
(* Proofs about Plans and Checkout, for any number of plans, requests,      *)
(* prices, intervals, calls and retries.  The last parts of IInv speak of a *)
(* history: what was offered stays in offered, what was inserted stays in   *)
(* subs, so that a step can break them only for the run that takes it.      *)
(* Every step of Checkout is one of Plans or leaves its variables, so       *)
(* Plans' invariant holds there too.                                        *)
(***************************************************************************)
EXTENDS Checkout, TLAPS

-----------------------------------------------------------------------------
(***************************************************************************)
(* Plans.                                                                   *)
(***************************************************************************)
\* No plan, and no run.
LEMMA InitIInv == Init => IInv
BY DEF Init, IInv, TypeOK, Idle, Found, ActiveIsOffered, Sold, Inserted, ChargedAsOffered

\* A row with a change merged into it is a row.
LEMMA MergeType ==
    ASSUME NEW row \in Row, NEW c \in Change
    PROVE  Merge(row, c) \in Row
BY DEF Merge, Row, Change

\* The type invariant.
LEMMA TypeStep == IInv /\ [Next]_vars => TypeOK'
<1> SUFFICES ASSUME TypeOK, Found, [Next]_vars PROVE TypeOK'
  BY DEF IInv
<1>1. ASSUME NEW p \in Plan, CreatePlan(p) PROVE TypeOK'
  BY <1>1 DEF CreatePlan, TypeOK, Row, Offer
<1>2. ASSUME NEW p \in Plan, DeactivatePlan(p) PROVE TypeOK'
  <2>1. plans[p] \in Row
    BY <1>2 DEF DeactivatePlan, TypeOK
  <2>2. plans' \in [Plan -> Row \cup {None}]
    BY <1>2, <2>1 DEF DeactivatePlan, TypeOK, Row
  <2>. QED BY <1>2, <2>2 DEF DeactivatePlan, TypeOK
<1>3. ASSUME NEW q \in Request, BeginUpdate(q) PROVE TypeOK'
  BY <1>3 DEF BeginUpdate, TypeOK
<1>4. ASSUME NEW q \in Request, ReadAndMerge(q) PROVE TypeOK'
  <2>1. req[q].plan \in Plan /\ req[q].change \in Change
    BY <1>4 DEF ReadAndMerge, TypeOK, Idle
  <2>2. CASE plans[req[q].plan] = None
    BY <1>4, <2>2 DEF ReadAndMerge, Ends, TypeOK
  <2>3. CASE plans[req[q].plan] # None
    <3>1. Merge(plans[req[q].plan], req[q].change) \in Row
      BY <2>1, <2>3, MergeType DEF TypeOK
    <3>. QED BY <1>4, <2>1, <2>3, <3>1 DEF ReadAndMerge, TypeOK
  <2>. QED BY <2>2, <2>3
<1>5. ASSUME NEW q \in Request, Write(q) PROVE TypeOK'
  <2>1. req[q].plan \in Plan /\ req[q].row \in Row
    BY <1>5 DEF Write, TypeOK, Idle
  <2>. plans[req[q].plan] \in Row
    BY <1>5, <2>1 DEF Write, TypeOK, Found
  <2>2. plans' \in [Plan -> Row \cup {None}]
    BY <1>5, <2>1 DEF Write, TypeOK, Row
  <2>3. offered' \in [Plan -> SUBSET [price : Price, interval : Interval]]
    BY <1>5, <2>1 DEF Write, TypeOK, Row, Offer
  <2>. QED BY <1>5, <2>2, <2>3 DEF Write, Ends, TypeOK
<1>6. ASSUME NEW q \in Request, BeginSubscribe(q) PROVE TypeOK'
  BY <1>6 DEF BeginSubscribe, TypeOK
<1>7. ASSUME NEW q \in Request, ReadPlan(q) PROVE TypeOK'
  <2>1. req[q].plan \in Plan /\ req[q].method \in Method
    BY <1>7 DEF ReadPlan, TypeOK, Idle
  <2>. QED BY <1>7, <2>1 DEF ReadPlan, Ends, TypeOK
<1>8. ASSUME NEW q \in Request, InsertSubscription(q) PROVE TypeOK'
  <2>1. req[q] \in [pc : {"sold", "record"}, plan : Plan, method : Method, row : Row]
    BY <1>8 DEF InsertSubscription, TypeOK, Idle
  <2>2. subs' \subseteq [id : Request, plan : Plan, interval : Interval]
    BY <1>8, <2>1 DEF InsertSubscription, TypeOK, Row
  <2>. QED BY <1>8, <2>1, <2>2 DEF InsertSubscription, Ends, TypeOK
<1>9. ASSUME NEW q \in Request, RecordPayment(q) PROVE TypeOK'
  <2>1. req[q].row \in Row
    BY <1>9 DEF RecordPayment, TypeOK, Idle
  <2>. QED BY <1>9, <2>1 DEF RecordPayment, Ends, TypeOK, Row
<1>10. ASSUME NEW q \in Request, Fail(q) PROVE TypeOK'
  BY <1>10 DEF Fail, Ends, TypeOK
<1>11. ASSUME UNCHANGED vars PROVE TypeOK'
  BY <1>11 DEF vars, TypeOK
<1>. QED BY <1>1, <1>2, <1>3, <1>4, <1>5, <1>6, <1>7, <1>8, <1>9, <1>10, <1>11 DEF Next, Handle

\* What the history keeps: rows stay, offers stay, subscriptions stay.
Grows ==
    /\ \A p \in Plan : offered[p] \subseteq offered'[p] /\ (plans[p] # None => plans'[p] # None)
    /\ subs \subseteq subs'

\* What was offered once stays in the history.
LEMMA GrowsStep == IInv /\ [Next]_vars => Grows
<1> SUFFICES ASSUME IInv, TypeOK, Found, [Next]_vars PROVE Grows
  BY DEF IInv
<1>1. ASSUME NEW p \in Plan, CreatePlan(p) PROVE Grows
  BY <1>1, PlansAssumption DEF CreatePlan, TypeOK, Grows, Row
<1>2. ASSUME NEW p \in Plan, DeactivatePlan(p) PROVE Grows
  <2>1. plans[p] \in Row /\ plans' = [plans EXCEPT ![p] = [plans[p] EXCEPT !.active = FALSE]]
    BY <1>2 DEF DeactivatePlan, TypeOK
  <2>2. [plans[p] EXCEPT !.active = FALSE] \in Row
    BY <2>1 DEF Row
  <2>. QED BY <1>2, <2>1, <2>2, PlansAssumption DEF DeactivatePlan, TypeOK, Grows
<1>3. ASSUME NEW q \in Request, Write(q) PROVE Grows
  <2>. DEFINE p == req[q].plan  row == req[q].row
  <2>1. p \in Plan /\ row \in Row
    BY <1>3 DEF Write, TypeOK, Idle
  <2>2. plans[p] \in Row
    BY <1>3, <2>1 DEF Write, TypeOK, Found
  <2>3. plans' = [plans EXCEPT ![p] = [plans[p] EXCEPT !.price = row.price, !.interval = row.interval]]
    BY <1>3, <2>1, <2>2 DEF Write, TypeOK, Row
  <2>4. [plans[p] EXCEPT !.price = row.price, !.interval = row.interval] \in Row
    BY <2>1, <2>2 DEF Row
  <2>5. \A o \in Plan : plans[o] # None => plans'[o] # None
    BY <2>1, <2>3, <2>4, PlansAssumption DEF TypeOK
  <2>6. \A o \in Plan : offered[o] \subseteq offered'[o]
    BY <1>3, <2>1 DEF Write, TypeOK
  <2>. QED BY <1>3, <2>5, <2>6 DEF Write, Grows
<1>4. ASSUME NEW q \in Request, InsertSubscription(q) PROVE Grows
  BY <1>4 DEF InsertSubscription, Grows
<1>5. ASSUME UNCHANGED <<plans, offered, subs>> PROVE Grows
  BY <1>5 DEF Grows
<1>. QED
  BY <1>1, <1>2, <1>3, <1>4, <1>5
  DEF Next, Handle, vars, BeginUpdate, ReadAndMerge, BeginSubscribe, ReadPlan, RecordPayment, Fail

\* A step of one run leaves what is known of the others.
LEMMA OneRun ==
    ASSUME IInv, TypeOK', Grows, NEW q \in Request, NEW r, req' = [req EXCEPT ![q] = r],
           r.pc = "merged" => plans'[r.plan] # None,
           r.pc \in {"sold", "record"} => Offer(r.row) \in offered'[r.plan],
           r.pc = "record" =>
               [id |-> q, plan |-> r.plan, interval |-> r.row.interval] \in subs'
    PROVE  Found' /\ Sold' /\ Inserted'
<1>1. \A o \in Request : req'[o] = IF o = q THEN r ELSE req[o]
  BY DEF IInv, TypeOK
<1>2. \A o \in Request : o # q /\ req[o].pc \in {"merged", "sold", "record"} => req[o].plan \in Plan
  BY DEF IInv, TypeOK, Idle
<1>3. Found'
  BY <1>1, <1>2 DEF IInv, Found, Grows
<1>4. Sold'
  BY <1>1, <1>2 DEF IInv, Sold, Grows
<1>5. Inserted'
  BY <1>1, <1>2 DEF IInv, Inserted, Grows
<1>. QED BY <1>3, <1>4, <1>5

\* What is active is offered.
LEMMA ActiveStep == IInv /\ [Next]_vars => ActiveIsOffered'
<1> SUFFICES ASSUME IInv, TypeOK, Found, ActiveIsOffered, [Next]_vars PROVE ActiveIsOffered'
  BY DEF IInv
<1>1. ASSUME NEW p \in Plan, CreatePlan(p) PROVE ActiveIsOffered'
  BY <1>1 DEF CreatePlan, TypeOK, ActiveIsOffered
<1>2. ASSUME NEW p \in Plan, DeactivatePlan(p) PROVE ActiveIsOffered'
  <2>1. plans[p] \in Row
    BY <1>2 DEF DeactivatePlan, TypeOK
  <2>2. ~plans'[p].active /\ \A o \in Plan : o # p => plans'[o] = plans[o]
    BY <1>2, <2>1 DEF DeactivatePlan, TypeOK, Row
  <2>. QED BY <1>2, <2>2 DEF DeactivatePlan, ActiveIsOffered
<1>3. ASSUME NEW q \in Request, Write(q) PROVE ActiveIsOffered'
  <2>. DEFINE p == req[q].plan  row == req[q].row
  <2>1. p \in Plan /\ row \in Row
    BY <1>3 DEF Write, TypeOK, Idle
  <2>2. plans[p] \in Row
    BY <1>3, <2>1 DEF Write, TypeOK, Found
  <2>3. /\ plans'[p].active = plans[p].active /\ Offer(plans'[p]) = Offer(row)
        /\ \A o \in Plan : o # p => plans'[o] = plans[o]
    BY <1>3, <2>1, <2>2 DEF Write, TypeOK, Row, Offer
  <2>4. \A o \in Plan : offered[o] \subseteq offered'[o]
    BY <1>3, GrowsStep DEF Grows
  <2>5. plans[p].active => Offer(row) \in offered'[p]
    BY <1>3, <2>1 DEF Write, TypeOK
  <2>. QED BY <2>1, <2>3, <2>4, <2>5 DEF ActiveIsOffered
<1>4. ASSUME UNCHANGED <<plans, offered>> PROVE ActiveIsOffered'
  BY <1>4 DEF ActiveIsOffered
<1>. QED
  BY <1>1, <1>2, <1>3, <1>4
  DEF Next, Handle, vars, BeginUpdate, ReadAndMerge, BeginSubscribe, ReadPlan,
      InsertSubscription, RecordPayment, Fail

\* What is known of the runs: only the run that moves has something to show.
LEMMA RunsStep == IInv /\ [Next]_vars => Found' /\ Sold' /\ Inserted'
<1> SUFFICES ASSUME IInv, TypeOK, Sold, Inserted, TypeOK', Grows, [Next]_vars
             PROVE  Found' /\ Sold' /\ Inserted'
  BY TypeStep, GrowsStep DEF IInv
<1>1. ASSUME NEW q \in Request, BeginUpdate(q) \/ BeginSubscribe(q) PROVE Found' /\ Sold' /\ Inserted'
  BY <1>1, OneRun DEF BeginUpdate, BeginSubscribe
<1>2. ASSUME NEW q \in Request, ReadAndMerge(q) PROVE Found' /\ Sold' /\ Inserted'
  BY <1>2, OneRun DEF ReadAndMerge, Ends
<1>3. ASSUME NEW q \in Request, Write(q) PROVE Found' /\ Sold' /\ Inserted'
  BY <1>3, OneRun DEF Write, Ends
<1>4. ASSUME NEW q \in Request, ReadPlan(q) PROVE Found' /\ Sold' /\ Inserted'
  <2>1. req[q].plan \in Plan
    BY <1>4 DEF ReadPlan, TypeOK, Idle
  <2>2. plans[req[q].plan] # None /\ plans[req[q].plan].active
          => Offer(plans[req[q].plan]) \in offered[req[q].plan]
    BY <2>1 DEF IInv, ActiveIsOffered
  <2>. QED BY <1>4, <2>1, <2>2, OneRun DEF ReadPlan, Ends
<1>5. ASSUME NEW q \in Request, InsertSubscription(q) PROVE Found' /\ Sold' /\ Inserted'
  <2>1. req[q] \in [pc : {"sold", "record"}, plan : Plan, method : Method, row : Row]
    BY <1>5 DEF InsertSubscription, TypeOK, Idle
  <2>2. Offer(req[q].row) \in offered'[req[q].plan]
    BY <1>5, <2>1 DEF InsertSubscription, Sold
  <2>3. [id |-> q, plan |-> req[q].plan, interval |-> req[q].row.interval] \in subs'
    BY <1>5 DEF InsertSubscription
  <2>4. CASE req[q].method = "manual"
    <3>. DEFINE r == [req[q] EXCEPT !.pc = "record"]
    <3>1. r.pc = "record" /\ r.plan = req[q].plan /\ r.row = req[q].row
      BY <2>1
    <3>2. req' = [req EXCEPT ![q] = r]
      BY <1>5, <2>4 DEF InsertSubscription
    <3>. HIDE DEF r
    <3>. QED BY <2>2, <2>3, <3>1, <3>2, OneRun
  <2>5. CASE req[q].method # "manual"
    BY <1>5, <2>5, OneRun DEF InsertSubscription, Ends
  <2>. QED BY <2>4, <2>5
<1>6. ASSUME NEW q \in Request, RecordPayment(q) \/ Fail(q) PROVE Found' /\ Sold' /\ Inserted'
  BY <1>6, OneRun DEF RecordPayment, Fail, Ends
<1>7. ASSUME UNCHANGED req PROVE Found' /\ Sold' /\ Inserted'
  <2>1. \A o \in Request : req[o].pc \in {"merged", "sold", "record"} => req[o].plan \in Plan
    BY DEF TypeOK, Idle
  <2>. QED BY <1>7, <2>1 DEF IInv, Found, Sold, Inserted, Grows
<1>. QED
  BY <1>1, <1>2, <1>3, <1>4, <1>5, <1>6, <1>7
  DEF Next, Handle, vars, CreatePlan, DeactivatePlan

\* A payment is recorded for what was sold.
LEMMA ChargedStep == IInv /\ [Next]_vars => ChargedAsOffered'
<1> SUFFICES ASSUME IInv, TypeOK, Sold, Inserted, Grows, [Next]_vars PROVE ChargedAsOffered'
  BY GrowsStep DEF IInv
<1>1. \A e \in events : \E s \in subs' :
        /\ s.id = e.subscription_id
        /\ [price |-> e.amount_cents, interval |-> s.interval] \in offered'[s.plan]
  <2>1. \A s \in subs : s.plan \in Plan
    BY DEF TypeOK
  <2>. QED BY <2>1 DEF IInv, ChargedAsOffered, Grows
<1>2. ASSUME NEW q \in Request, RecordPayment(q) PROVE ChargedAsOffered'
  <2>. DEFINE s == [id |-> q, plan |-> req[q].plan, interval |-> req[q].row.interval]
  <2>1. s \in subs' /\ Offer(req[q].row) \in offered'[req[q].plan]
    BY <1>2 DEF RecordPayment, Inserted, Sold
  <2>2. events' = events \cup {[subscription_id |-> q, amount_cents |-> req[q].row.price]}
    BY <1>2 DEF RecordPayment
  <2>. QED BY <1>1, <2>1, <2>2 DEF ChargedAsOffered, Offer
<1>3. CASE UNCHANGED events
  BY <1>1, <1>3 DEF ChargedAsOffered
<1>. QED
  BY <1>2, <1>3
  DEF Next, Handle, vars, CreatePlan, DeactivatePlan, BeginUpdate, ReadAndMerge, Write,
      BeginSubscribe, ReadPlan, InsertSubscription, Fail

\* Every step of the plans.
LEMMA NextIInv == IInv /\ [Next]_vars => IInv'
BY TypeStep, ActiveStep, RunsStep, ChargedStep DEF IInv

\* The invariant of the plans holds in every run.
LEMMA Invariance == Spec => []IInv
BY InitIInv, NextIInv, PTL DEF Spec

\* The tables hold rows of their types, and what the steps read is there.
THEOREM PlansTypeCorrect == Spec => []TypeOK
<1>1. IInv => TypeOK
  BY DEF IInv
<1>. QED BY Invariance, <1>1, PTL

\* The price recorded for a subscription (membership/service.go, CreateSubscription) and its
\* period were offered together by its plan while it was active.
THEOREM ChargedAsOfferedHolds == Spec => []ChargedAsOffered
<1>1. IInv => ChargedAsOffered
  BY DEF IInv
<1>. QED BY Invariance, <1>1, PTL

\* No update (membership/service.go, UpdatePlan) revives a plan that was deactivated.
THEOREM DeactivatedStaysSoHolds == Spec => DeactivatedStaysSo
<1>1. ASSUME IInv, [Next]_vars, NEW p \in Plan, plans[p] # None, ~plans[p].active
      PROVE  plans'[p] # None /\ ~plans'[p].active
  <2>. USE <1>1 DEF IInv
  <2>1. plans'[p] # None
    BY GrowsStep DEF Grows
  <2>2. plans[p] \in Row
    BY DEF TypeOK
  <2>3. ASSUME NEW o \in Plan, CreatePlan(o) PROVE ~plans'[p].active
    BY <2>3 DEF CreatePlan, TypeOK
  <2>4. ASSUME NEW o \in Plan, DeactivatePlan(o) PROVE ~plans'[p].active
    BY <2>2, <2>4 DEF DeactivatePlan, TypeOK, Row
  <2>5. ASSUME NEW q \in Request, Write(q) PROVE ~plans'[p].active
    BY <2>2, <2>5 DEF Write, TypeOK, Row
  <2>6. ASSUME UNCHANGED plans PROVE ~plans'[p].active
    BY <2>6
  <2>7. ~plans'[p].active
    BY <2>3, <2>4, <2>5, <2>6
    DEF Next, Handle, vars, BeginUpdate, ReadAndMerge, BeginSubscribe, ReadPlan,
        InsertSubscription, RecordPayment, Fail
  <2>. QED BY <2>1, <2>7
<1>2. IInv /\ [Next]_vars =>
        [\A p \in Plan : plans[p] # None /\ ~plans[p].active
                         => plans'[p] # None /\ ~plans'[p].active]_vars
  BY <1>1
<1>. QED BY Invariance, <1>2, PTL DEF Spec, DeactivatedStaysSo

-----------------------------------------------------------------------------
(***************************************************************************)
(* Checkout.                                                                *)
(***************************************************************************)
\* No call, no post.
LEMMA CheckoutInitIInv == CheckoutInit => CheckoutIInv
<1> SUFFICES ASSUME CheckoutInit PROVE CheckoutIInv
  OBVIOUS
<1>1. IInv
  BY InitIInv DEF CheckoutInit
<1>2. CheckoutTypeOK
  BY DEF CheckoutInit, CheckoutTypeOK, Idle
<1>. QED
  BY <1>1, <1>2
  DEF CheckoutInit, CheckoutIInv, CallsOffered, Priced, Idle, AnsweredIsMade, CreatedIsMade

\* Plans does not notice.
LEMMA IsPlansStep == [CheckoutNext]_<<vars, mpvars>> => [Next]_vars
BY DEF CheckoutNext, CheckoutStep, vars, BeginCheckout, GetPlanWithTenant, Post, Receive, TimeOut, GiveUp, Carry, Drop

\* A step that moves no call and sends nothing: Plans' own.
LEMMA PlansStep ==
    ASSUME CheckoutIInv, IInv', Grows, UNCHANGED mpvars
    PROVE  CheckoutIInv'
<1>. USE DEF mpvars
<1>1. CheckoutTypeOK'
  BY DEF CheckoutIInv, CheckoutTypeOK
<1>2. CallsOffered'
  <2>1. \A c \in Call : Priced(c) => call[c].plan \in Plan
    BY DEF CheckoutIInv, CheckoutTypeOK, Priced, Idle
  <2>. QED BY <2>1 DEF CheckoutIInv, CallsOffered, Priced, Grows
<1>3. \A m \in posts' \cup made' : SentForCall(m)'
  <2>1. \A m \in posts \cup made : m.plan \in Plan
    BY DEF CheckoutIInv, CheckoutTypeOK
  <2>. QED BY <2>1 DEF CheckoutIInv, SentForCall, Priced, Grows
<1>4. AnsweredIsMade' /\ CreatedIsMade'
  BY DEF CheckoutIInv, AnsweredIsMade, CreatedIsMade, Key
<1>. QED BY <1>1, <1>2, <1>3, <1>4 DEF CheckoutIInv

\* A step of one call that leaves Plans, the posts and what is made; only its own answers may go.
LEMMA OneCall ==
    ASSUME CheckoutIInv, UNCHANGED <<vars, posts, made>>, CheckoutTypeOK',
           NEW c \in Call, NEW r, call' = [call EXCEPT ![c] = r],
           answers' \subseteq answers,
           \* it comes by an offer only once, and before anything is sent
           \/ call[c].pc = "idle" /\ r.pc = "begun"
           \/ call[c].pc = "begun" /\ r.pc \in {"ready", "notFound", "failed"}
           \/ Priced(c) /\ r.pc \in {"ready", "sent", "created"} /\ r.offer = call[c].offer
           \/ r.pc = "failed" /\ call[c].pc # "idle",
           r.pc \in {"ready", "sent", "created"} => r.offer \in offered[r.plan],
           r.pc = "created" => \E m \in made : m.key = [call |-> c, attempt |-> r.attempt]
    PROVE  CheckoutIInv'
<1>1. \A o \in Call : call'[o] = IF o = c THEN r ELSE call[o]
  BY DEF CheckoutIInv, CheckoutTypeOK
<1>2. IInv'
  <2>1. [Next]_vars
    BY DEF vars
  <2>. QED BY <2>1, NextIInv DEF CheckoutIInv
<1>3. UNCHANGED offered
  BY DEF vars
<1>4. CallsOffered'
  BY <1>1, <1>3 DEF CheckoutIInv, CallsOffered, Priced
<1>5. \A m \in posts' \cup made' : SentForCall(m)'
  <2> SUFFICES ASSUME NEW m \in posts \cup made PROVE SentForCall(m)'
    OBVIOUS
  <2>1. m.key.call \in Call /\ SentForCall(m)
    BY DEF CheckoutIInv, CheckoutTypeOK, KeyType
  <2>2. CASE m.key.call # c
    BY <1>1, <1>3, <2>1, <2>2 DEF SentForCall, Priced
  <2>3. CASE m.key.call = c
    BY <1>1, <1>3, <2>1, <2>3 DEF SentForCall, Priced
  <2>. QED BY <2>2, <2>3
<1>6. AnsweredIsMade'
  BY DEF CheckoutIInv, AnsweredIsMade
<1>7. CreatedIsMade'
  <2> SUFFICES ASSUME NEW o \in Call, call'[o].pc = "created"
               PROVE  \E m \in made' : m.key = Key(o)' /\ m.offer = call'[o].offer
    BY DEF CreatedIsMade
  <2>1. CASE o # c
    BY <1>1, <2>1 DEF CheckoutIInv, CreatedIsMade, Key
  <2>2. CASE o = c
    <3>1. PICK m \in made : m.key = [call |-> c, attempt |-> r.attempt]
      BY <1>1, <2>2
    <3>2. m.key = Key(o)' /\ m.key.call = c
      BY <1>1, <2>2, <3>1 DEF Key
    <3>3. SentForCall(m)'
      BY <1>5
    <3>. QED BY <2>2, <3>2, <3>3 DEF SentForCall, Priced
  <2>. QED BY <2>1, <2>2
<1>. QED BY <1>2, <1>4, <1>5, <1>6, <1>7 DEF CheckoutIInv

\* The types of what a call can become.
CallType ==
    {Idle} \cup [pc : {"begun"}, plan : Plan]
    \cup [pc : {"ready", "sent", "created"}, plan : Plan, offer : OfferType, attempt : Attempt]
    \cup [pc : {"notFound", "failed"}]

\* A call that moves, with answers only taken away.
LEMMA CallTypeStep ==
    ASSUME CheckoutTypeOK, UNCHANGED <<posts, made>>, answers' \subseteq answers,
           NEW c \in Call, NEW r \in CallType, call' = [call EXCEPT ![c] = r]
    PROVE  CheckoutTypeOK'
BY DEF CheckoutTypeOK, CallType

\* The next attempt, or the end.
LEMMA TryAgainIInv ==
    ASSUME CheckoutIInv, UNCHANGED <<vars, posts, made>>, answers' \subseteq answers,
           NEW c \in Call, call[c].pc = "sent", TryAgain(c)
    PROVE  CheckoutIInv'
<1>1. call[c] \in [pc : {"sent"}, plan : Plan, offer : OfferType, attempt : Attempt]
  BY DEF CheckoutIInv, CheckoutTypeOK, Idle
<1>2. CASE call[c].attempt < MaxRetries
  <2>. DEFINE r == [call[c] EXCEPT !.pc = "ready", !.attempt = @ + 1]
  <2>1. call' = [call EXCEPT ![c] = r]
    BY <1>2 DEF TryAgain, CheckoutIInv, CheckoutTypeOK
  <2>2. call[c].attempt + 1 \in Attempt
    BY <1>1, <1>2, CheckoutAssumption DEF Attempt
  <2>3. r \in [pc : {"ready"}, plan : Plan, offer : OfferType, attempt : Attempt]
        /\ r.plan = call[c].plan /\ r.offer = call[c].offer /\ r.pc = "ready"
    BY <1>1, <2>2
  <2>4. r \in CallType
    BY <2>3 DEF CallType
  <2>5. r.offer \in offered[r.plan]
    BY <2>3 DEF CheckoutIInv, CallsOffered, Priced
  <2>. HIDE DEF r
  <2>6. CheckoutTypeOK'
    BY <2>1, <2>4, CallTypeStep DEF CheckoutIInv
  <2>. QED BY <2>1, <2>3, <2>5, <2>6, OneCall DEF Priced
<1>3. CASE ~(call[c].attempt < MaxRetries)
  <2>1. call' = [call EXCEPT ![c] = [pc |-> "failed"]]
    BY <1>3 DEF TryAgain, Replies
  <2>2. CheckoutTypeOK'
    BY <2>1, CallTypeStep DEF CallType, CheckoutIInv
  <2>. QED BY <2>1, <2>2, OneCall
<1>. QED BY <1>2, <1>3

\* A call begins, about a plan it has not read yet.
LEMMA BeginIInv ==
    ASSUME CheckoutIInv, NEW c \in Call, BeginCheckout(c)
    PROVE  CheckoutIInv'
<1>1. PICK p \in Plan : call' = [call EXCEPT ![c] = [pc |-> "begun", plan |-> p]]
  BY DEF BeginCheckout
<1>2. call[c].pc = "idle" /\ UNCHANGED <<vars, posts, made, answers>>
  BY DEF BeginCheckout, Idle
<1>3. CheckoutTypeOK'
  BY <1>1, <1>2, CallTypeStep DEF CallType, CheckoutIInv
<1>. QED BY <1>1, <1>2, <1>3, OneCall

\* The call reads its plan: the price was offered while the plan was active.
LEMMA GetPlanIInv ==
    ASSUME CheckoutIInv, NEW c \in Call, GetPlanWithTenant(c)
    PROVE  CheckoutIInv'
<1>. DEFINE p == call[c].plan
<1>1. p \in Plan /\ call[c].pc = "begun" /\ UNCHANGED <<vars, posts, made, answers>>
  BY DEF GetPlanWithTenant, CheckoutIInv, CheckoutTypeOK, Idle
<1>2. CASE plans[p] = None \/ ~plans[p].active
  <2>1. call' = [call EXCEPT ![c] = [pc |-> "notFound"]]
    BY <1>2 DEF GetPlanWithTenant, Replies
  <2>2. CheckoutTypeOK'
    BY <1>1, <2>1, CallTypeStep DEF CallType, CheckoutIInv
  <2>. QED BY <1>1, <2>1, <2>2, OneCall
<1>3. CASE ~(plans[p] = None \/ ~plans[p].active)
  <2>. DEFINE r == [pc |-> "ready", plan |-> p, offer |-> Offer(plans[p]), attempt |-> 0]
  <2>1. call' = [call EXCEPT ![c] = r]
    BY <1>3 DEF GetPlanWithTenant
  <2>2. plans[p] \in Row /\ Offer(plans[p]) \in offered[p]
    BY <1>1, <1>3 DEF CheckoutIInv, IInv, TypeOK, ActiveIsOffered
  <2>3. Offer(plans[p]) \in OfferType
    BY <2>2 DEF Offer, OfferType, Row
  <2>4. r \in CallType
    BY <1>1, <2>3, CheckoutAssumption DEF CallType, Attempt
  <2>5. CheckoutTypeOK'
    BY <1>1, <2>1, <2>4, CallTypeStep DEF CheckoutIInv
  <2>. QED BY <1>1, <2>1, <2>2, <2>5, OneCall
<1>. QED BY <1>2, <1>3

\* A call that is given up has made no promise.
LEMMA GiveUpIInv ==
    ASSUME CheckoutIInv, NEW c \in Call, GiveUp(c)
    PROVE  CheckoutIInv'
<1>1. /\ call' = [call EXCEPT ![c] = [pc |-> "failed"]] /\ call[c].pc # "idle"
      /\ UNCHANGED <<vars, posts, made>> /\ answers' \subseteq answers
  BY DEF GiveUp, Replies
<1>2. CheckoutTypeOK'
  BY <1>1, CallTypeStep DEF CallType, CheckoutIInv
<1>. QED BY <1>1, <1>2, OneCall

\* An answer is of a post the call sent; a link is of something that was made.
LEMMA ReceiveIInv ==
    ASSUME CheckoutIInv, NEW c \in Call, Receive(c)
    PROVE  CheckoutIInv'
<1>1. call[c] \in [pc : {"sent"}, plan : Plan, offer : OfferType, attempt : Attempt]
  BY DEF Receive, CheckoutIInv, CheckoutTypeOK, Idle
<1>2. PICK a \in answers :
        /\ a.key = Key(c) /\ answers' = answers \ {a}
        /\ CASE a.code = "201" -> call' = [call EXCEPT ![c].pc = "created"]
             [] a.code = "4xx" -> Replies(c, "failed")
             [] a.code = "5xx" -> TryAgain(c)
  BY DEF Receive
<1>3. a.code \in Code /\ UNCHANGED <<vars, posts, made>> /\ answers' \subseteq answers
  BY <1>2 DEF Receive, CheckoutIInv, CheckoutTypeOK
<1>4. CASE a.code = "201"
  <2>. DEFINE r == [call[c] EXCEPT !.pc = "created"]
  <2>1. call' = [call EXCEPT ![c] = r]
    BY <1>2, <1>4 DEF CheckoutIInv, CheckoutTypeOK
  <2>2. /\ r \in [pc : {"created"}, plan : Plan, offer : OfferType, attempt : Attempt]
        /\ r.plan = call[c].plan /\ r.offer = call[c].offer /\ r.pc = "created"
        /\ r.attempt = call[c].attempt
    BY <1>1
  <2>3. r \in CallType
    BY <2>2 DEF CallType
  <2>4. r.offer \in offered[r.plan]
    BY <1>1, <2>2 DEF CheckoutIInv, CallsOffered, Priced
  <2>5. \E m \in made : m.key = [call |-> c, attempt |-> r.attempt]
    BY <1>2, <1>4, <2>2 DEF CheckoutIInv, AnsweredIsMade, Key
  <2>. HIDE DEF r
  <2>6. CheckoutTypeOK'
    BY <1>3, <2>1, <2>3, CallTypeStep DEF CheckoutIInv
  <2>7. Priced(c)
    BY <1>1 DEF Priced
  <2>. QED BY <1>3, <2>1, <2>2, <2>4, <2>5, <2>6, <2>7, OneCall
<1>5. CASE a.code = "4xx"
  <2>1. call' = [call EXCEPT ![c] = [pc |-> "failed"]]
    BY <1>2, <1>5 DEF Replies
  <2>2. CheckoutTypeOK'
    BY <1>3, <2>1, CallTypeStep DEF CallType, CheckoutIInv
  <2>. QED BY <1>1, <1>3, <2>1, <2>2, OneCall
<1>6. CASE a.code = "5xx"
  <2>1. TryAgain(c)
    BY <1>2, <1>6
  <2>. QED BY <1>1, <1>3, <2>1, TryAgainIInv
<1>. QED BY <1>3, <1>4, <1>5, <1>6 DEF Code

\* An attempt whose time is up leaves its post where it is.
LEMMA TimeOutIInv ==
    ASSUME CheckoutIInv, NEW c \in Call, TimeOut(c)
    PROVE  CheckoutIInv'
BY TryAgainIInv DEF TimeOut

\* A post carries the price its call has read.
LEMMA PostIInv ==
    ASSUME CheckoutIInv, NEW c \in Call, Post(c)
    PROVE  CheckoutIInv'
<1>. DEFINE r == [call[c] EXCEPT !.pc = "sent"]
<1>0. PICK n : n = [key |-> Key(c), plan |-> call[c].plan, offer |-> call[c].offer]
  OBVIOUS
<1>1. call[c] \in [pc : {"ready"}, plan : Plan, offer : OfferType, attempt : Attempt]
  BY DEF Post, CheckoutIInv, CheckoutTypeOK, Idle
<1>2. /\ posts' = posts \cup {n} /\ UNCHANGED <<vars, answers, made>>
      /\ call' = [call EXCEPT ![c] = r]
  BY <1>0 DEF Post, CheckoutIInv, CheckoutTypeOK
<1>3. /\ r \in [pc : {"sent"}, plan : Plan, offer : OfferType, attempt : Attempt]
      /\ r.pc = "sent" /\ r.plan = call[c].plan /\ r.offer = call[c].offer
  BY <1>1
<1>4. /\ n \in [key : KeyType, plan : Plan, offer : OfferType]
      /\ n.key.call = c /\ n.plan = call[c].plan /\ n.offer = call[c].offer
  BY <1>1, <1>0 DEF Key, KeyType
<1>5. Priced(c) /\ call[c].offer \in offered[call[c].plan]
  BY <1>1 DEF CheckoutIInv, CallsOffered, Priced
<1>. HIDE DEF r
<1>6. \A o \in Call : call'[o] = IF o = c THEN r ELSE call[o]
  BY <1>2 DEF CheckoutIInv, CheckoutTypeOK
<1>7. IInv' /\ UNCHANGED offered
  <2>1. [Next]_vars
    BY <1>2 DEF vars
  <2>. QED BY <1>2, <2>1, NextIInv DEF CheckoutIInv, vars
<1>8. CheckoutTypeOK'
  BY <1>2, <1>3, <1>4 DEF CheckoutIInv, CheckoutTypeOK
<1>9. CallsOffered'
  BY <1>3, <1>5, <1>6, <1>7 DEF CheckoutIInv, CallsOffered, Priced
<1>10. \A m \in posts' \cup made' : SentForCall(m)'
  <2>1. ASSUME NEW m \in posts \cup made PROVE SentForCall(m)'
    <3>1. m.key.call \in Call /\ SentForCall(m)
      BY DEF CheckoutIInv, CheckoutTypeOK, KeyType
    <3>. QED BY <1>3, <1>5, <1>6, <1>7, <3>1 DEF SentForCall, Priced
  <2>2. SentForCall(n)'
    BY <1>3, <1>4, <1>5, <1>6, <1>7 DEF SentForCall, Priced
  <2>. QED BY <1>2, <2>1, <2>2
<1>11. AnsweredIsMade'
  BY <1>2 DEF CheckoutIInv, AnsweredIsMade
<1>12. CreatedIsMade'
  BY <1>2, <1>3, <1>6 DEF CheckoutIInv, CreatedIsMade, Key
<1>. QED BY <1>7, <1>8, <1>9, <1>10, <1>11, <1>12 DEF CheckoutIInv

\* Mercado Pago, and the network: what is made comes from a post.
LEMMA ExternalIInv ==
    ASSUME CheckoutIInv, NEW m \in posts, Carry(m) \/ Drop(m)
    PROVE  CheckoutIInv'
<1>. DEFINE n == [key |-> m.key, plan |-> m.plan, offer |-> m.offer, external_reference |-> m.key.call]
<1>1. /\ posts' = posts \ {m} /\ made' \in {made, made \cup {n}} /\ UNCHANGED <<vars, call>>
  BY DEF Carry, Drop
<1>2. m \in [key : KeyType, plan : Plan, offer : OfferType]
  BY DEF CheckoutIInv, CheckoutTypeOK
<1>3. /\ n \in [key : KeyType, plan : Plan, offer : OfferType, external_reference : Call]
      /\ n.key = m.key /\ n.plan = m.plan /\ n.offer = m.offer
  BY <1>2 DEF KeyType
<1>4. \A a \in answers' \ answers : a.key = m.key /\ a.code \in Code /\ (a.code = "201" => n \in made')
  BY DEF Carry, Drop
<1>5. answers' \subseteq [key : KeyType, code : Code]
  <2>1. CASE UNCHANGED answers
    BY <2>1 DEF CheckoutIInv, CheckoutTypeOK
  <2>2. CASE \E code \in Code : answers' = answers \cup {[key |-> m.key, code |-> code]}
    BY <1>2, <2>2 DEF CheckoutIInv, CheckoutTypeOK
  <2>. QED BY <2>1, <2>2 DEF Carry, Drop
<1>. HIDE DEF n
<1>6. IInv' /\ UNCHANGED offered
  <2>1. [Next]_vars
    BY <1>1 DEF vars
  <2>. QED BY <1>1, <2>1, NextIInv DEF CheckoutIInv, vars
<1>7. CheckoutTypeOK'
  BY <1>1, <1>3, <1>5 DEF CheckoutIInv, CheckoutTypeOK
<1>8. CallsOffered'
  BY <1>1, <1>6 DEF CheckoutIInv, CallsOffered, Priced
<1>9. \A o \in posts' \cup made' : SentForCall(o)'
  <2>1. \A o \in posts \cup made : SentForCall(o)'
    BY <1>1, <1>6 DEF CheckoutIInv, SentForCall, Priced
  <2>2. SentForCall(n)'
    BY <1>3, <2>1 DEF SentForCall, Priced
  <2>. QED BY <1>1, <2>1, <2>2
<1>10. AnsweredIsMade'
  <2>1. \A a \in answers : a.code = "201" => \E o \in made' : o.key = a.key
    BY <1>1 DEF CheckoutIInv, AnsweredIsMade
  <2>. QED BY <1>3, <1>4, <2>1 DEF AnsweredIsMade
<1>11. CreatedIsMade'
  BY <1>1 DEF CheckoutIInv, CreatedIsMade, Key
<1>. QED BY <1>6, <1>7, <1>8, <1>9, <1>10, <1>11 DEF CheckoutIInv

\* Every step of the checkout, which is also one of the plans or leaves them.
LEMMA CheckoutNextIInv == CheckoutIInv /\ [CheckoutNext]_<<vars, mpvars>> => CheckoutIInv'
<1> SUFFICES ASSUME CheckoutIInv, [CheckoutNext]_<<vars, mpvars>> PROVE CheckoutIInv'
  OBVIOUS
<1>1. CASE UNCHANGED mpvars
  <2>1. [Next]_vars /\ IInv
    BY IsPlansStep DEF CheckoutIInv
  <2>2. IInv' /\ Grows
    BY <2>1, NextIInv, GrowsStep
  <2>. QED BY <1>1, <2>2, PlansStep
<1>2. ASSUME NEW c \in Call,
             \/ BeginCheckout(c) \/ GetPlanWithTenant(c) \/ Post(c)
             \/ Receive(c) \/ TimeOut(c) \/ GiveUp(c)
      PROVE  CheckoutIInv'
  BY <1>2, BeginIInv, GetPlanIInv, PostIInv, ReceiveIInv, TimeOutIInv, GiveUpIInv
<1>3. ASSUME NEW m \in posts, Carry(m) \/ Drop(m) PROVE CheckoutIInv'
  BY <1>3, ExternalIInv
<1>. QED BY <1>1, <1>2, <1>3 DEF CheckoutNext, CheckoutStep

\* The invariant of the checkout holds in every run.
LEMMA CheckoutInvariance == CheckoutSpec => []CheckoutIInv
BY CheckoutInitIInv, CheckoutNextIInv, PTL DEF CheckoutSpec

\* What a customer can be asked to pay (payment/handler.go, CreatePreference and
\* CreateSubscriptionMP) was the plan's price at a time when it was active.
THEOREM MadeAsOfferedHolds == CheckoutSpec => []MadeAsOffered
<1>1. CheckoutIInv => MadeAsOffered
  BY DEF CheckoutIInv, MadeAsOffered, SentForCall
<1>. QED BY CheckoutInvariance, <1>1, PTL

\* A link that is handed out stands for something Mercado Pago has made
\* (payment/mercadopago.go, doRequest), whichever attempts were lost before.
THEOREM CreatedIsMadeHolds == CheckoutSpec => []CreatedIsMade
<1>1. CheckoutIInv => CreatedIsMade
  BY DEF CheckoutIInv
<1>. QED BY CheckoutInvariance, <1>1, PTL

-----------------------------------------------------------------------------
(***************************************************************************)
(* Checkout implements PaymentLinks.                                        *)
(***************************************************************************)
\* Nothing is sent or made.
LEMMA AgreeInit == CheckoutInit => LinksAgree
BY DEF CheckoutInit, LinksAgree

\* A step that sends and makes no other deal, when a call that comes by a deal has sent nothing.
LEMMA NoNewDeal ==
    ASSUME LinksAgree,
           \A m \in posts' \cup made' :
              \E n \in posts \cup made : n.key.call = m.key.call /\ DealOf(n) = DealOf(m),
           \A n \in posts \cup made : Priced(n.key.call)' =>
              Priced(n.key.call) /\ DealOf(call[n.key.call])' = DealOf(call[n.key.call])
    PROVE  LinksAgree'
<1> SUFFICES ASSUME NEW m \in posts' \cup made'
             PROVE  /\ Priced(m.key.call)' => DealOf(m) = DealOf(call[m.key.call])'
                    /\ \A n \in posts' \cup made' : n.key.call = m.key.call => DealOf(n) = DealOf(m)
  BY DEF LinksAgree, DealOf
<1>1. PICK o \in posts \cup made : o.key.call = m.key.call /\ DealOf(o) = DealOf(m)
  OBVIOUS
<1>2. Priced(m.key.call)' => DealOf(m) = DealOf(call[m.key.call])'
  BY <1>1 DEF LinksAgree
<1>3. ASSUME NEW n \in posts' \cup made', n.key.call = m.key.call PROVE DealOf(n) = DealOf(m)
  <2>1. PICK l \in posts \cup made : l.key.call = n.key.call /\ DealOf(l) = DealOf(n)
    OBVIOUS
  <2>. QED BY <1>1, <1>3, <2>1 DEF LinksAgree
<1>. QED BY <1>2, <1>3

\* One call moves and keeps its deal, or has sent nothing, or gives its deal up.
LEMMA OneCallAgrees ==
    ASSUME CheckoutIInv, LinksAgree, UNCHANGED <<posts, made>>,
           NEW c \in Call, NEW r, call' = [call EXCEPT ![c] = r],
           \/ call[c].pc \in {"idle", "begun"}
           \/ Priced(c) /\ DealOf(r) = DealOf(call[c])
           \/ r.pc = "failed"
    PROVE  LinksAgree'
<1>1. \A o \in Call : call'[o] = IF o = c THEN r ELSE call[o]
  BY DEF CheckoutIInv, CheckoutTypeOK
<1>2. \A n \in posts \cup made : n.key.call \in Call /\ call[n.key.call].pc \notin {"idle", "begun"}
  BY DEF CheckoutIInv, CheckoutTypeOK, KeyType, SentForCall
<1>3. ASSUME NEW n \in posts \cup made, Priced(n.key.call)'
      PROVE  Priced(n.key.call) /\ DealOf(call[n.key.call])' = DealOf(call[n.key.call])
  BY <1>1, <1>2, <1>3 DEF Priced, DealOf
<1>. QED BY <1>3, NoNewDeal

\* What a post carries is its call's deal.
LEMMA PostAgrees == ASSUME CheckoutIInv, LinksAgree, NEW c \in Call, Post(c) PROVE LinksAgree'
<1>. DEFINE r == [call[c] EXCEPT !.pc = "sent"]
<1>0. PICK n : n = [key |-> Key(c), plan |-> call[c].plan, offer |-> call[c].offer]
  OBVIOUS
<1>1. call[c] \in [pc : {"ready"}, plan : Plan, offer : OfferType, attempt : Attempt]
  BY DEF Post, CheckoutIInv, CheckoutTypeOK, Idle
<1>2. posts' = posts \cup {n} /\ UNCHANGED made /\ call' = [call EXCEPT ![c] = r]
  BY <1>0 DEF Post, CheckoutIInv, CheckoutTypeOK
<1>3. DealOf(r) = DealOf(call[c]) /\ Priced(c)
  BY <1>1 DEF DealOf, Priced
<1>4. n.key.call = c /\ DealOf(n) = DealOf(call[c])
  BY <1>0 DEF Key, DealOf
<1>. HIDE DEF r
<1>5. \A o \in Call : call'[o] = IF o = c THEN r ELSE call[o]
  BY <1>2 DEF CheckoutIInv, CheckoutTypeOK
<1>6. \A m \in posts \cup made : m.key.call \in Call
  BY DEF CheckoutIInv, CheckoutTypeOK, KeyType
<1>7. \A o \in Call : Priced(o)' => Priced(o) /\ DealOf(call[o])' = DealOf(call[o])
  BY <1>3, <1>5 DEF Priced, DealOf
<1>8. ASSUME NEW m \in posts' \cup made'
      PROVE  /\ m.key.call \in Call
             /\ Priced(m.key.call) => DealOf(m) = DealOf(call[m.key.call])
  BY <1>2, <1>4, <1>6 DEF LinksAgree
<1>9. ASSUME NEW m \in posts' \cup made', NEW o \in posts' \cup made', o.key.call = m.key.call
      PROVE  DealOf(o) = DealOf(m)
  <2>1. CASE m.key.call = c
    BY <1>3, <1>8, <1>9, <2>1
  <2>2. CASE m.key.call # c
    <3>1. m \in posts \cup made /\ o \in posts \cup made
      BY <1>2, <1>4, <1>9, <2>2
    <3>. QED BY <1>9, <3>1 DEF LinksAgree
  <2>. QED BY <2>1, <2>2
<1>10. ASSUME NEW m \in posts' \cup made', Priced(m.key.call)'
       PROVE  DealOf(m) = DealOf(call[m.key.call])'
  BY <1>7, <1>8, <1>10
<1>. QED BY <1>9, <1>10 DEF LinksAgree, DealOf

\* The next attempt is for the same deal, or the call fails.
LEMMA TryAgainAgrees ==
    ASSUME CheckoutIInv, LinksAgree, UNCHANGED <<posts, made>>, NEW c \in Call, call[c].pc = "sent", TryAgain(c)
    PROVE  LinksAgree'
<1>1. call[c] \in [pc : {"sent"}, plan : Plan, offer : OfferType, attempt : Attempt]
  BY DEF CheckoutIInv, CheckoutTypeOK, Idle
<1>2. CASE call[c].attempt < MaxRetries
  <2>. DEFINE r == [call[c] EXCEPT !.pc = "ready", !.attempt = @ + 1]
  <2>1. call' = [call EXCEPT ![c] = r]
    BY <1>2 DEF TryAgain, CheckoutIInv, CheckoutTypeOK
  <2>2. Priced(c) /\ DealOf(r) = DealOf(call[c])
    BY <1>1 DEF Priced, DealOf
  <2>. HIDE DEF r
  <2>. QED BY <2>1, <2>2, OneCallAgrees
<1>3. CASE ~(call[c].attempt < MaxRetries)
  <2>1. call' = [call EXCEPT ![c] = [pc |-> "failed"]]
    BY <1>3 DEF TryAgain, Replies
  <2>. QED BY <2>1, OneCallAgrees
<1>. QED BY <1>2, <1>3

\* An answer leaves the call's deal, or takes it.
LEMMA ReceiveAgrees == ASSUME CheckoutIInv, LinksAgree, NEW c \in Call, Receive(c) PROVE LinksAgree'
<1>1. call[c] \in [pc : {"sent"}, plan : Plan, offer : OfferType, attempt : Attempt] /\ UNCHANGED <<posts, made>>
  BY DEF Receive, CheckoutIInv, CheckoutTypeOK, Idle
<1>2. PICK a \in answers :
        CASE a.code = "201" -> call' = [call EXCEPT ![c].pc = "created"]
          [] a.code = "4xx" -> Replies(c, "failed")
          [] a.code = "5xx" -> TryAgain(c)
  BY DEF Receive
<1>3. a.code \in Code
  BY DEF CheckoutIInv, CheckoutTypeOK
<1>4. CASE a.code = "201"
  <2>. DEFINE r == [call[c] EXCEPT !.pc = "created"]
  <2>1. call' = [call EXCEPT ![c] = r]
    BY <1>2, <1>4 DEF CheckoutIInv, CheckoutTypeOK
  <2>2. Priced(c) /\ DealOf(r) = DealOf(call[c])
    BY <1>1 DEF Priced, DealOf
  <2>. HIDE DEF r
  <2>. QED BY <1>1, <2>1, <2>2, OneCallAgrees
<1>5. CASE a.code = "4xx"
  <2>1. call' = [call EXCEPT ![c] = [pc |-> "failed"]]
    BY <1>2, <1>5 DEF Replies
  <2>. QED BY <1>1, <2>1, OneCallAgrees
<1>6. CASE a.code = "5xx"
  BY <1>1, <1>2, <1>6, TryAgainAgrees
<1>. QED BY <1>3, <1>4, <1>5, <1>6 DEF Code

\* Every step.
LEMMA AgreeStep == ASSUME CheckoutIInv, LinksAgree, [CheckoutNext]_<<vars, mpvars>> PROVE LinksAgree'
<1>1. CASE UNCHANGED mpvars
  BY <1>1 DEF mpvars, LinksAgree, Priced, DealOf
<1>2. ASSUME NEW c \in Call, BeginCheckout(c) PROVE LinksAgree'
  <2>1. PICK p \in Plan : call' = [call EXCEPT ![c] = [pc |-> "begun", plan |-> p]]
    BY <1>2 DEF BeginCheckout
  <2>2. call[c].pc = "idle" /\ UNCHANGED <<posts, made>>
    BY <1>2 DEF BeginCheckout, Idle
  <2>. QED BY <2>1, <2>2, OneCallAgrees
<1>3. ASSUME NEW c \in Call, GetPlanWithTenant(c) PROVE LinksAgree'
  <2>1. PICK r : call' = [call EXCEPT ![c] = r]
    BY <1>3 DEF GetPlanWithTenant, Replies
  <2>. QED BY <1>3, <2>1, OneCallAgrees DEF GetPlanWithTenant
<1>4. ASSUME NEW c \in Call, TimeOut(c) PROVE LinksAgree'
  BY <1>4, TryAgainAgrees DEF TimeOut
<1>5. ASSUME NEW c \in Call, GiveUp(c) PROVE LinksAgree'
  BY <1>5, OneCallAgrees DEF GiveUp, Replies
<1>6. ASSUME NEW m \in posts, Carry(m) \/ Drop(m) PROVE LinksAgree'
  <2>. DEFINE n == [key |-> m.key, plan |-> m.plan, offer |-> m.offer, external_reference |-> m.key.call]
  <2>1. posts' \subseteq posts /\ made' \in {made, made \cup {n}} /\ UNCHANGED call
    BY <1>6 DEF Carry, Drop
  <2>2. n.key.call = m.key.call /\ DealOf(n) = DealOf(m)
    BY DEF DealOf
  <2>. HIDE DEF n
  <2>3. \A o \in posts' \cup made' : \E l \in posts \cup made : l.key.call = o.key.call /\ DealOf(l) = DealOf(o)
    BY <2>1, <2>2
  <2>4. \A l \in posts \cup made : Priced(l.key.call)' =>
           Priced(l.key.call) /\ DealOf(call[l.key.call])' = DealOf(call[l.key.call])
    BY <2>1 DEF Priced, DealOf
  <2>. QED BY <2>3, <2>4, NoNewDeal
<1>. QED BY <1>1, <1>2, <1>3, <1>4, <1>5, <1>6, PostAgrees, ReceiveAgrees DEF CheckoutNext, CheckoutStep

\* The links agree in every run.
LEMMA AgreeInvariance == CheckoutSpec => [](CheckoutIInv /\ LinksAgree)
<1>1. CheckoutInit => CheckoutIInv /\ LinksAgree
  BY CheckoutInitIInv, AgreeInit
<1>2. (CheckoutIInv /\ LinksAgree) /\ [CheckoutNext]_<<vars, mpvars>> => (CheckoutIInv /\ LinksAgree)'
  BY CheckoutNextIInv, AgreeStep
<1>. QED BY <1>1, <1>2, PTL DEF CheckoutSpec

\* Of what was made for a call, the deals.
LEMMA LinkIs ==
    /\ LinkView = [c \in Call |-> LinkView[c]] /\ LinkView' = [c \in Call |-> LinkView'[c]]
    /\ \A c \in Call : LinkView[c] = {DealOf(m) : m \in {n \in made : n.key.call = c}}
    /\ \A c \in Call : LinkView'[c] = {DealOf(m) : m \in {n \in made' : n.key.call = c}}
BY DEF LinkView, DealOf

\* What a call was told changes with that call only.
LEMMA AnswerIs ==
    /\ AnswerView = [c \in Call |-> AnswerView[c]] /\ AnswerView' = [c \in Call |-> AnswerView'[c]]
    /\ \A c \in Call :
          /\ UNCHANGED call[c] => AnswerView'[c] = AnswerView[c]
          /\ call[c].pc \notin {"created", "notFound", "failed"} => AnswerView[c] = None
          /\ call'[c].pc \notin {"created", "notFound", "failed"} => AnswerView'[c] = None
          /\ call'[c].pc \in {"notFound", "failed"} => AnswerView'[c] = Links!Refusal
          /\ call'[c].pc = "created" => AnswerView'[c] = Links!Told(DealOf(call[c])')
<1>1. AnswerView = [c \in Call |-> AnswerView[c]] /\ AnswerView' = [c \in Call |-> AnswerView'[c]]
  BY DEF AnswerView
<1>2. ASSUME NEW c \in Call
      PROVE  /\ UNCHANGED call[c] => AnswerView'[c] = AnswerView[c]
             /\ call[c].pc \notin {"created", "notFound", "failed"} => AnswerView[c] = None
             /\ call'[c].pc \notin {"created", "notFound", "failed"} => AnswerView'[c] = None
             /\ call'[c].pc \in {"notFound", "failed"} => AnswerView'[c] = Links!Refusal
             /\ call'[c].pc = "created" => AnswerView'[c] = Links!Told(DealOf(call[c])')
  BY DEF AnswerView, Links!Refusal, Links!Told, DealOf
<1>. QED BY <1>1, <1>2

\* A step that makes nothing leaves the links.
LEMMA SameLinks == ASSUME UNCHANGED made PROVE LinkView' = LinkView
BY DEF LinkView, DealOf

\* One call moves, and nothing is made: it is answered, refused, or told nothing yet.
LEMMA OneCallTold ==
    ASSUME CheckoutIInv, LinksAgree, UNCHANGED <<offered, made>>,
           NEW c \in Call, NEW r, call' = [call EXCEPT ![c] = r],
           call[c].pc \notin {"created", "notFound", "failed"},
           r.pc = "created" => \E m \in made : m.key.call = c /\ DealOf(m) = DealOf(r)
    PROVE  Links!Next \/ UNCHANGED <<offered, LinkView, AnswerView>>
<1>1. call'[c] = r /\ \A o \in Call \ {c} : call'[o] = call[o]
  BY DEF CheckoutIInv, CheckoutTypeOK
<1>2. /\ AnswerView[c] = None
      /\ \A o \in Call \ {c} : AnswerView'[o] = AnswerView[o]
  BY <1>1, AnswerIs
<1>3. AnswerView' = [AnswerView EXCEPT ![c] = AnswerView'[c]]
  BY <1>2, AnswerIs
<1>4. LinkView' = LinkView
  BY SameLinks
<1>5. CASE r.pc = "created"
  <2>1. PICK m \in made : m.key.call = c /\ DealOf(m) = DealOf(r)
    BY <1>5
  <2>2. DealOf(m) \in LinkView[c]
    BY <2>1, LinkIs
  <2>3. DealOf(call[c])' = DealOf(r)
    BY <1>1 DEF DealOf
  <2>4. AnswerView'[c] = Links!Told(DealOf(m))
    BY <1>1, <1>5, <2>1, <2>3, AnswerIs
  <2>5. Links!Answer(c)
    BY <1>2, <1>3, <1>4, <2>2, <2>4 DEF Links!Answer
  <2>. QED BY <2>5 DEF Links!Next
<1>6. CASE r.pc \in {"notFound", "failed"}
  <2>1. AnswerView'[c] = Links!Refusal
    BY <1>1, <1>6, AnswerIs
  <2>2. Links!Refuse(c)
    BY <1>2, <1>3, <1>4, <2>1 DEF Links!Refuse
  <2>. QED BY <2>2 DEF Links!Next
<1>7. CASE r.pc \notin {"created", "notFound", "failed"}
  <2>1. AnswerView'[c] = AnswerView[c]
    BY <1>1, <1>2, <1>7, AnswerIs
  <2>2. AnswerView' = AnswerView
    BY <1>2, <2>1, AnswerIs
  <2>. QED BY <1>4, <2>2
<1>. QED BY <1>5, <1>6, <1>7

\* The end of an attempt.
LEMMA TryAgainTold ==
    ASSUME CheckoutIInv, LinksAgree, UNCHANGED <<offered, made>>, NEW c \in Call, call[c].pc = "sent", TryAgain(c)
    PROVE  Links!Next \/ UNCHANGED <<offered, LinkView, AnswerView>>
<1>1. call[c] \in [pc : {"sent"}, plan : Plan, offer : OfferType, attempt : Attempt]
  BY DEF CheckoutIInv, CheckoutTypeOK, Idle
<1>2. PICK r : call' = [call EXCEPT ![c] = r] /\ r.pc \in {"ready", "failed"}
  <2>1. CASE call[c].attempt < MaxRetries
    <3>. DEFINE r == [call[c] EXCEPT !.pc = "ready", !.attempt = @ + 1]
    <3>1. call' = [call EXCEPT ![c] = r]
      BY <2>1 DEF TryAgain, CheckoutIInv, CheckoutTypeOK
    <3>2. r.pc = "ready"
      BY <1>1
    <3>. QED BY <3>1, <3>2
  <2>2. CASE ~(call[c].attempt < MaxRetries)
    <3>. DEFINE r == [pc |-> "failed"]
    <3>1. call' = [call EXCEPT ![c] = r]
      BY <2>2 DEF TryAgain, Replies
    <3>2. r.pc = "failed"
      OBVIOUS
    <3>. QED BY <3>1, <3>2
  <2>. QED BY <2>1, <2>2
<1>. QED BY <1>2, OneCallTold

\* What an answer tells.
LEMMA ReceiveTold ==
    ASSUME CheckoutIInv, LinksAgree, NEW c \in Call, Receive(c)
    PROVE  Links!Next \/ UNCHANGED <<offered, LinkView, AnswerView>>
<1>1. /\ call[c] \in [pc : {"sent"}, plan : Plan, offer : OfferType, attempt : Attempt]
      /\ UNCHANGED <<offered, made>>
  BY DEF Receive, CheckoutIInv, CheckoutTypeOK, Idle, vars
<1>2. PICK a \in answers :
        /\ a.key = Key(c)
        /\ CASE a.code = "201" -> call' = [call EXCEPT ![c].pc = "created"]
             [] a.code = "4xx" -> Replies(c, "failed")
             [] a.code = "5xx" -> TryAgain(c)
  BY DEF Receive
<1>3. a.code \in Code
  BY DEF CheckoutIInv, CheckoutTypeOK
<1>4. CASE a.code = "201"
  <2>. DEFINE r == [call[c] EXCEPT !.pc = "created"]
  <2>1. call' = [call EXCEPT ![c] = r]
    BY <1>2, <1>4 DEF CheckoutIInv, CheckoutTypeOK
  <2>2. PICK m \in made : m.key = Key(c)
    BY <1>2, <1>4 DEF CheckoutIInv, AnsweredIsMade
  <2>3. m.key.call = c
    BY <2>2 DEF Key
  <2>4. Priced(c) /\ DealOf(r) = DealOf(call[c])
    BY <1>1 DEF Priced, DealOf
  <2>5. DealOf(m) = DealOf(r)
    BY <2>3, <2>4 DEF LinksAgree
  <2>. HIDE DEF r
  <2>. QED BY <1>1, <2>1, <2>3, <2>5, OneCallTold
<1>5. CASE a.code = "4xx"
  <2>1. call' = [call EXCEPT ![c] = [pc |-> "failed"]]
    BY <1>2, <1>5 DEF Replies
  <2>. QED BY <1>1, <2>1, OneCallTold
<1>6. CASE a.code = "5xx"
  BY <1>1, <1>2, <1>6, TryAgainTold
<1>. QED BY <1>3, <1>4, <1>5, <1>6 DEF Code

\* What is made first for a call is its link; what is made again is the same.
LEMMA CarryMakes ==
    ASSUME CheckoutIInv, LinksAgree, NEW m \in posts, Carry(m) \/ Drop(m)
    PROVE  Links!Next \/ UNCHANGED <<offered, LinkView, AnswerView>>
<1>. DEFINE n == [key |-> m.key, plan |-> m.plan, offer |-> m.offer, external_reference |-> m.key.call]
            c == m.key.call
<1>1. made' \in {made, made \cup {n}} /\ UNCHANGED <<vars, call>>
  BY DEF Carry, Drop
<1>2. UNCHANGED <<offered, AnswerView>>
  BY <1>1 DEF vars, AnswerView, DealOf
<1>3. c \in Call /\ m.plan \in Plan /\ m.offer \in offered[m.plan]
  BY DEF CheckoutIInv, CheckoutTypeOK, KeyType, SentForCall
<1>4. n.key.call = c /\ DealOf(n) = [plan |-> m.plan, offer |-> m.offer]
  BY DEF DealOf
<1>5. CASE made' = made
  BY <1>2, <1>5, SameLinks
<1>6. CASE made' = made \cup {n}
  <2>. HIDE DEF n, c
  <2>1. ASSUME NEW o \in Call, o # c PROVE LinkView'[o] = LinkView[o]
    <3>1. {l \in made' : l.key.call = o} = {l \in made : l.key.call = o}
      BY <1>4, <1>6, <2>1
    <3>. QED BY <3>1, LinkIs
  <2>2. LinkView'[c] = LinkView[c] \cup {DealOf(n)}
    <3>1. {l \in made' : l.key.call = c} = {l \in made : l.key.call = c} \cup {n}
      BY <1>4, <1>6
    <3>2. LinkView'[c] = {DealOf(l) : l \in {k \in made : k.key.call = c} \cup {n}}
      BY <1>3, <3>1, LinkIs
    <3>. QED BY <1>3, <3>2, LinkIs
  <2>3. CASE \E l \in made : l.key.call = c
    <3>1. PICK l \in made : l.key.call = c
      BY <2>3
    <3>2. DealOf(n) = DealOf(l)
      BY <1>4, <3>1 DEF LinksAgree, DealOf, c
    <3>3. DealOf(n) \in LinkView[c]
      BY <1>3, <3>1, <3>2, LinkIs
    <3>4. LinkView' = LinkView
      BY <2>1, <2>2, <3>3, LinkIs
    <3>. QED BY <1>2, <3>4
  <2>4. CASE ~\E l \in made : l.key.call = c
    <3>1. LinkView[c] = {}
      BY <1>3, <2>4, LinkIs
    <3>2. LinkView' = [LinkView EXCEPT ![c] = {[plan |-> m.plan, offer |-> m.offer]}]
      BY <1>3, <1>4, <2>1, <2>2, <3>1, LinkIs
    <3>3. Links!Make(c, m.plan)
      BY <1>2, <1>3, <3>1, <3>2 DEF Links!Make
    <3>. QED BY <1>3, <3>3 DEF Links!Next
  <2>. QED BY <2>3, <2>4
<1>. QED BY <1>1, <1>5, <1>6

\* Each step of the checkout is a step of the promise, or none.
LEMMA LinksStep ==
    ASSUME CheckoutIInv, LinksAgree, [CheckoutNext]_<<vars, mpvars>>
    PROVE  Links!Next \/ UNCHANGED <<offered, LinkView, AnswerView>>
<1>1. CASE UNCHANGED mpvars
  <2>1. [Next]_vars /\ IInv
    BY IsPlansStep DEF CheckoutIInv
  <2>2. \A p \in Plan : offered[p] \subseteq offered'[p]
    BY <2>1, GrowsStep DEF Grows
  <2>3. UNCHANGED <<LinkView, AnswerView>>
    BY <1>1, SameLinks DEF mpvars, AnswerView, DealOf
  <2>4. Links!Offer
    BY <2>2, <2>3 DEF Links!Offer
  <2>. QED BY <2>4 DEF Links!Next
<1>2. ASSUME NEW c \in Call, BeginCheckout(c) PROVE Links!Next \/ UNCHANGED <<offered, LinkView, AnswerView>>
  <2>1. PICK p \in Plan : call' = [call EXCEPT ![c] = [pc |-> "begun", plan |-> p]]
    BY <1>2 DEF BeginCheckout
  <2>2. call[c].pc = "idle" /\ UNCHANGED <<offered, made>>
    BY <1>2 DEF BeginCheckout, Idle, vars
  <2>. QED BY <2>1, <2>2, OneCallTold
<1>3. ASSUME NEW c \in Call, GetPlanWithTenant(c) PROVE Links!Next \/ UNCHANGED <<offered, LinkView, AnswerView>>
  <2>1. PICK r : call' = [call EXCEPT ![c] = r] /\ r.pc \in {"ready", "notFound"}
    <3>. DEFINE p == call[c].plan
    <3>1. CASE plans[p] = None \/ ~plans[p].active
      <4>. DEFINE r == [pc |-> "notFound"]
      <4>1. call' = [call EXCEPT ![c] = r]
        BY <1>3, <3>1 DEF GetPlanWithTenant, Replies
      <4>2. r.pc = "notFound"
        OBVIOUS
      <4>. QED BY <4>1, <4>2
    <3>2. CASE ~(plans[p] = None \/ ~plans[p].active)
      <4>. DEFINE r == [pc |-> "ready", plan |-> p, offer |-> Offer(plans[p]), attempt |-> 0]
      <4>1. call' = [call EXCEPT ![c] = r]
        BY <1>3, <3>2 DEF GetPlanWithTenant
      <4>2. r.pc = "ready"
        OBVIOUS
      <4>. QED BY <4>1, <4>2
    <3>. QED BY <3>1, <3>2
  <2>2. call[c].pc = "begun" /\ UNCHANGED <<offered, made>>
    BY <1>3 DEF GetPlanWithTenant, vars
  <2>. QED BY <2>1, <2>2, OneCallTold
<1>4. ASSUME NEW c \in Call, Post(c) PROVE Links!Next \/ UNCHANGED <<offered, LinkView, AnswerView>>
  <2>. DEFINE r == [call[c] EXCEPT !.pc = "sent"]
  <2>1. call[c] \in [pc : {"ready"}, plan : Plan, offer : OfferType, attempt : Attempt]
    BY <1>4 DEF Post, CheckoutIInv, CheckoutTypeOK, Idle
  <2>2. call' = [call EXCEPT ![c] = r] /\ UNCHANGED <<offered, made>>
    BY <1>4 DEF Post, CheckoutIInv, CheckoutTypeOK, vars
  <2>3. r.pc = "sent" /\ call[c].pc = "ready"
    BY <2>1
  <2>. HIDE DEF r
  <2>. QED BY <2>2, <2>3, OneCallTold
<1>5. ASSUME NEW c \in Call, TimeOut(c) PROVE Links!Next \/ UNCHANGED <<offered, LinkView, AnswerView>>
  BY <1>5, TryAgainTold DEF TimeOut, vars
<1>6. ASSUME NEW c \in Call, GiveUp(c) PROVE Links!Next \/ UNCHANGED <<offered, LinkView, AnswerView>>
  BY <1>6, OneCallTold DEF GiveUp, Replies, vars
<1>. QED BY <1>1, <1>2, <1>3, <1>4, <1>5, <1>6, ReceiveTold, CarryMakes DEF CheckoutNext, CheckoutStep

\* Nothing is on offer, made or told.
LEMMA LinksInit == CheckoutInit => Links!Init
BY DEF CheckoutInit, Init, Idle, Links!Init, LinkView, AnswerView

\* The checkout (payment/handler.go and mercadopago.go) implements PaymentLinks: whatever is
\* tried again, lost or late, all that is made for a call is one deal that its plan had on
\* offer, and the call is told once, of that deal or that there is none.
THEOREM LinksRefinement == CheckoutSpec => LinksSpec
<1>1. (CheckoutIInv /\ LinksAgree) /\ [CheckoutNext]_<<vars, mpvars>>
        => [Links!Next]_<<offered, LinkView, AnswerView>>
  BY LinksStep
<1>. QED BY <1>1, LinksInit, AgreeInvariance, PTL DEF CheckoutSpec, LinksSpec, Links!Spec
=============================================================================
