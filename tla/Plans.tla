------------------------------- MODULE Plans -------------------------------
(***************************************************************************)
(* The plans of a tenant and what is sold under them: the table             *)
(* membership_plans, with every request that writes it, and CreateSubscription *)
(* as far as it depends on the plan (internal/membership/service.go,        *)
(* repository.go).  A request issues one statement at a time and holds no   *)
(* lock, so others come in between.  Billing models what becomes of a       *)
(* subscription afterwards.                                                 *)
(***************************************************************************)
EXTENDS Naturals

CONSTANTS
    Plan,       \* ids of membership_plans rows
    Request,    \* runs of UpdatePlan and CreateSubscription
    Price,
    Interval,   \* weekly, monthly
    None

\* The columns of a row: price_cents stands for each that the update writes and nothing else
\* depends on (the name, the description, the wash limit, what is included).
Row == [price : Price, interval : Interval, active : BOOLEAN]

ASSUME PlansAssumption == None \notin Price \cup Interval \cup Row

VARIABLES
    plans,      \* the table: None until the row is inserted
    req,        \* the handler runs
    subs,       \* subscriptions: the run that inserted it, its plan and the length of its period
    events,     \* payment_events of the activations by hand
    offered     \* by plan: everything it has offered while active; nothing reads it

vars == <<plans, req, subs, events, offered>>

Offer(row) == [price |-> row.price, interval |-> row.interval]

\* UpdatePlanRequest: a field that is absent is to be left alone.
Change == [price : Price \cup {None}, interval : Interval \cup {None}]

Method == {"manual", "mercadopago"}
Idle == [pc |-> "idle"]

TypeOK ==
    /\ plans \in [Plan -> Row \cup {None}]
    /\ req \in [Request -> {Idle}
          \cup [pc : {"update"}, plan : Plan, change : Change]
          \cup [pc : {"merged"}, plan : Plan, change : Change, row : Row]
          \cup [pc : {"subscribe"}, plan : Plan, method : Method]
          \cup [pc : {"sold", "record"}, plan : Plan, method : Method, row : Row]
          \cup [pc : {"ok", "notFound", "inactive", "failed"}]]
    /\ subs \subseteq [id : Request, plan : Plan, interval : Interval]
    /\ events \subseteq [subscription_id : Request, amount_cents : Price]
    /\ offered \in [Plan -> SUBSET [price : Price, interval : Interval]]

Init ==
    /\ plans = [p \in Plan |-> None]
    /\ req = [q \in Request |-> Idle]
    /\ subs = {} /\ events = {}
    /\ offered = [p \in Plan |-> {}]

Ends(q, answer) == req' = [req EXCEPT ![q] = [pc |-> answer]]

-----------------------------------------------------------------------------
(***************************************************************************)
(* Plans.  Creating and deactivating one is a single statement.             *)
(***************************************************************************)
CreatePlan(p) ==
    /\ plans[p] = None
    /\ \E price \in Price, interval \in Interval :
          LET row == [price |-> price, interval |-> interval, active |-> TRUE] IN
          /\ plans' = [plans EXCEPT ![p] = row]
          /\ offered' = [offered EXCEPT ![p] = @ \cup {Offer(row)}]
    /\ UNCHANGED <<req, subs, events>>

DeactivatePlan(p) ==
    /\ plans[p] # None
    /\ plans' = [plans EXCEPT ![p].active = FALSE]
    /\ UNCHANGED <<req, subs, events, offered>>

BeginUpdate(q) ==
    /\ req[q] = Idle
    /\ \E p \in Plan, c \in Change : req' = [req EXCEPT ![q] = [pc |-> "update", plan |-> p, change |-> c]]
    /\ UNCHANGED <<plans, subs, events, offered>>

Merge(row, c) ==
    [row EXCEPT !.price = IF c.price = None THEN @ ELSE c.price,
                !.interval = IF c.interval = None THEN @ ELSE c.interval]

\* GetPlanByID, and the fields of the request put over what it found.
ReadAndMerge(q) ==
    /\ req[q].pc = "update"
    /\ LET p == req[q].plan IN
       IF plans[p] = None THEN Ends(q, "notFound")
       ELSE req' = [req EXCEPT ![q] = [pc |-> "merged", plan |-> p, change |-> @.change,
                                       row |-> Merge(plans[p], @.change)]]
    /\ UNCHANGED <<plans, subs, events, offered>>

\* A mutant: active is among the columns written.
WriteAll(q) ==
    /\ req[q].pc = "merged"
    /\ LET p == req[q].plan row == req[q].row IN
       /\ plans' = [plans EXCEPT ![p] = row]
       /\ offered' = IF row.active THEN [offered EXCEPT ![p] = @ \cup {Offer(row)}] ELSE offered
    /\ Ends(q, "ok")
    /\ UNCHANGED <<subs, events>>

\* repo.UpdatePlan writes every column but active, the ones it has only read too.
Write(q) ==
    /\ req[q].pc = "merged"
    /\ LET p == req[q].plan row == req[q].row IN
       /\ plans' = [plans EXCEPT ![p].price = row.price, ![p].interval = row.interval]
       /\ offered' = IF plans[p].active THEN [offered EXCEPT ![p] = @ \cup {Offer(row)}] ELSE offered
    /\ Ends(q, "ok")
    /\ UNCHANGED <<subs, events>>

-----------------------------------------------------------------------------
(***************************************************************************)
(* CreateSubscription.                                                      *)
(***************************************************************************)
BeginSubscribe(q) ==
    /\ req[q] = Idle
    /\ \E p \in Plan, m \in Method : req' = [req EXCEPT ![q] = [pc |-> "subscribe", plan |-> p, method |-> m]]
    /\ UNCHANGED <<plans, subs, events, offered>>

\* "Verify plan exists and is active", and the period from its interval.
ReadPlan(q) ==
    /\ req[q].pc = "subscribe"
    /\ LET p == req[q].plan IN
       IF plans[p] = None THEN Ends(q, "notFound")
       ELSE IF ~plans[p].active THEN Ends(q, "inactive")
       ELSE req' = [req EXCEPT ![q] = [pc |-> "sold", plan |-> p, method |-> @.method, row |-> plans[p]]]
    /\ UNCHANGED <<plans, subs, events, offered>>

InsertSubscription(q) ==
    /\ req[q].pc = "sold"
    /\ subs' = subs \cup {[id |-> q, plan |-> req[q].plan, interval |-> req[q].row.interval]}
    /\ IF req[q].method = "manual" THEN req' = [req EXCEPT ![q].pc = "record"] ELSE Ends(q, "ok")
    /\ UNCHANGED <<plans, events, offered>>

\* A mutant: the price is looked up again.
RecordPaymentAfresh(q) ==
    /\ req[q].pc = "record"
    /\ events' = events \cup {[subscription_id |-> q, amount_cents |-> plans[req[q].plan].price]}
    /\ Ends(q, "ok")
    /\ UNCHANGED <<plans, subs, offered>>

RecordPayment(q) ==
    /\ req[q].pc = "record"
    /\ events' = events \cup {[subscription_id |-> q, amount_cents |-> req[q].row.price]}
    /\ Ends(q, "ok")
    /\ UNCHANGED <<plans, subs, offered>>

\* A statement fails, the client goes away or the process ends: what was written stays.
Fail(q) ==
    /\ req[q].pc \in {"update", "merged", "subscribe", "sold", "record"}
    /\ Ends(q, "failed")
    /\ UNCHANGED <<plans, subs, events, offered>>

Handle(q) ==
    \/ BeginUpdate(q) \/ ReadAndMerge(q) \/ Write(q)
    \/ BeginSubscribe(q) \/ ReadPlan(q) \/ InsertSubscription(q) \/ RecordPayment(q)
    \/ Fail(q)

Next ==
    \/ \E p \in Plan : CreatePlan(p) \/ DeactivatePlan(p)
    \/ \E q \in Request : Handle(q)

Spec == Init /\ [][Next]_vars

-----------------------------------------------------------------------------
\* A plan that was deactivated stays so, whatever updates had read it before: UpdatePlan
\* reads the whole row but leaves active out of what it writes.
DeactivatedStaysSo ==
    [][\A p \in Plan : plans[p] # None /\ ~plans[p].active
                       => plans'[p] # None /\ ~plans'[p].active]_vars

\* The price recorded for a subscription and the length of its period were offered together
\* by its plan while it was active, however the plan is updated meanwhile.
ChargedAsOffered ==
    \A e \in events : \E s \in subs :
        /\ s.id = e.subscription_id
        /\ [price |-> e.amount_cents, interval |-> s.interval] \in offered[s.plan]

\* A row is never deleted: an update that has read one finds it again.
Found == \A q \in Request : req[q].pc = "merged" => plans[req[q].plan] # None

\* The invariant that carries it: what a run has read was offered, and one that is about to
\* record has inserted its subscription.
Sold == \A q \in Request : req[q].pc \in {"sold", "record"} => Offer(req[q].row) \in offered[req[q].plan]
Inserted ==
    \A q \in Request : req[q].pc = "record" =>
        [id |-> q, plan |-> req[q].plan, interval |-> req[q].row.interval] \in subs
ActiveIsOffered ==
    \A p \in Plan : plans[p] # None /\ plans[p].active => Offer(plans[p]) \in offered[p]

IInv == TypeOK /\ Found /\ ActiveIsOffered /\ Sold /\ Inserted /\ ChargedAsOffered
=============================================================================
