--------------------------- MODULE Billing_proofs ---------------------------
(***************************************************************************)
(* Proofs about Billing, for every value of its constants: the invariant    *)
(* IInv is inductive, what Billing claims of its states and steps follows   *)
(* from it, and Billing implements PaymentLedger.                           *)
(***************************************************************************)
EXTENDS Billing, TLAPS

USE BillingAssumption

-----------------------------------------------------------------------------
(***************************************************************************)
(* What the two writes of a row, and the writes of a run's record, leave.   *)
(***************************************************************************)
\* UPDATE subscriptions SET status = ..., updated_at = NOW().
LEMMA UpdateRow ==
    ASSUME TypeOK, NEW s \in Subs, NEW status \in SubscriptionStatus, Update(s, status)
    PROVE  /\ subscriptions' \in [Subs -> Row]
           /\ subscriptions'[s].status = status
           /\ subscriptions'[s].updated_at = now
           /\ subscriptions'[s].current_period_start = subscriptions[s].current_period_start
           /\ subscriptions'[s].current_period_end = subscriptions[s].current_period_end
           /\ \A t \in Subs \ {s} : subscriptions'[t] = subscriptions[t]
<1>. DEFINE row == [[subscriptions[s] EXCEPT !.status = status] EXCEPT !.updated_at = now]
<1>1. subscriptions[s] \in Row /\ now \in Nat
  BY DEF TypeOK
<1>2. /\ row \in Row
      /\ row.status = status
      /\ row.updated_at = now
      /\ row.current_period_start = subscriptions[s].current_period_start
      /\ row.current_period_end = subscriptions[s].current_period_end
  BY <1>1 DEF Row
<1>3. subscriptions' = [subscriptions EXCEPT ![s] = row]
  BY DEF Update, TypeOK
<1>. HIDE DEF row
<1>. QED BY <1>2, <1>3 DEF TypeOK

\* A run that only moves on keeps everything but its place.
LEMMA HookMoves ==
    ASSUME TypeOK, NEW w \in Webhooks, NEW from, NEW to \in HookRunning \cup HookDone,
           HookStep(w, from, to)
    PROVE  /\ hook' \in [Webhooks -> Hook]
           /\ hook[w].pc = from /\ hook'[w].pc = to
           /\ \A v \in Webhooks : /\ hook'[v].payment = hook[v].payment
                                  /\ hook'[v].status = hook[v].status
                                  /\ hook'[v].sub = hook[v].sub
           /\ \A v \in Webhooks \ {w} : hook'[v].pc = hook[v].pc
<1>1. hook[w] \in Hook
  BY DEF TypeOK
<1>2. [hook[w] EXCEPT !.pc = to] \in Hook
  BY <1>1 DEF Hook
<1>. QED BY <1>1, <1>2 DEF HookStep, TypeOK, Hook

-----------------------------------------------------------------------------
(***************************************************************************)
(* The invariant holds initially, and every action preserves it.            *)
(***************************************************************************)
\* The empty tables satisfy the invariant.
LEMMA InitIInv == Init => IInv
BY DEF Init, IInv, TypeOK, RunsWellFormed, EventsMatchRuns, OneEventPerPayment,
       PastDueHasRejection, SweepListFresh, Row, Event, MPPayment, Hook, Req,
       SubscriptionStatus, Methods, PaymentStatus, HookRunning, HookDone, ReqRunning,
       Exists

\* A payment of Mercado Pago never goes back to none, and no row depends on it.
LEMMA MercadoPagoIInv == IInv /\ MercadoPago => IInv'
<1> SUFFICES ASSUME IInv, MercadoPago PROVE IInv'
  OBVIOUS
<1>. USE DEF IInv, MercadoPago, CreateMPPayment, UpdateMPPayment
<1>1. TypeOK'
  BY DEF TypeOK, MPPayment, PaymentStatus
<1>2. RunsWellFormed'
  BY DEF TypeOK, MPPayment, RunsWellFormed, Exists
<1>3. EventsMatchRuns'
  BY DEF EventsMatchRuns, EventOf, ManualEvent
<1>4. OneEventPerPayment' /\ PastDueHasRejection' /\ SweepListFresh'
  BY DEF OneEventPerPayment, PastDueHasRejection, SweepListFresh
<1>. QED BY <1>1, <1>2, <1>3, <1>4

\* The steps of a run that write its own record only.
LEMMA RunOnlyIInv ==
    ASSUME IInv, NEW w \in Webhooks,
           NEW run \in Hook, hook' = [hook EXCEPT ![w] = run],
           run.pc # "idle" => run.payment \in Payments /\ mp[run.payment].status # "none",
           run.pc = "lookup" => run.status \in PaymentStatus,
           run.pc = "record" => run.status \in PaymentStatus /\ run.sub \in Subs
                                /\ Exists(run.sub),
           \/ /\ run.pc \in {"check", "fetch", "lookup", "record", "skipped", "dropped"}
              /\ hook[w].pc \in {"idle", "check", "fetch", "lookup", "record"}
           \/ /\ run = [hook[w] EXCEPT !.pc = "failed"]
              /\ hook[w].pc \in HookRunning,
           UNCHANGED <<subscriptions, events, mp, req, cron, now>>, faults' \in 0..MaxFaults
    PROVE  IInv'
<1>. USE DEF IInv
<1>1. TypeOK'
  BY DEF TypeOK
<1>2. RunsWellFormed'
  BY DEF TypeOK, RunsWellFormed, Exists, Hook
<1>3. EventsMatchRuns'
  <2>1. run.pc \notin {"apply", "applied", "noted"}
    BY DEF TypeOK, Hook
  <2>2. ASSUME run = [hook[w] EXCEPT !.pc = "failed"]
        PROVE  EventOf(w)' = EventOf(w) /\ hook'[w].pc = "failed"
    BY <2>2 DEF TypeOK, Hook, EventOf
  <2>3. ASSUME hook[w].pc \in {"idle", "check", "fetch", "lookup", "record"}
        PROVE  \A e \in events : e.id # w
    BY <2>3, BillingAssumption DEF EventsMatchRuns
  <2>. QED BY <2>1, <2>2, <2>3 DEF TypeOK, EventsMatchRuns, EventOf, ManualEvent
<1>4. OneEventPerPayment' /\ PastDueHasRejection' /\ SweepListFresh'
  BY DEF OneEventPerPayment, PastDueHasRejection, SweepListFresh
<1>. QED BY <1>1, <1>2, <1>3, <1>4

\* A delivered notification starts a run on a payment Mercado Pago has.
LEMMA HandleWebhookIInv ==
    ASSUME IInv, NEW w \in Webhooks, NEW p \in Payments, HandleWebhook(w, p) PROVE IInv'
<1>. DEFINE run == [[hook[w] EXCEPT !.pc = "check"] EXCEPT !.payment = p]
<1>1. hook[w] \in Hook
  BY DEF IInv, TypeOK
<1>2. run \in Hook /\ run.pc = "check" /\ run.payment = p
  BY <1>1 DEF Hook, HookRunning
<1>3. /\ hook' = [hook EXCEPT ![w] = run] /\ hook[w].pc = "idle" /\ mp[p].status # "none"
      /\ UNCHANGED <<subscriptions, events, mp, req, cron, now, faults>>
  BY DEF HandleWebhook, IInv, TypeOK
<1>4. faults \in 0..MaxFaults
  BY DEF IInv, TypeOK
<1>. HIDE DEF run
<1>. QED BY <1>2, <1>3, <1>4, RunOnlyIInv

\* The idempotency check, whether its query answers or fails.
LEMMA CheckIInv ==
    ASSUME IInv, NEW w \in Webhooks, CheckIdempotency(w) \/ CheckError(w) PROVE IInv'
<1>1. PICK to \in {"skipped", "fetch"} : HookStep(w, "check", to)
  BY DEF CheckIdempotency, CheckError
<1>. DEFINE run == [hook[w] EXCEPT !.pc = to]
<1>2. hook[w] \in Hook /\ hook' = [hook EXCEPT ![w] = run] /\ hook[w].pc = "check"
  BY <1>1 DEF IInv, TypeOK, HookStep
<1>3. run \in Hook /\ run.pc = to /\ run.payment = hook[w].payment
  BY <1>2 DEF Hook, HookRunning, HookDone
<1>4. run.payment \in Payments /\ mp[run.payment].status # "none"
  BY <1>2, <1>3 DEF IInv, RunsWellFormed
<1>5. UNCHANGED <<subscriptions, events, mp, req, cron, now>> /\ faults' \in 0..MaxFaults
  BY BillingAssumption DEF CheckIdempotency, CheckError, IInv, TypeOK
<1>. HIDE DEF run
<1>. QED BY <1>2, <1>3, <1>4, <1>5, RunOnlyIInv

\* The fetch fills in the status and the reference of the payment.
LEMMA FetchPaymentIInv ==
    ASSUME IInv, NEW w \in Webhooks, FetchPayment(w) PROVE IInv'
<1>. DEFINE payment == mp[hook[w].payment]
            run == [[[hook[w] EXCEPT !.pc = "lookup"] EXCEPT !.status = payment.status]
                         EXCEPT !.sub = payment.external_reference]
<1>1. /\ hook' = [hook EXCEPT ![w] = run] /\ hook[w] \in Hook /\ hook[w].pc = "fetch"
      /\ UNCHANGED <<subscriptions, events, mp, req, cron, now, faults>>
      /\ faults \in 0..MaxFaults
  BY DEF FetchPayment, IInv, TypeOK
<1>2. hook[w].payment \in Payments /\ payment \in MPPayment /\ payment.status # "none"
  BY <1>1 DEF IInv, TypeOK, RunsWellFormed
<1>3. /\ run \in Hook /\ run.pc = "lookup" /\ run.payment = hook[w].payment
      /\ run.status \in PaymentStatus
  BY <1>1, <1>2 DEF Hook, MPPayment, HookRunning
<1>. HIDE DEF run
<1>. QED BY <1>1, <1>2, <1>3, RunOnlyIInv

\* The lookup lets a run through only for a subscription that exists.
LEMMA LookupTenantIInv ==
    ASSUME IInv, NEW w \in Webhooks, LookupTenant(w) PROVE IInv'
<1>1. PICK to \in {"record", "dropped"} :
          /\ HookStep(w, "lookup", to)
          /\ to = "record" => hook[w].sub \in Subs /\ Exists(hook[w].sub)
  BY DEF LookupTenant
<1>. DEFINE run == [hook[w] EXCEPT !.pc = to]
<1>2. hook[w] \in Hook /\ hook' = [hook EXCEPT ![w] = run] /\ hook[w].pc = "lookup"
  BY <1>1 DEF IInv, TypeOK, HookStep
<1>3. /\ run \in Hook /\ run.pc = to /\ run.payment = hook[w].payment
      /\ run.status = hook[w].status /\ run.sub = hook[w].sub
  BY <1>2 DEF Hook, HookRunning, HookDone
<1>4. /\ run.payment \in Payments /\ mp[run.payment].status # "none"
      /\ run.status \in PaymentStatus
  BY <1>2, <1>3 DEF IInv, RunsWellFormed
<1>5. UNCHANGED <<subscriptions, events, mp, req, cron, now, faults>> /\ faults \in 0..MaxFaults
  BY DEF LookupTenant, IInv, TypeOK
<1>. HIDE DEF run
<1>. QED BY <1>1, <1>2, <1>3, <1>4, <1>5, RunOnlyIInv

\* A failed call ends its run, and what the run recorded stays true of it.
LEMMA WebhookErrorIInv ==
    ASSUME IInv, NEW w \in Webhooks, WebhookError(w) PROVE IInv'
<1>. DEFINE run == [hook[w] EXCEPT !.pc = "failed"]
<1>1. /\ hook[w] \in Hook /\ hook' = [hook EXCEPT ![w] = run]
      /\ hook[w].pc \in HookRunning
      /\ UNCHANGED <<subscriptions, events, mp, req, cron, now>>
      /\ faults' \in 0..MaxFaults
  BY BillingAssumption DEF IInv, TypeOK, WebhookError
<1>2. run \in Hook /\ run.pc = "failed" /\ run.payment = hook[w].payment
  BY <1>1 DEF Hook, HookDone
<1>3. run.payment \in Payments /\ mp[run.payment].status # "none"
  BY <1>1, <1>2 DEF IInv, RunsWellFormed, HookRunning
<1>4. run = [hook[w] EXCEPT !.pc = "failed"]
  OBVIOUS
<1>. HIDE DEF run
<1>. QED BY <1>1, <1>2, <1>3, <1>4, RunOnlyIInv

\* The insert either meets the constraint, or adds an event that no run and no
\* payment has yet.
LEMMA RecordPaymentIInv ==
    ASSUME IInv, NEW w \in Webhooks, RecordPayment(w) PROVE IInv'
<1>1. /\ hook[w] \in Hook /\ hook[w].pc = "record" /\ hook[w].payment \in Payments
      /\ mp[hook[w].payment].status # "none"
      /\ hook[w].status \in PaymentStatus /\ hook[w].sub \in Subs /\ Exists(hook[w].sub)
  BY DEF IInv, TypeOK, RunsWellFormed, RecordPayment
<1>2. UNCHANGED <<subscriptions, mp, req, cron, now, faults>> /\ faults \in 0..MaxFaults
  BY DEF IInv, TypeOK, RecordPayment
<1>3. CASE Recorded(hook[w].payment)
  <2>. DEFINE run == [hook[w] EXCEPT !.pc = "skipped"]
  <2>1. hook' = [hook EXCEPT ![w] = run] /\ UNCHANGED events
    BY <1>3 DEF IInv, TypeOK, RecordPayment, Conflict, HookStep
  <2>2. run \in Hook /\ run.pc = "skipped" /\ run.payment = hook[w].payment
    BY <1>1 DEF Hook, HookDone
  <2>. HIDE DEF run
  <2>. QED BY <1>1, <1>2, <2>1, <2>2, RunOnlyIInv
<1>4. CASE ~Recorded(hook[w].payment)
  <2>1. PICK to \in {"apply", "noted"} :
            /\ HookStep(w, "record", to)
            /\ to = "apply" <=> Decides(hook[w].status)
            /\ events' = events \cup {EventOf(w)}
    BY <1>4 DEF RecordPayment, Conflict
  <2>2. /\ hook' \in [Webhooks -> Hook] /\ hook'[w].pc = to
        /\ \A v \in Webhooks : EventOf(v)' = EventOf(v)
        /\ \A v \in Webhooks : /\ hook'[v].payment = hook[v].payment
                               /\ hook'[v].status = hook[v].status
                               /\ hook'[v].sub = hook[v].sub
        /\ \A v \in Webhooks \ {w} : hook'[v].pc = hook[v].pc
    BY <2>1, HookMoves DEF IInv, EventOf, HookRunning, HookDone
  <2>3. EventOf(w) \in Event
    BY <1>1 DEF EventOf, Event, Methods
  <2>4. TypeOK'
    BY <1>2, <2>1, <2>2, <2>3 DEF IInv, TypeOK
  <2>5. RunsWellFormed'
    BY <1>1, <1>2, <2>1, <2>2 DEF IInv, RunsWellFormed, Exists
  <2>6. EventsMatchRuns'
    BY <1>1, <1>2, <2>1, <2>2, BillingAssumption
    DEF IInv, EventsMatchRuns, ManualEvent, Decides, EventOf
  <2>7. OneEventPerPayment'
    BY <1>1, <1>4, <2>1 DEF IInv, OneEventPerPayment, Recorded, EventOf
  <2>8. PastDueHasRejection' /\ SweepListFresh'
    BY <1>2, <2>1 DEF IInv, PastDueHasRejection, SweepListFresh
  <2>. QED BY <2>4, <2>5, <2>6, <2>7, <2>8 DEF IInv
<1>. QED BY <1>3, <1>4

\* The one step that makes a subscription past_due has its rejection on record.
LEMMA UpdateStatusIInv ==
    ASSUME IInv, NEW w \in Webhooks, UpdateStatus(w) PROVE IInv'
<1>. DEFINE s == hook[w].sub
            status == Standing(hook[w].status)
<1>1. /\ HookStep(w, "apply", "applied") /\ Update(s, status)
      /\ UNCHANGED <<events, mp, req, cron, now, faults>>
  BY DEF UpdateStatus
<1>2. /\ s \in Subs /\ Exists(s) /\ Decides(hook[w].status) /\ EventOf(w) \in events
  BY <1>1 DEF IInv, RunsWellFormed, EventsMatchRuns, HookStep
<1>3. status \in SubscriptionStatus /\ (status = "past_due" => hook[w].status = "rejected")
  BY <1>2 DEF Standing, Decides, SubscriptionStatus
<1>. HIDE DEF s, status
<1>4. /\ subscriptions' \in [Subs -> Row]
      /\ subscriptions'[s].status = status /\ subscriptions'[s].updated_at = now
      /\ \A t \in Subs \ {s} : subscriptions'[t] = subscriptions[t]
  BY <1>1, <1>2, <1>3, UpdateRow DEF IInv
<1>5. \A t \in Subs : subscriptions'[t].status # "absent" <=> subscriptions[t].status # "absent"
  BY <1>2, <1>3, <1>4 DEF Exists, SubscriptionStatus
<1>6. /\ hook' \in [Webhooks -> Hook] /\ hook[w].pc = "apply" /\ hook'[w].pc = "applied"
      /\ \A v \in Webhooks : /\ hook'[v].payment = hook[v].payment
                             /\ hook'[v].status = hook[v].status
                             /\ hook'[v].sub = hook[v].sub
      /\ \A v \in Webhooks \ {w} : hook'[v].pc = hook[v].pc
  BY <1>1, HookMoves DEF IInv, HookDone
<1>7. TypeOK'
  BY <1>1, <1>4, <1>6 DEF IInv, TypeOK
<1>8. RunsWellFormed'
  BY <1>1, <1>2, <1>5, <1>6 DEF IInv, TypeOK, RunsWellFormed, Exists
<1>9. EventsMatchRuns'
  BY <1>1, <1>6, BillingAssumption DEF IInv, EventsMatchRuns, EventOf, ManualEvent
<1>10. OneEventPerPayment'
  BY <1>1 DEF IInv, OneEventPerPayment
<1>11. PastDueHasRejection'
  <2>1. CASE status = "past_due"
    <3>1. /\ EventOf(w).subscription_id = s
          /\ EventOf(w).source = "mercadopago" /\ EventOf(w).status = "rejected"
      BY <1>3, <2>1 DEF EventOf, s
    <3>. QED BY <1>1, <1>2, <1>4, <3>1 DEF IInv, PastDueHasRejection
  <2>2. CASE status # "past_due"
    BY <1>1, <1>4, <2>2 DEF IInv, PastDueHasRejection
  <2>. QED BY <2>1, <2>2
<1>12. SweepListFresh'
  <2>1. now \in Nat /\ cron.at \in Nat /\ cron.at <= now
    BY BillingAssumption DEF IInv, TypeOK, RunsWellFormed
  <2>. QED BY <1>1, <1>4, <2>1 DEF IInv, TypeOK, SweepListFresh
<1>. QED BY <1>7, <1>8, <1>9, <1>10, <1>11, <1>12 DEF IInv

-----------------------------------------------------------------------------
\* The steps of a request that write its own record only.
LEMMA RequestOnlyIInv ==
    ASSUME IInv, NEW r \in Requests,
           NEW run \in Req, req' = [req EXCEPT ![r] = run], run.sub \in Subs,
           \/ /\ run.pc = "insert" /\ req[r].pc = "idle" /\ ~Exists(run.sub)
              /\ \A other \in Requests : req[other].sub # run.sub
           \/ run.pc = "record" /\ req[r].pc = "idle" /\ Exists(run.sub)
           \/ run = [req[r] EXCEPT !.pc = "failed"],
           UNCHANGED <<subscriptions, events, mp, hook, cron, now>>, faults' \in 0..MaxFaults
    PROVE  IInv'
<1>. USE DEF IInv
<1>1. TypeOK'
  BY DEF TypeOK
<1>2. RunsWellFormed'
  <2>1. run = [req[r] EXCEPT !.pc = "failed"] => run.sub = req[r].sub /\ run.pc = "failed"
    BY DEF TypeOK, Req
  <2>. QED BY <2>1 DEF TypeOK, RunsWellFormed, Exists
<1>3. EventsMatchRuns'
  <2>1. CASE run = [req[r] EXCEPT !.pc = "failed"]
    <3>1. \A q \in Requests : ManualEvent(q)' = ManualEvent(q)
      BY <2>1 DEF TypeOK, Req, ManualEvent
    <3>2. run.pc = "failed"
      BY <2>1 DEF TypeOK, Req
    <3>. QED BY <3>1, <3>2 DEF TypeOK, EventsMatchRuns, EventOf
  <2>2. CASE req[r].pc = "idle"
    <3>1. \A e \in events : e.id # r
      BY <2>2, BillingAssumption DEF EventsMatchRuns
    <3>2. \A q \in Requests \ {r} : req'[q] = req[q] /\ ManualEvent(q)' = ManualEvent(q)
      BY DEF TypeOK, ManualEvent
    <3>3. req'[r].pc # "renew"
      BY <2>2 DEF TypeOK, Req
    <3>. QED BY <3>1, <3>2, <3>3 DEF TypeOK, EventsMatchRuns, EventOf
  <2>. QED BY <2>1, <2>2
<1>4. OneEventPerPayment' /\ PastDueHasRejection' /\ SweepListFresh'
  BY DEF OneEventPerPayment, PastDueHasRejection, SweepListFresh
<1>. QED BY <1>1, <1>2, <1>3, <1>4

\* A request starts with an id nobody has, or with a subscription that exists.
LEMMA StartIInv ==
    ASSUME IInv, NEW r \in Requests, NEW s \in Subs, NEW period \in Periods,
           StartCreateSubscription(r, s, period) \/ StartManualPayment(r, s, period)
    PROVE  IInv'
<1>1. period \in Nat /\ now \in Nat /\ faults \in 0..MaxFaults
  BY BillingAssumption DEF IInv, TypeOK
<1>2. CASE StartCreateSubscription(r, s, period)
  <2>. DEFINE run == [pc |-> "insert", sub |-> s, period |-> period, at |-> now]
  <2>1. run \in Req
    BY <1>1 DEF Req, ReqRunning
  <2>. QED BY <1>1, <1>2, <2>1, RequestOnlyIInv DEF StartCreateSubscription
<1>3. CASE StartManualPayment(r, s, period)
  <2>. DEFINE run == [pc |-> "record", sub |-> s, period |-> period, at |-> 0]
  <2>1. run \in Req
    BY <1>1 DEF Req, ReqRunning
  <2>. QED BY <1>1, <1>3, <2>1, RequestOnlyIInv DEF StartManualPayment
<1>. QED BY <1>2, <1>3

\* A failed statement ends its request.
LEMMA RequestErrorIInv ==
    ASSUME IInv, NEW r \in Requests, RequestError(r) PROVE IInv'
<1>. DEFINE run == [req[r] EXCEPT !.pc = "failed"]
<1>1. /\ req[r] \in Req /\ req' = [req EXCEPT ![r] = run] /\ req[r].pc \in ReqRunning
      /\ UNCHANGED <<subscriptions, events, mp, hook, cron, now>>
      /\ faults' \in 0..MaxFaults
  BY BillingAssumption DEF IInv, TypeOK, RequestError
<1>2. run \in Req /\ run.sub = req[r].sub
  BY <1>1 DEF Req
<1>3. run.sub \in Subs
  BY <1>1, <1>2 DEF IInv, RunsWellFormed, ReqRunning
<1>. QED BY <1>1, <1>2, <1>3, RequestOnlyIInv

\* A new row is active, and its id was known to its request only.
LEMMA InsertSubscriptionIInv ==
    ASSUME IInv, NEW r \in Requests, NEW method \in Methods, InsertSubscription(r, method)
    PROVE  IInv'
<1>. DEFINE s == req[r].sub
            row == [status |-> "active", payment_method |-> method,
                    current_period_start |-> req[r].at,
                    current_period_end |-> req[r].at + req[r].period, updated_at |-> now]
<1>1. PICK to \in {"activate", "ok"} : req' = [req EXCEPT ![r].pc = to]
  BY DEF InsertSubscription
<1>2. /\ req[r].pc = "insert" /\ subscriptions' = [subscriptions EXCEPT ![s] = row]
      /\ UNCHANGED <<events, mp, hook, cron, now, faults>>
  BY DEF InsertSubscription
<1>3. s \in Subs /\ ~Exists(s) /\ \A other \in Requests \ {r} : req[other].sub # s
  BY <1>2 DEF IInv, RunsWellFormed
<1>4. row \in Row
  BY DEF IInv, TypeOK, Req, Row, SubscriptionStatus
<1>5. row.status = "active" /\ row.updated_at = now
  OBVIOUS
<1>. HIDE DEF s, row
<1>6. \A q \in Requests : ManualEvent(q)' = ManualEvent(q)
  BY <1>1 DEF IInv, TypeOK, Req, ManualEvent
<1>7. /\ req' \in [Requests -> Req]
      /\ req'[r].pc = to /\ \A q \in Requests \ {r} : req'[q].pc = req[q].pc
      /\ \A q \in Requests : req'[q].sub = req[q].sub
  BY <1>1 DEF IInv, TypeOK, Req, ReqRunning
<1>8. TypeOK'
  BY <1>2, <1>3, <1>4, <1>7 DEF IInv, TypeOK
<1>9. RunsWellFormed'
  BY <1>2, <1>3, <1>5, <1>7 DEF IInv, TypeOK, RunsWellFormed, Exists, s
<1>10. EventsMatchRuns'
  BY <1>2, <1>6, <1>7 DEF IInv, EventsMatchRuns, EventOf
<1>11. OneEventPerPayment'
  BY <1>2 DEF IInv, OneEventPerPayment
<1>12. PastDueHasRejection'
  BY <1>2, <1>3, <1>5 DEF IInv, TypeOK, PastDueHasRejection
<1>13. SweepListFresh'
  BY <1>2, <1>3, <1>5 DEF IInv, TypeOK, SweepListFresh, RunsWellFormed
<1>. QED BY <1>8, <1>9, <1>10, <1>11, <1>12, <1>13 DEF IInv

\* The two inserts of a manual event, by a request that has none.
LEMMA ManualEventIInv ==
    ASSUME IInv, NEW r \in Requests, NEW run \in Req, req' = [req EXCEPT ![r] = run],
           req[r].pc \in {"activate", "record"}, run.pc \in {"ok", "renew"},
           run.sub = req[r].sub, events' = events \cup {ManualEvent(r)},
           UNCHANGED <<subscriptions, mp, hook, cron, now, faults>>
    PROVE  IInv'
<1>. USE DEF IInv
<1>1. req[r].sub \in Subs /\ Exists(req[r].sub)
  BY DEF RunsWellFormed
<1>2. ManualEvent(r) \in Event
  BY <1>1 DEF ManualEvent, Event, Methods, PaymentStatus
<1>3. \A q \in Requests : ManualEvent(q)' = ManualEvent(q)
  BY DEF TypeOK, ManualEvent
<1>4. TypeOK'
  BY <1>2 DEF TypeOK
<1>5. RunsWellFormed'
  BY <1>1 DEF TypeOK, RunsWellFormed, Exists
<1>6. EventsMatchRuns'
  <2>1. /\ ManualEvent(r).id = r /\ ManualEvent(r)' = ManualEvent(r)
    BY <1>3 DEF ManualEvent
  <2>. QED BY <1>3, <2>1, BillingAssumption DEF TypeOK, EventsMatchRuns, EventOf
<1>7. OneEventPerPayment'
  BY DEF OneEventPerPayment, ManualEvent
<1>8. PastDueHasRejection' /\ SweepListFresh'
  BY DEF PastDueHasRejection, SweepListFresh
<1>. QED BY <1>4, <1>5, <1>6, <1>7, <1>8

\* The payment of a manual activation.
LEMMA RecordActivationIInv ==
    ASSUME IInv, NEW r \in Requests, RecordActivation(r) PROVE IInv'
<1>. DEFINE run == [req[r] EXCEPT !.pc = "ok"]
<1>1. req[r] \in Req /\ req' = [req EXCEPT ![r] = run]
  BY DEF IInv, TypeOK, RecordActivation
<1>2. run \in Req /\ run.pc = "ok" /\ run.sub = req[r].sub
  BY <1>1 DEF Req
<1>. HIDE DEF run
<1>. QED BY <1>1, <1>2, ManualEventIInv DEF RecordActivation

\* The payment of a manual renewal, recorded before the renewal.
LEMMA RecordManualPaymentIInv ==
    ASSUME IInv, NEW r \in Requests, RecordManualPayment(r) PROVE IInv'
<1>. DEFINE run == [[req[r] EXCEPT !.pc = "renew"] EXCEPT !.at = now]
<1>1. req[r] \in Req /\ now \in Nat
  BY DEF IInv, TypeOK
<1>2. run \in Req /\ run.pc = "renew" /\ run.sub = req[r].sub
  BY <1>1 DEF Req, ReqRunning
<1>3. /\ req' = [req EXCEPT ![r] = run] /\ req[r].pc = "record"
      /\ events' = events \cup {ManualEvent(r)}
      /\ UNCHANGED <<subscriptions, mp, hook, cron, now, faults>>
  BY DEF IInv, TypeOK, RecordManualPayment
<1>. HIDE DEF run
<1>. QED BY <1>2, <1>3, ManualEventIInv

-----------------------------------------------------------------------------
\* Staff and cron write existing rows, and never make them past_due.
LEMMA RowWritten ==
    ASSUME IInv, NEW s \in Subs, Exists(s),
           subscriptions' \in [Subs -> Row],
           subscriptions'[s].status \in {"active", "cancelled"},
           subscriptions'[s].updated_at = now,
           \A t \in Subs \ {s} : subscriptions'[t] = subscriptions[t],
           \/ cron' = cron
           \/ cron' = [cron EXCEPT !.due = @ \ {s}],
           UNCHANGED <<events, mp, hook, now, faults>>
    PROVE  /\ \A t \in Subs : subscriptions'[t].status # "absent"
                              <=> subscriptions[t].status # "absent"
           /\ cron' \in [at: Nat, due: SUBSET Subs] /\ cron'.at = cron.at
           /\ cron'.due \subseteq cron.due
           /\ OneEventPerPayment' /\ PastDueHasRejection' /\ SweepListFresh'
<1>1. \A t \in Subs : subscriptions'[t].status # "absent" <=> subscriptions[t].status # "absent"
  BY DEF Exists
<1>2. cron' \in [at: Nat, due: SUBSET Subs] /\ cron'.at = cron.at /\ cron'.due \subseteq cron.due
  BY DEF IInv, TypeOK
<1>3. OneEventPerPayment' /\ PastDueHasRejection'
  BY DEF IInv, OneEventPerPayment, PastDueHasRejection
<1>4. SweepListFresh'
  BY <1>2 DEF IInv, TypeOK, RunsWellFormed, SweepListFresh
<1>. QED BY <1>1, <1>2, <1>3, <1>4

\* A renewal makes its row active, whatever it was.
LEMMA RenewSubscriptionIInv ==
    ASSUME IInv, NEW r \in Requests, RenewSubscription(r) PROVE IInv'
<1>. DEFINE s == req[r].sub
            row == [status |-> "active", payment_method |-> subscriptions[s].payment_method,
                    current_period_start |-> req[r].at,
                    current_period_end |-> req[r].at + req[r].period, updated_at |-> now]
            run == [req[r] EXCEPT !.pc = "ok"]
<1>1. /\ req[r].pc = "renew" /\ UNCHANGED <<events, mp, hook, cron, now, faults>>
      /\ subscriptions' = [subscriptions EXCEPT ![s] = row]
      /\ req' = [req EXCEPT ![r] = run]
  BY DEF IInv, TypeOK, RenewSubscription
<1>2. s \in Subs /\ Exists(s)
  BY <1>1 DEF IInv, RunsWellFormed
<1>3. row \in Row /\ row.status = "active" /\ row.updated_at = now
  BY <1>2 DEF IInv, TypeOK, Req, Row, SubscriptionStatus
<1>4. run \in Req /\ run.pc = "ok" /\ run.sub = s
  BY DEF IInv, TypeOK, Req
<1>. HIDE DEF row, run
<1>5. /\ subscriptions' \in [Subs -> Row]
      /\ subscriptions'[s].status = "active" /\ subscriptions'[s].updated_at = now
      /\ \A t \in Subs \ {s} : subscriptions'[t] = subscriptions[t]
  BY <1>1, <1>2, <1>3 DEF IInv, TypeOK
<1>. HIDE DEF s
<1>6. /\ \A t \in Subs : subscriptions'[t].status # "absent"
                         <=> subscriptions[t].status # "absent"
      /\ OneEventPerPayment' /\ PastDueHasRejection' /\ SweepListFresh'
  BY <1>1, <1>2, <1>5, RowWritten
<1>7. TypeOK'
  BY <1>1, <1>4, <1>5 DEF IInv, TypeOK
<1>8. RunsWellFormed'
  BY <1>1, <1>4, <1>6 DEF IInv, TypeOK, RunsWellFormed, Exists, s
<1>9. EventsMatchRuns'
  <2>1. \A q \in Requests : ManualEvent(q)' = ManualEvent(q)
    BY <1>1, <1>4 DEF IInv, TypeOK, ManualEvent, s
  <2>. QED BY <1>1, <1>4, <2>1 DEF IInv, TypeOK, EventsMatchRuns, EventOf
<1>. QED BY <1>6, <1>7, <1>8, <1>9 DEF IInv

\* Staff and cron cancel with the same statement.
LEMMA CancelIInv ==
    ASSUME IInv, NEW s \in Subs, CancelSubscription(s) \/ CronCancel(s) PROVE IInv'
<1>1. /\ Update(s, "cancelled") /\ UNCHANGED <<events, mp, hook, req, now, faults>>
      /\ cron' = cron \/ cron' = [cron EXCEPT !.due = @ \ {s}]
  BY DEF CancelSubscription, CronCancel
<1>2. Exists(s)
  BY DEF CancelSubscription, CronCancel, IInv, RunsWellFormed
<1>3. /\ subscriptions' \in [Subs -> Row]
      /\ subscriptions'[s].status = "cancelled" /\ subscriptions'[s].updated_at = now
      /\ \A t \in Subs \ {s} : subscriptions'[t] = subscriptions[t]
  BY <1>1, UpdateRow DEF IInv, SubscriptionStatus
<1>4. /\ \A t \in Subs : subscriptions'[t].status # "absent"
                         <=> subscriptions[t].status # "absent"
      /\ cron' \in [at: Nat, due: SUBSET Subs] /\ cron'.at = cron.at
      /\ cron'.due \subseteq cron.due
      /\ OneEventPerPayment' /\ PastDueHasRejection' /\ SweepListFresh'
  BY <1>1, <1>2, <1>3, RowWritten
<1>5. TypeOK'
  BY <1>1, <1>3, <1>4 DEF IInv, TypeOK
<1>6. RunsWellFormed'
  BY <1>1, <1>4 DEF IInv, TypeOK, RunsWellFormed, Exists
<1>7. EventsMatchRuns'
  BY <1>1 DEF IInv, EventsMatchRuns, EventOf, ManualEvent
<1>. QED BY <1>4, <1>5, <1>6, <1>7 DEF IInv

\* A list just read is all overdue.
LEMMA CronListIInv == ASSUME IInv, CronList PROVE IInv'
<1>1. /\ cron' = [at |-> now, due |-> {s \in Subs : Overdue(s)}]
      /\ UNCHANGED <<subscriptions, events, mp, hook, req, now, faults>>
  BY DEF CronList
<1>2. \A s \in Subs : Overdue(s) => Exists(s)
  BY DEF Overdue, Exists
<1>3. TypeOK' /\ RunsWellFormed'
  BY <1>1, <1>2 DEF IInv, TypeOK, RunsWellFormed, Exists
<1>4. EventsMatchRuns' /\ OneEventPerPayment' /\ PastDueHasRejection'
  BY <1>1 DEF IInv, EventsMatchRuns, EventOf, ManualEvent, OneEventPerPayment,
     PastDueHasRejection
<1>5. SweepListFresh'
  BY <1>1 DEF SweepListFresh, Overdue
<1>. QED BY <1>3, <1>4, <1>5 DEF IInv

\* A cancellation that fails leaves the row and drops it from the list.
LEMMA CronErrorIInv == ASSUME IInv, NEW s \in Subs, CronError(s) PROVE IInv'
<1>1. /\ cron' = [cron EXCEPT !.due = @ \ {s}] /\ faults' \in 0..MaxFaults
      /\ UNCHANGED <<subscriptions, events, mp, hook, req, now>>
  BY BillingAssumption DEF CronError, IInv, TypeOK
<1>2. cron' \in [at: Nat, due: SUBSET Subs] /\ cron'.at = cron.at /\ cron'.due \subseteq cron.due
  BY <1>1 DEF IInv, TypeOK
<1>3. TypeOK' /\ RunsWellFormed'
  BY <1>1, <1>2 DEF IInv, TypeOK, RunsWellFormed, Exists
<1>4. EventsMatchRuns' /\ OneEventPerPayment' /\ PastDueHasRejection'
  BY <1>1 DEF IInv, EventsMatchRuns, EventOf, ManualEvent, OneEventPerPayment,
     PastDueHasRejection
<1>5. SweepListFresh'
  BY <1>1, <1>2 DEF IInv, SweepListFresh
<1>. QED BY <1>3, <1>4, <1>5 DEF IInv

\* Growing older keeps an overdue row overdue.
LEMMA TickIInv == ASSUME IInv, Tick PROVE IInv'
<1>1. /\ now' = now + 1 /\ now < MaxTime
      /\ UNCHANGED <<subscriptions, events, mp, hook, req, cron, faults>>
  BY DEF Tick
<1>2. TypeOK' /\ RunsWellFormed'
  BY <1>1, BillingAssumption DEF IInv, TypeOK, RunsWellFormed, Exists
<1>3. EventsMatchRuns' /\ OneEventPerPayment' /\ PastDueHasRejection'
  BY <1>1 DEF IInv, EventsMatchRuns, EventOf, ManualEvent, OneEventPerPayment,
     PastDueHasRejection
<1>4. SweepListFresh'
  <2>1. \A s \in Subs : subscriptions[s].updated_at \in Nat
    BY DEF IInv, TypeOK, Row
  <2>. QED BY <1>1, <2>1, BillingAssumption DEF IInv, TypeOK, SweepListFresh
<1>. QED BY <1>2, <1>3, <1>4 DEF IInv

\* A crash fails every run, and the events of those past their insert remain.
LEMMA CrashIInv == ASSUME IInv, Crash PROVE IInv'
<1>1. UNCHANGED <<subscriptions, events, mp, now>> /\ faults' \in 0..MaxFaults
  BY BillingAssumption DEF Crash, IInv, TypeOK
<1>2. /\ hook' \in [Webhooks -> Hook]
      /\ \A w \in Webhooks :
            /\ hook'[w].payment = hook[w].payment /\ hook'[w].status = hook[w].status
            /\ hook'[w].sub = hook[w].sub
            /\ hook'[w].pc = IF hook[w].pc \in HookRunning THEN "failed" ELSE hook[w].pc
  <2>1. \A w \in Webhooks :
          LET run == [hook[w] EXCEPT !.pc = "failed"]
          IN  /\ run \in Hook /\ run.pc = "failed" /\ run.payment = hook[w].payment
              /\ run.status = hook[w].status /\ run.sub = hook[w].sub
    BY DEF IInv, TypeOK, Hook, HookDone
  <2>. QED BY <2>1 DEF IInv, TypeOK, Crash
<1>3. /\ req' \in [Requests -> Req]
      /\ \A r \in Requests :
            /\ req'[r].sub = req[r].sub
            /\ req'[r].pc = IF req[r].pc \in ReqRunning THEN "failed" ELSE req[r].pc
  <2>1. \A r \in Requests :
          LET run == [req[r] EXCEPT !.pc = "failed"]
          IN  run \in Req /\ run.pc = "failed" /\ run.sub = req[r].sub
    BY DEF IInv, TypeOK, Req
  <2>. QED BY <2>1 DEF IInv, TypeOK, Crash
<1>4. cron' \in [at: Nat, due: SUBSET Subs] /\ cron'.at = cron.at /\ cron'.due = {}
  BY DEF Crash, IInv, TypeOK
<1>5. TypeOK'
  BY <1>1, <1>2, <1>3, <1>4 DEF IInv, TypeOK
<1>6. RunsWellFormed'
  BY <1>1, <1>2, <1>3, <1>4 DEF IInv, RunsWellFormed, Exists, ReqRunning, HookRunning
<1>7. EventsMatchRuns'
  BY <1>1, <1>2, <1>3 DEF IInv, EventsMatchRuns, EventOf, ManualEvent, ReqRunning, HookRunning
<1>8. OneEventPerPayment' /\ PastDueHasRejection' /\ SweepListFresh'
  BY <1>1, <1>4 DEF IInv, OneEventPerPayment, PastDueHasRejection, SweepListFresh
<1>. QED BY <1>5, <1>6, <1>7, <1>8 DEF IInv

-----------------------------------------------------------------------------
(***************************************************************************)
(* The invariant, and what it implies.                                      *)
(***************************************************************************)
\* Every step preserves the invariant: one case for each disjunct of Next.
LEMMA NextIInv == IInv /\ [Next]_vars => IInv'
<1> SUFFICES ASSUME IInv, [Next]_vars PROVE IInv'
  OBVIOUS
<1>1. CASE MercadoPago
  BY <1>1, MercadoPagoIInv
<1>2. CASE \E w \in Webhooks, p \in Payments : HandleWebhook(w, p)
  BY <1>2, HandleWebhookIInv
<1>3. ASSUME NEW w \in Webhooks, WebhookRun(w) PROVE IInv'
  BY <1>3, CheckIInv, FetchPaymentIInv, LookupTenantIInv, RecordPaymentIInv, UpdateStatusIInv
  DEF WebhookRun
<1>4. CASE Staff
  BY <1>4, StartIInv, CancelIInv DEF Staff
<1>5. ASSUME NEW r \in Requests, RequestRun(r) PROVE IInv'
  BY <1>5, InsertSubscriptionIInv, RecordActivationIInv, RecordManualPaymentIInv,
     RenewSubscriptionIInv DEF RequestRun
<1>6. CASE Cron
  BY <1>6, CronListIInv, CancelIInv DEF Cron
<1>7. CASE Tick
  BY <1>7, TickIInv
<1>8. CASE Fault
  BY <1>8, CheckIInv, WebhookErrorIInv, RequestErrorIInv, CronErrorIInv, CrashIInv DEF Fault
<1>9. CASE UNCHANGED vars
  BY <1>9 DEF vars, IInv, TypeOK, RunsWellFormed, EventsMatchRuns, EventOf, ManualEvent,
     OneEventPerPayment, PastDueHasRejection, SweepListFresh, Exists
<1>. QED BY <1>1, <1>2, <1>3, <1>4, <1>5, <1>6, <1>7, <1>8, <1>9 DEF Next

\* IInv holds in every reachable state of the billing core.
THEOREM InductiveInvariant == Spec => []IInv
BY InitIInv, NextIInv, PTL DEF Spec

\* The types of the variables hold in every reachable state.
THEOREM TypeCorrect == Spec => []TypeOK
BY InductiveInvariant, PTL DEF IInv

\* No Mercado Pago payment ever has two rows in payment_events, with any number
\* of notifications of it handled at once: the insert's conflict decides.
THEOREM RecordedOnce == Spec => []OneEventPerPayment
BY InductiveInvariant, PTL DEF IInv

\* Two runs past their insert that handle one payment have the same row, and so
\* are the same run.
LEMMA OneRunPastInsert == IInv => AppliedOnce
<1> SUFFICES ASSUME IInv, NEW v \in Webhooks, NEW w \in Webhooks,
                    hook[v].pc \in {"apply", "applied"}, hook[w].pc \in {"apply", "applied"},
                    hook[v].payment = hook[w].payment
             PROVE  v = w
  BY DEF AppliedOnce
<1>1. EventOf(v) \in events /\ EventOf(w) \in events
  BY DEF IInv, EventsMatchRuns
<1>2. hook[v].payment # None
  BY BillingAssumption DEF IInv, RunsWellFormed
<1>3. EventOf(v) = EventOf(w)
  BY <1>1, <1>2 DEF IInv, OneEventPerPayment, EventOf
<1>. QED BY <1>3 DEF EventOf

\* A Mercado Pago payment updates its subscription at most once.
THEOREM AppliedAtMostOnce == Spec => []AppliedOnce
BY InductiveInvariant, OneRunPastInsert, PTL

\* A decision that is on record is applied unless its run failed.
THEOREM RecordedDecisionsApplied == Spec => []DecisionApplied
<1>1. IInv => DecisionApplied
  BY DEF IInv, EventsMatchRuns, DecisionApplied, Decides, ManualEvent
<1>. QED BY <1>1, InductiveInvariant, PTL

\* No subscription is past_due without a rejected payment of its own.
THEOREM PastDueIsEarned == Spec => []PastDueHasRejection
BY InductiveInvariant, PTL DEF IInv

\* What is left of a sweep's list is overdue or was written behind its back.
THEOREM SweepListStaysFresh == Spec => []SweepListFresh
BY InductiveInvariant, PTL DEF IInv

-----------------------------------------------------------------------------
(***************************************************************************)
(* What a step may do to an existing row.                                   *)
(***************************************************************************)
\* Which steps write rows at all: inserts, renewals, applied payments and
\* cancellations.
LEMMA RowWriters ==
    ASSUME IInv, [Next]_vars, NEW s \in Subs, Exists(s), subscriptions'[s] # subscriptions[s]
    PROVE  \/ \E w \in Webhooks : UpdateStatus(w) /\ hook[w].sub = s
           \/ \E r \in Requests : RenewSubscription(r) /\ req[r].sub = s
           \/ Update(s, "cancelled")
<1>1. CASE \E w \in Webhooks : WebhookRun(w)
  <2> SUFFICES ASSUME NEW w \in Webhooks, UpdateStatus(w) PROVE hook[w].sub = s
    BY <1>1 DEF WebhookRun, CheckIdempotency, FetchPayment, LookupTenant, RecordPayment
  <2>. QED BY DEF UpdateStatus, Update, IInv, TypeOK
<1>2. CASE \E r \in Requests : RequestRun(r)
  <2>1. PICK r \in Requests : RequestRun(r)
    BY <1>2
  <2>2. ASSUME NEW method \in Methods, InsertSubscription(r, method) PROVE FALSE
    BY <2>2 DEF InsertSubscription, IInv, TypeOK, RunsWellFormed
  <2>3. RenewSubscription(r)
    BY <2>1, <2>2 DEF RequestRun, RecordActivation, RecordManualPayment
  <2>. QED BY <2>3 DEF RenewSubscription, IInv, TypeOK
<1>3. CASE Staff \/ Cron
  <2>1. PICK t \in Subs : Update(t, "cancelled")
    BY <1>3 DEF Staff, Cron, StartCreateSubscription, StartManualPayment, CronList,
       CancelSubscription, CronCancel
  <2>. QED BY <2>1 DEF Update, IInv, TypeOK
<1>4. UNCHANGED subscriptions \/ Staff \/ Cron \/ (\E w \in Webhooks : WebhookRun(w))
      \/ (\E r \in Requests : RequestRun(r))
  BY DEF Next, vars, MercadoPago, CreateMPPayment, UpdateMPPayment, HandleWebhook, Tick,
     Fault, CheckError, WebhookError, RequestError, CronError, Crash
<1>. QED BY <1>1, <1>2, <1>3, <1>4

\* A renewal completes a request whose manual, approved payment is on record.
LEMMA RenewalOnRecord ==
    ASSUME IInv, NEW r \in Requests, RenewSubscription(r)
    PROVE  \E e \in events : /\ e.subscription_id = req[r].sub
                             /\ e.source = "manual" /\ e.status = "approved"
                             /\ Completes(e.id)
<1>1. ManualEvent(r) \in events
  BY DEF RenewSubscription, IInv, EventsMatchRuns
<1>2. req[r].pc = "renew" /\ req'[r].pc = "ok"
  BY DEF RenewSubscription, IInv, TypeOK, Req
<1>. QED BY <1>1, <1>2 DEF ManualEvent, Completes

\* The period of an existing subscription moves only by a recorded renewal.
THEOREM RenewalsPaid == Spec => RenewalPaid
<1>1. IInv /\ [Next]_vars =>
        [\A s \in Subs :
          /\ Exists(s)
          /\ <<subscriptions'[s].current_period_start, subscriptions'[s].current_period_end>>
             # <<subscriptions[s].current_period_start, subscriptions[s].current_period_end>>
          => \E e \in events : /\ e.subscription_id = s
                               /\ e.source = "manual"
                               /\ Completes(e.id)]_vars
  <2> SUFFICES ASSUME IInv, [Next]_vars, NEW s \in Subs, Exists(s),
                      \/ subscriptions'[s].current_period_start
                           # subscriptions[s].current_period_start
                      \/ subscriptions'[s].current_period_end
                           # subscriptions[s].current_period_end
               PROVE  \E e \in events : /\ e.subscription_id = s
                                        /\ e.source = "manual"
                                        /\ Completes(e.id)
    OBVIOUS
  <2>1. ASSUME NEW status \in SubscriptionStatus, Update(s, status) PROVE FALSE
    BY <2>1, UpdateRow DEF IInv
  <2>2. ASSUME NEW w \in Webhooks, UpdateStatus(w), hook[w].sub = s PROVE FALSE
    BY <2>1, <2>2 DEF UpdateStatus, Standing, SubscriptionStatus
  <2>3. PICK r \in Requests : RenewSubscription(r) /\ req[r].sub = s
    BY <2>1, <2>2, RowWriters DEF SubscriptionStatus
  <2>. QED BY <2>3, RenewalOnRecord
<1>. QED BY <1>1, InductiveInvariant, PTL DEF Spec, RenewalPaid

\* A past_due or cancelled subscription comes back only by a recorded approval.
THEOREM ReactivationsPaid == Spec => ReactivationPaid
<1>1. IInv /\ [Next]_vars =>
        [\A s \in Subs :
          /\ subscriptions[s].status \in {"past_due", "cancelled"}
          /\ subscriptions'[s].status = "active"
          => \E e \in events : /\ e.subscription_id = s
                               /\ e.status = "approved"
                               /\ Completes(e.id)]_vars
  <2> SUFFICES ASSUME IInv, [Next]_vars, NEW s \in Subs,
                      subscriptions[s].status \in {"past_due", "cancelled"},
                      subscriptions'[s].status = "active"
               PROVE  \E e \in events : /\ e.subscription_id = s
                                        /\ e.status = "approved"
                                        /\ Completes(e.id)
    OBVIOUS
  <2>1. ~Update(s, "cancelled")
    BY UpdateRow DEF IInv, SubscriptionStatus
  <2>2. ASSUME NEW w \in Webhooks, UpdateStatus(w), hook[w].sub = s
        PROVE  \E e \in events : /\ e.subscription_id = s
                                 /\ e.status = "approved"
                                 /\ Completes(e.id)
    <3>1. Update(s, Standing(hook[w].status)) /\ HookStep(w, "apply", "applied")
      BY <2>2 DEF UpdateStatus
    <3>2. hook[w].status = "approved"
      BY <3>1, UpdateRow DEF IInv, Standing, SubscriptionStatus
    <3>3. hook[w].pc = "apply" /\ hook'[w].pc = "applied"
      BY <3>1, HookMoves DEF IInv, HookDone
    <3>4. EventOf(w) \in events /\ Completes(w)
      BY <3>3 DEF IInv, EventsMatchRuns, Completes
    <3>. QED BY <2>2, <3>2, <3>4 DEF EventOf
  <2>3. ASSUME NEW r \in Requests, RenewSubscription(r), req[r].sub = s
        PROVE  \E e \in events : /\ e.subscription_id = s
                                 /\ e.status = "approved"
                                 /\ Completes(e.id)
    BY <2>3, RenewalOnRecord
  <2>4. Exists(s) /\ subscriptions'[s] # subscriptions[s]
    BY DEF Exists
  <2>. QED BY <2>1, <2>2, <2>3, <2>4, RowWriters
<1>. QED BY <1>1, InductiveInvariant, PTL DEF Spec, ReactivationPaid

-----------------------------------------------------------------------------
(***************************************************************************)
(* Billing implements PaymentLedger: seen through LedgerView and            *)
(* StandingView, every step of the billing core is a step of the ledger or  *)
(* none at all.                                                             *)
(***************************************************************************)
\* CHOOSE finds the one row there is for a payment.
LEMMA TheRow ==
    ASSUME NEW E, NEW p, NEW e \in E, e.mp_payment_id = p,
           \A f \in E : f.mp_payment_id = p => f = e
    PROVE  (CHOOSE f \in E : f.mp_payment_id = p) = e
OBVIOUS

\* How far a run that wrote its row has got.
LEMMA StageOf ==
    /\ Stage("apply") = "recorded" /\ Stage("failed") = "abandoned"
    /\ \A pc : pc \notin {"apply", "failed"} => Stage(pc) = "settled"
BY DEF Stage

\* A recorded payment's entry shows its row and the run that wrote it.
LEMMA EntryNow ==
    ASSUME OneEventPerPayment, NEW p \in Payments, NEW e \in events, e.mp_payment_id = p
    PROVE  LedgerEntry(p) = [stage |-> Stage(hook[e.id].pc), sub |-> e.subscription_id,
                             status |-> e.status]
<1>1. \A f \in events : f.mp_payment_id = p => f = e
  BY BillingAssumption DEF OneEventPerPayment
<1>2. Recorded(p) /\ EventOfPayment(p) = e
  BY <1>1, TheRow DEF EventOfPayment, Recorded
<1>. QED BY <1>2 DEF LedgerEntry

\* The same after a step.
LEMMA EntryNext ==
    ASSUME OneEventPerPayment', NEW p \in Payments, NEW e \in events', e.mp_payment_id = p
    PROVE  LedgerEntry(p)' = [stage |-> Stage(hook'[e.id].pc), sub |-> e.subscription_id,
                              status |-> e.status]
<1>1. \A f \in events' : f.mp_payment_id = p => f = e
  BY BillingAssumption DEF OneEventPerPayment
<1>2. Recorded(p)' /\ EventOfPayment(p)' = e
  BY <1>1, TheRow DEF EventOfPayment, Recorded
<1>. QED BY <1>2 DEF LedgerEntry, Stage

\* The run behind a recorded Mercado Pago payment.
LEMMA RunOfRow ==
    ASSUME IInv, NEW e \in events, e.mp_payment_id \in Payments
    PROVE  /\ e.id \in Webhooks /\ e = EventOf(e.id)
           /\ hook[e.id].payment = e.mp_payment_id
           /\ hook[e.id].pc \in {"apply", "applied", "noted", "failed"}
BY BillingAssumption DEF IInv, EventsMatchRuns, EventOf, ManualEvent

\* An entry changes only with its row or with the stage of its run.
LEMMA EntrySame ==
    ASSUME IInv, IInv', NEW p \in Payments,
           \A e : e.mp_payment_id = p => (e \in events <=> e \in events'),
           \A e \in events : e.mp_payment_id = p => Stage(hook'[e.id].pc) = Stage(hook[e.id].pc)
    PROVE  LedgerEntry(p)' = LedgerEntry(p)
<1>1. CASE Recorded(p)
  <2>1. PICK e \in events : e.mp_payment_id = p
    BY <1>1 DEF Recorded
  <2>2. e \in events'
    BY <2>1
  <2>. QED BY <2>1, <2>2, EntryNow, EntryNext DEF IInv
<1>2. CASE ~Recorded(p)
  <2>1. ~Recorded(p)'
    BY <1>2 DEF Recorded
  <2>. QED BY <1>2, <2>1 DEF LedgerEntry
<1>. QED BY <1>1, <1>2

\* Steps that add no row of a payment and leave the stage of every run that has
\* one: the ledger stays as it is.
LEMMA LedgerSame ==
    ASSUME IInv, IInv', events' = events \/ \E r \in Requests : events' = events \cup {ManualEvent(r)},
           \A w \in Webhooks : \/ Stage(hook'[w].pc) = Stage(hook[w].pc)
                               \/ hook[w].pc \notin {"apply", "applied", "noted", "failed"}
    PROVE  UNCHANGED LedgerView
<1> SUFFICES ASSUME NEW p \in Payments PROVE LedgerEntry(p)' = LedgerEntry(p)
  BY DEF LedgerView
<1>1. \A e : e.mp_payment_id = p => (e \in events <=> e \in events')
  BY BillingAssumption DEF ManualEvent
<1>2. \A e \in events : e.mp_payment_id = p => Stage(hook'[e.id].pc) = Stage(hook[e.id].pc)
  BY RunOfRow
<1>. QED BY <1>1, <1>2, EntrySame

-----------------------------------------------------------------------------
(***************************************************************************)
(* Steps.                                                                   *)
(***************************************************************************)
\* Empty tables are an empty ledger.
LEMMA LedgerInit == Init => Ledger!Init
BY DEF Init, Ledger!Init, Ledger!Unseen, LedgerView, StandingView, LedgerEntry, Recorded

\* A successful insert records its payment.
LEMMA LedgerRecord ==
    ASSUME IInv, IInv', NEW w \in Webhooks, RecordPayment(w), ~Recorded(hook[w].payment)
    PROVE  Ledger!Record(hook[w].payment, hook[w].sub)
<1> SUFFICES ASSUME NEW p, p = hook[w].payment, NEW sub, sub = hook[w].sub,
                    NEW status, status = hook[w].status
             PROVE  Ledger!Record(p, sub)
  OBVIOUS
<1>1. PICK to \in {"apply", "noted"} :
          /\ HookStep(w, "record", to)
          /\ to = "apply" <=> Decides(status)
          /\ events' = events \cup {EventOf(w)} /\ UNCHANGED subscriptions
  BY DEF RecordPayment, Conflict
<1>2. /\ p \in Payments /\ status \in PaymentStatus
  BY <1>1 DEF IInv, RunsWellFormed, HookStep
<1>3. /\ hook[w].pc = "record" /\ hook'[w].pc = to
      /\ \A v \in Webhooks \ {w} : hook'[v].pc = hook[v].pc
  BY <1>1, HookMoves DEF IInv, HookRunning, HookDone
<1>4. LedgerEntry(p) = Ledger!Unseen
  BY DEF LedgerEntry, Ledger!Unseen
<1>5. LedgerEntry(p)' = Ledger!Entry(sub, status, Stage(to))
  <2>1. EventOf(w).id = w /\ EventOf(w).mp_payment_id = p
        /\ EventOf(w).subscription_id = sub /\ EventOf(w).status = status
    BY DEF EventOf
  <2>. QED BY <1>1, <1>2, <1>3, <2>1, EntryNext DEF IInv, Ledger!Entry
<1>6. ASSUME NEW q \in Payments, q # p PROVE LedgerEntry(q)' = LedgerEntry(q)
  <2>1. \A e : e.mp_payment_id = q => (e \in events <=> e \in events')
    BY <1>1, <1>6 DEF EventOf
  <2>2. \A e \in events : e.mp_payment_id = q => e.id # w /\ e.id \in Webhooks
    BY <1>3, RunOfRow
  <2>. QED BY <1>3, <2>1, <2>2, EntrySame
<1>7. LedgerView' = [LedgerView EXCEPT ![p] = Ledger!Entry(sub, status, Stage(to))]
  BY <1>2, <1>5, <1>6 DEF LedgerView
<1>8. LedgerView[p] = Ledger!Unseen /\ UNCHANGED StandingView
  BY <1>1, <1>2, <1>4 DEF LedgerView, StandingView
<1>9. CASE Decides(status)
  BY <1>1, <1>7, <1>8, <1>9, StageOf DEF Ledger!Record, Decides
<1>10. CASE ~Decides(status)
  BY <1>1, <1>2, <1>7, <1>8, <1>10, StageOf DEF Ledger!Record, Decides, PaymentStatus
<1>. QED BY <1>9, <1>10

\* The update settles the payment its run recorded.
LEMMA LedgerSettle ==
    ASSUME IInv, IInv', NEW w \in Webhooks, UpdateStatus(w)
    PROVE  Ledger!Settle(hook[w].payment)
<1> SUFFICES ASSUME NEW p, p = hook[w].payment, NEW s, s = hook[w].sub,
                    NEW status, status = hook[w].status
             PROVE  Ledger!Settle(p)
  OBVIOUS
<1>1. /\ HookStep(w, "apply", "applied") /\ Update(s, Standing(status))
      /\ UNCHANGED events
  BY DEF UpdateStatus
<1>2. /\ EventOf(w) \in events /\ Decides(status) /\ p \in Payments /\ s \in Subs
  BY <1>1 DEF IInv, EventsMatchRuns, RunsWellFormed, HookStep
<1>3. /\ hook[w].pc = "apply" /\ hook'[w].pc = "applied"
      /\ \A v \in Webhooks \ {w} : hook'[v].pc = hook[v].pc
  BY <1>1, HookMoves DEF IInv, HookDone
<1>4. EventOf(w).id = w /\ EventOf(w).mp_payment_id = p
      /\ EventOf(w).subscription_id = s /\ EventOf(w).status = status
  BY DEF EventOf
<1>5. LedgerEntry(p) = Ledger!Entry(s, status, "recorded")
  BY <1>2, <1>3, <1>4, EntryNow, StageOf DEF IInv, Ledger!Entry
<1>6. LedgerEntry(p)' = Ledger!Entry(s, status, "settled")
  BY <1>1, <1>2, <1>3, <1>4, EntryNext, StageOf DEF IInv, Ledger!Entry
<1>7. ASSUME NEW q \in Payments, q # p PROVE LedgerEntry(q)' = LedgerEntry(q)
  <2>1. \A e \in events : e.mp_payment_id = q => e.id # w /\ e.id \in Webhooks
    BY <1>7, RunOfRow
  <2>. QED BY <1>1, <1>3, <2>1, EntrySame
<1>8. LedgerView' = [LedgerView EXCEPT ![p] = Ledger!Entry(s, status, "settled")]
  BY <1>2, <1>6, <1>7 DEF LedgerView
<1>9. StandingView' = [StandingView EXCEPT ![s] = Standing(status)]
  <2>1. Standing(status) \in SubscriptionStatus
    BY DEF Standing, SubscriptionStatus
  <2>2. TypeOK /\ s \in Subs /\ Update(s, Standing(status))
    BY <1>1, <1>2 DEF IInv
  <2>3. /\ subscriptions'[s].status = Standing(status)
        /\ \A t \in Subs \ {s} : subscriptions'[t] = subscriptions[t]
    BY <2>1, <2>2, UpdateRow
  <2>. QED BY <2>2, <2>3 DEF StandingView
<1>10. LedgerView[p] = Ledger!Entry(s, status, "recorded")
  BY <1>2, <1>5 DEF LedgerView
<1>11. /\ LedgerView[p].stage = "recorded" /\ LedgerView[p].sub = s
       /\ LedgerView[p].status = status
  BY <1>10 DEF Ledger!Entry
<1>. QED BY <1>8, <1>9, <1>11 DEF Ledger!Settle, Standing

\* Runs that end before their update abandon what they recorded.
LEMMA LedgerAbandon ==
    ASSUME IInv, IInv', UNCHANGED <<events, subscriptions>>,
           \A w \in Webhooks : \/ hook'[w].pc = hook[w].pc
                               \/ hook[w].pc \in HookRunning /\ hook'[w].pc = "failed"
    PROVE  \E P \in SUBSET Payments : Ledger!Abandon(P)
<1>. DEFINE given == {p \in Payments : \E w \in Webhooks : /\ hook[w].pc = "apply"
                                                          /\ hook'[w].pc = "failed"
                                                          /\ hook[w].payment = p}
<1>1. ASSUME NEW p \in given
      PROVE  /\ LedgerEntry(p).stage = "recorded"
             /\ LedgerEntry(p)' = Ledger!Entry(LedgerEntry(p).sub, LedgerEntry(p).status,
                                               "abandoned")
  <2>1. PICK w \in Webhooks : hook[w].pc = "apply" /\ hook'[w].pc = "failed"
                              /\ hook[w].payment = p
    OBVIOUS
  <2>2. EventOf(w) \in events /\ EventOf(w).id = w /\ EventOf(w).mp_payment_id = p
    BY <2>1 DEF IInv, EventsMatchRuns, EventOf
  <2>. QED BY <2>1, <2>2, EntryNow, EntryNext, StageOf DEF IInv, Ledger!Entry
<1>2. ASSUME NEW p \in Payments, p \notin given PROVE LedgerEntry(p)' = LedgerEntry(p)
  <2>1. ASSUME NEW e \in events, e.mp_payment_id = p
        PROVE  Stage(hook'[e.id].pc) = Stage(hook[e.id].pc)
    BY <1>2, <2>1, RunOfRow DEF HookRunning
  <2>. QED BY <2>1, EntrySame
<1>3. \A p \in given : LedgerView[p].stage = "recorded"
  BY <1>1 DEF LedgerView
<1>4. LedgerView' = [p \in Payments |->
                       IF p \in given
                       THEN Ledger!Entry(LedgerView[p].sub, LedgerView[p].status, "abandoned")
                       ELSE LedgerView[p]]
  BY <1>1, <1>2 DEF LedgerView
<1>5. UNCHANGED StandingView
  BY DEF StandingView
<1>. HIDE DEF given
<1>6. Ledger!Abandon(given)
  BY <1>3, <1>4, <1>5 DEF Ledger!Abandon
<1>7. given \in SUBSET Payments
  BY DEF given
<1>. QED BY <1>6, <1>7

\* Staff and cron move the standing of one subscription.
LEMMA LedgerMove ==
    ASSUME IInv, IInv', UNCHANGED <<events, hook>>, NEW s \in Subs,
           subscriptions'[s].status \in {"active", "cancelled"},
           \A t \in Subs \ {s} : subscriptions'[t] = subscriptions[t]
    PROVE  Ledger!Move(s)
<1>1. UNCHANGED LedgerView
  BY LedgerSame
<1>2. StandingView' = [StandingView EXCEPT ![s] = subscriptions'[s].status]
  BY DEF StandingView
<1>. QED BY <1>1, <1>2 DEF Ledger!Move

\* Every step of the billing core is a step of the ledger or none at all.
LEMMA LedgerNext ==
    IInv /\ IInv' /\ [Next]_vars => [Ledger!Next]_<<LedgerView, StandingView>>
<1> SUFFICES ASSUME IInv, IInv', [Next]_vars
             PROVE  Ledger!Next \/ UNCHANGED <<LedgerView, StandingView>>
  OBVIOUS
<1>1. ASSUME UNCHANGED subscriptions,
             events' = events \/ \E r \in Requests : events' = events \cup {ManualEvent(r)},
             \A w \in Webhooks : \/ hook'[w].pc = hook[w].pc
                                 \/ hook[w].pc \in {"idle", "check", "fetch", "lookup", "record"}
      PROVE  UNCHANGED <<LedgerView, StandingView>>
  BY <1>1, LedgerSame DEF StandingView
<1>2. CASE MercadoPago \/ Tick \/ CronList \/ UNCHANGED vars
  BY <1>1, <1>2 DEF MercadoPago, CreateMPPayment, UpdateMPPayment, Tick, CronList, vars
<1>3. ASSUME NEW w \in Webhooks, NEW p \in Payments, HandleWebhook(w, p)
      PROVE  UNCHANGED <<LedgerView, StandingView>>
  BY <1>1, <1>3 DEF HandleWebhook, IInv, TypeOK
<1>4. ASSUME NEW w \in Webhooks, CheckIdempotency(w) \/ CheckError(w) \/ FetchPayment(w)
                                 \/ LookupTenant(w)
      PROVE  UNCHANGED <<LedgerView, StandingView>>
  BY <1>1, <1>4 DEF CheckIdempotency, CheckError, FetchPayment, LookupTenant, HookStep,
     IInv, TypeOK
<1>5. ASSUME NEW w \in Webhooks, RecordPayment(w)
      PROVE  Ledger!Next \/ UNCHANGED <<LedgerView, StandingView>>
  <2>1. CASE Recorded(hook[w].payment)
    BY <1>1, <1>5, <2>1 DEF RecordPayment, Conflict, HookStep, IInv, TypeOK
  <2>2. CASE ~Recorded(hook[w].payment)
    <3>1. hook[w].payment \in Payments /\ hook[w].sub \in Subs
      BY <1>5 DEF RecordPayment, IInv, RunsWellFormed
    <3>. QED BY <1>5, <2>2, <3>1, LedgerRecord DEF Ledger!Next
  <2>. QED BY <2>1, <2>2
<1>6. ASSUME NEW w \in Webhooks, UpdateStatus(w) PROVE Ledger!Next
  <2>1. hook[w].payment \in Payments
    BY <1>6 DEF UpdateStatus, HookStep, IInv, RunsWellFormed
  <2>. QED BY <1>6, <2>1, LedgerSettle DEF Ledger!Next
<1>7. ASSUME (\E w \in Webhooks : WebhookError(w)) \/ Crash PROVE Ledger!Next
  <2>1. /\ UNCHANGED <<events, subscriptions>>
        /\ \A w \in Webhooks : \/ hook'[w].pc = hook[w].pc
                               \/ hook[w].pc \in HookRunning /\ hook'[w].pc = "failed"
    <3>1. CASE Crash
      BY <3>1 DEF Crash, IInv, TypeOK, Hook
    <3>2. ASSUME NEW w \in Webhooks, WebhookError(w)
          PROVE  hook'[w].pc = "failed" /\ \A v \in Webhooks \ {w} : hook'[v].pc = hook[v].pc
      BY <3>2 DEF WebhookError, IInv, TypeOK, Hook
    <3>. QED BY <1>7, <3>1, <3>2 DEF WebhookError
  <2>. QED BY <2>1, LedgerAbandon DEF Ledger!Next
<1>8. CASE Staff
  <2>1. CASE \E s \in Subs : CancelSubscription(s)
    <3>1. PICK s \in Subs : CancelSubscription(s)
      BY <2>1
    <3>2. subscriptions'[s].status = "cancelled"
          /\ \A t \in Subs \ {s} : subscriptions'[t] = subscriptions[t]
      BY <3>1, UpdateRow DEF CancelSubscription, IInv, SubscriptionStatus
    <3>. QED BY <3>1, <3>2, LedgerMove DEF CancelSubscription, Ledger!Next
  <2>. QED BY <1>1, <1>8, <2>1 DEF Staff, StartCreateSubscription, StartManualPayment
<1>9. ASSUME NEW r \in Requests, RequestRun(r)
      PROVE  Ledger!Next \/ UNCHANGED <<LedgerView, StandingView>>
  <2>1. CASE RecordActivation(r) \/ RecordManualPayment(r)
    BY <1>1, <2>1 DEF RecordActivation, RecordManualPayment
  <2>2. CASE RenewSubscription(r) \/ \E method \in Methods : InsertSubscription(r, method)
    <3>1. req[r].sub \in Subs /\ UNCHANGED <<events, hook>>
      BY <2>2 DEF RenewSubscription, InsertSubscription, IInv, RunsWellFormed
    <3>2. PICK s, row : /\ s \in Subs /\ s = req[r].sub /\ row.status = "active"
                       /\ subscriptions' = [subscriptions EXCEPT ![s] = row]
      BY <2>2, <3>1 DEF RenewSubscription, InsertSubscription
    <3>3. subscriptions'[s].status = "active"
          /\ \A t \in Subs \ {s} : subscriptions'[t] = subscriptions[t]
      BY <3>2 DEF IInv, TypeOK
    <3>. QED BY <3>1, <3>2, <3>3, LedgerMove DEF Ledger!Next
  <2>. QED BY <1>9, <2>1, <2>2 DEF RequestRun
<1>10. ASSUME NEW s \in Subs, CronCancel(s) PROVE Ledger!Next
  <2>1. subscriptions'[s].status = "cancelled"
        /\ \A t \in Subs \ {s} : subscriptions'[t] = subscriptions[t]
    BY <1>10, UpdateRow DEF CronCancel, IInv, SubscriptionStatus
  <2>. QED BY <1>10, <2>1, LedgerMove DEF CronCancel, Ledger!Next
<1>11. CASE (\E r \in Requests : RequestError(r)) \/ (\E s \in Subs : CronError(s))
  BY <1>1, <1>11 DEF RequestError, CronError
<1>12. CASE \E w \in Webhooks : WebhookRun(w)
  BY <1>4, <1>5, <1>6, <1>12 DEF WebhookRun
<1>13. CASE Fault
  BY <1>4, <1>7, <1>11, <1>13 DEF Fault
<1>14. CASE Cron
  BY <1>2, <1>10, <1>14 DEF Cron
<1>. QED BY <1>2, <1>3, <1>8, <1>9, <1>12, <1>13, <1>14 DEF Next

\* Whatever the interleaving, Billing implements PaymentLedger: a payment is
\* recorded once, never changed, and moves its subscription at most once, as
\* recorded.
THEOREM LedgerRefinement == Spec => LedgerSpec
BY LedgerInit, LedgerNext, InductiveInvariant, PTL DEF Spec, LedgerSpec, Ledger!Spec
=============================================================================
