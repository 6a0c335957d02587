---------------------------- MODULE Pages_proofs ----------------------------
(***************************************************************************)
(* Proofs about the pages and forms of MCPages, for any accounts, links,    *)
(* passwords, periods, frames and submissions: part by part, by the         *)
(* inductive invariant its module states, and then about the runs of        *)
(* MCPages, each of which is that of one part.  The table, the phone and    *)
(* the amount are PagesData_proofs.                                         *)
(***************************************************************************)
EXTENDS PagesData_proofs

-----------------------------------------------------------------------------
(***************************************************************************)
(* The dashboard.                                                           *)
(***************************************************************************)
\* The page is closed, and no query has been asked.
LEMMA OverviewInit == ASSUME Overview!DashboardAssumption, Overview!Init PROVE Overview!IInv
<1>. USE DEF Overview!Init, Overview!DashboardAssumption
<1>1. Overview!Idle \in Overview!Fetch /\ Overview!Idle.pc = "idle"
  BY DEF Overview!Idle, Overview!Fetch
<1>2. Overview!TypeOK
  <2>1. 0 \in 0..MaxChanges
    OBVIOUS
  <2>. QED BY <1>1, <2>1 DEF Overview!TypeOK
<1>3. \A p \in Period : data[p] = None /\ fetch[p] = Overview!Idle
  BY DEF Overview!Query
<1>. QED BY <1>1, <1>2, <1>3 DEF Overview!IInv

\* Whatever fetches a step starts, they ask for what their query is of.
LEMMA OverviewAsks ==
    ASSUME Overview!IInv, UNCHANGED <<server, data>>,
           open' \in BOOLEAN, revenuePeriod' \in Period, period' = revenuePeriod',
           fetch' \in [Overview!Query -> Overview!Fetch],
           \A q \in Overview!Query : fetch'[q] # fetch[q] =>
              fetch'[q] = Overview!Idle \/ \E p \in Period : fetch'[q] = Overview!Asked(q, p)
                                             /\ (q \in Period => q \notin Widget /\ p = q)
    PROVE  Overview!IInv'
<1>1. Overview!TypeOK'
  BY DEF Overview!IInv, Overview!TypeOK
<1>2. ASSUME NEW p \in Period
      PROVE  /\ data'[p] # None => data'[p].of = p
             /\ fetch'[p].pc = "sent" => fetch'[p].of = p
             /\ fetch'[p].pc = "answered" => fetch'[p].report.of = p
  <2>1. p \in Overview!Query
    BY DEF Overview!Query
  <2>2. CASE fetch'[p] = fetch[p]
    BY <2>2 DEF Overview!IInv
  <2>3. CASE fetch'[p] # fetch[p]
    <3>1. fetch'[p] = Overview!Idle \/ fetch'[p] = [pc |-> "sent", of |-> p]
      BY <2>1, <2>3 DEF Overview!Asked
    <3>. QED BY <3>1 DEF Overview!IInv, Overview!Idle
  <2>. QED BY <2>2, <2>3
<1>. QED BY <1>1, <1>2 DEF Overview!IInv

\* Every step of the dashboard: a fetch asks for its own period, and answers with it.
LEMMA OverviewStep ==
    ASSUME Overview!DashboardAssumption, Overview!IInv, [Overview!Next]_overviewVars PROVE Overview!IInv'
<1>. USE DEF Overview!DashboardAssumption
<1>1. /\ server \in 0..MaxChanges /\ open \in BOOLEAN /\ revenuePeriod \in Period /\ period = revenuePeriod
      /\ data \in [Overview!Query -> {None} \cup Overview!Report]
      /\ fetch \in [Overview!Query -> Overview!Fetch]
      /\ Period \subseteq Overview!Query /\ Widget \subseteq Overview!Query
  BY DEF Overview!IInv, Overview!TypeOK, Overview!Query
<1>2. \A q \in Overview!Query, p \in Period : Overview!Asked(q, p) \in Overview!Fetch
  BY <1>1 DEF Overview!Asked, Overview!Fetch
<1>3. Overview!Idle \in Overview!Fetch
  BY DEF Overview!Fetch
<1>4. CASE Overview!Open
  <2>1. PICK refetched \in SUBSET Overview!Query :
          fetch' = [q \in Overview!Query |->
             IF q \in Widget \cup {"month"} /\ Overview!Mounted(q, refetched)
             THEN Overview!Asked(q, "month") ELSE fetch[q]]
    BY <1>4 DEF Overview!Open, Overview!RevenueKey
  <2>2. fetch' \in [Overview!Query -> Overview!Fetch]
    BY <1>1, <1>2, <2>1
  <2>3. \A q \in Overview!Query : fetch'[q] # fetch[q] =>
           fetch'[q] = Overview!Asked(q, "month") /\ (q \in Period => q \notin Widget /\ q = "month")
    BY <2>1
  <2>. QED BY <1>4, <2>2, <2>3, OverviewAsks DEF Overview!Open
<1>5. CASE Overview!Leave
  BY <1>1, <1>5, OverviewAsks DEF Overview!Leave
<1>6. CASE Overview!Change
  <2>1. server' \in 0..MaxChanges
    BY <1>1, <1>6 DEF Overview!Change
  <2>. QED BY <1>6, <2>1 DEF Overview!Change, Overview!page, Overview!IInv, Overview!TypeOK
<1>7. ASSUME NEW p \in Period, Overview!SelectPeriod(p) PROVE Overview!IInv'
  <2>1. fetch' \in {fetch, [fetch EXCEPT ![p] = Overview!Asked(p, p)]}
    BY <1>7 DEF Overview!SelectPeriod, Overview!RevenueKey
  <2>2. fetch' \in [Overview!Query -> Overview!Fetch]
    BY <1>1, <1>2, <2>1
  <2>3. \A q \in Overview!Query : fetch'[q] # fetch[q] => q = p /\ fetch'[q] = Overview!Asked(q, p)
    BY <1>1, <2>1
  <2>. QED BY <1>1, <1>7, <2>2, <2>3, OverviewAsks DEF Overview!SelectPeriod
<1>8. ASSUME NEW q \in Overview!Query, Overview!Poll(q) PROVE Overview!IInv'
  <2>1. q \in Period => q \notin Widget /\ q = revenuePeriod
    BY <1>8 DEF Overview!Poll, Overview!Shown, Overview!RevenueKey
  <2>2. fetch' = [fetch EXCEPT ![q] = Overview!Asked(q, revenuePeriod)]
    BY <1>8 DEF Overview!Poll
  <2>3. fetch' \in [Overview!Query -> Overview!Fetch]
    BY <1>1, <1>2, <2>2
  <2>. QED BY <1>1, <1>8, <2>1, <2>2, <2>3, OverviewAsks DEF Overview!Poll, Overview!page
<1>9. ASSUME NEW q \in Overview!Query, Overview!Serve(q) PROVE Overview!IInv'
  <2>1. fetch[q] \in [pc : {"sent"}, of : Overview!Query]
    BY <1>1, <1>9 DEF Overview!Serve, Overview!Fetch, Overview!Idle
  <2>. DEFINE r == [of |-> fetch[q].of, version |-> server]
              a == [pc |-> "answered", report |-> r]
  <2>2. r \in Overview!Report /\ a \in Overview!Fetch
    BY <1>1, <2>1 DEF Overview!Report, Overview!Fetch
  <2>3. a.pc = "answered" /\ a.report.of = fetch[q].of
    OBVIOUS
  <2>4. fetch' = [fetch EXCEPT ![q] = a] /\ UNCHANGED <<server, Overview!page, data>>
    BY <1>9 DEF Overview!Serve
  <2>. HIDE DEF a
  <2>5. fetch' \in [Overview!Query -> Overview!Fetch] /\ fetch'[q] = a
        /\ \A p \in Overview!Query \ {q} : fetch'[p] = fetch[p]
    BY <1>1, <2>2, <2>4
  <2>6. \A p \in Period :
           /\ fetch'[p].pc = "sent" => fetch'[p].of = p
           /\ fetch'[p].pc = "answered" => fetch'[p].report.of = p
    BY <1>1, <1>9, <2>3, <2>5 DEF Overview!IInv, Overview!Serve
  <2>. QED BY <2>4, <2>5, <2>6 DEF Overview!IInv, Overview!TypeOK, Overview!page
<1>10. ASSUME NEW q \in Overview!Query, Overview!Done(q) PROVE Overview!IInv'
  <2>1. fetch[q] \in [pc : {"answered"}, report : Overview!Report]
    BY <1>1, <1>10 DEF Overview!Done, Overview!Fetch, Overview!Idle
  <2>2. /\ data' = [data EXCEPT ![q] = fetch[q].report] /\ fetch' = [fetch EXCEPT ![q] = Overview!Idle]
        /\ UNCHANGED <<server, Overview!page>> /\ fetch[q].pc = "answered"
    BY <1>10 DEF Overview!Done
  <2>3. /\ data' \in [Overview!Query -> {None} \cup Overview!Report]
        /\ fetch' \in [Overview!Query -> Overview!Fetch]
        /\ data'[q] = fetch[q].report /\ fetch'[q] = Overview!Idle
        /\ \A p \in Overview!Query \ {q} : data'[p] = data[p] /\ fetch'[p] = fetch[p]
    BY <1>1, <1>3, <2>1, <2>2
  <2>4. ASSUME NEW p \in Period
        PROVE  /\ data'[p] # None => data'[p].of = p
               /\ fetch'[p].pc = "sent" => fetch'[p].of = p
               /\ fetch'[p].pc = "answered" => fetch'[p].report.of = p
    BY <1>1, <2>2, <2>3 DEF Overview!IInv, Overview!Idle
  <2>. QED BY <2>2, <2>3, <2>4 DEF Overview!IInv, Overview!TypeOK, Overview!page
<1>11. ASSUME NEW q \in Overview!Query, Overview!Fails(q) PROVE Overview!IInv'
  <2>1. fetch' \in [Overview!Query -> Overview!Fetch]
        /\ \A p \in Overview!Query : fetch'[p] # fetch[p] => fetch'[p] = Overview!Idle
    BY <1>1, <1>3, <1>11 DEF Overview!Fails
  <2>. QED BY <1>1, <1>11, <2>1, OverviewAsks DEF Overview!Fails, Overview!page
<1>12. ASSUME NEW q \in Overview!Query, Overview!Forget(q) PROVE Overview!IInv'
  <2>1. /\ data' \in [Overview!Query -> {None} \cup Overview!Report]
        /\ \A p \in Overview!Query : data'[p] \in {None, data[p]}
    BY <1>1, <1>12 DEF Overview!Forget
  <2>. QED BY <1>1, <1>12, <2>1 DEF Overview!Forget, Overview!page, Overview!IInv, Overview!TypeOK
<1>13. CASE UNCHANGED overviewVars
  BY <1>1, <1>13, OverviewAsks DEF overviewVars
<1>. QED BY <1>4, <1>5, <1>6, <1>7, <1>8, <1>9, <1>10, <1>11, <1>12, <1>13 DEF Overview!Next

-----------------------------------------------------------------------------
(***************************************************************************)
(* The dialog that makes a subscriber.                                      *)
(***************************************************************************)
\* A closed dialog, an empty form, no submission.
LEMMA WizardInit == ASSUME Wizard!WizardAssumption, Wizard!Init PROVE Wizard!IInv
<1>. USE DEF Wizard!Init, Wizard!WizardAssumption
<1>1. \A c \in Submission : calls[c] = Wizard!Idle /\ ~Wizard!OfForm(c)
  BY DEF Wizard!OfForm, Wizard!UnderWay, Wizard!Idle
<1>2. Wizard!TypeOK
  <2>1. Wizard!Blank \in Wizard!Value
    BY DEF Wizard!Blank, Wizard!Value, Wizard!Personal
  <2>2. 0 \in 0..2 /\ 0 \in Nat
    OBVIOUS
  <2>. QED BY <2>1, <2>2 DEF Wizard!TypeOK, Wizard!Steps, Wizard!lastStep
<1>. QED BY <1>1, <1>2 DEF Wizard!IInv, Wizard!OneSubmission

\* The shape of a submission under way.
Sent == [pc : {"sent", "made"}, data : Wizard!Value, form : BOOLEAN, page : BOOLEAN]

\* A submission under way has its whole record.
LEMMA UnderWayTyped ==
    ASSUME Wizard!TypeOK, NEW c \in Submission
    PROVE  calls[c] \in {Wizard!Idle} \cup Sent /\ (Wizard!UnderWay(c) <=> calls[c] \in Sent)
BY DEF Wizard!TypeOK, Wizard!UnderWay, Wizard!Idle, Sent

\* A step that moves no submission of the form keeps what is known of it, if it leaves alone
\* what that submission was made of for as long as the step is saved.
LEMMA DialogStep ==
    ASSUME Wizard!IInv, Wizard!TypeOK', UNCHANGED <<loading, made, lost>>,
           \A c \in Submission : /\ Wizard!OfForm(c)' <=> Wizard!OfForm(c)
                                 /\ Wizard!OfForm(c) => calls'[c] = calls[c],
           dialog' /\ saved' # None => step' = saved',
           (\E c \in Submission : Wizard!OfForm(c)) =>
              saved' = None \/ UNCHANGED <<values, saved>>
    PROVE  Wizard!IInv'
BY DEF Wizard!IInv, Wizard!OneSubmission

\* A step after which no submission is of the form.
LEMMA FormAlone ==
    ASSUME Wizard!TypeOK', \A c \in Submission : ~Wizard!OfForm(c)', made' = lost',
           dialog' /\ saved' # None => step' = saved'
    PROVE  Wizard!IInv'
BY DEF Wizard!IInv, Wizard!OneSubmission

\* Every step of the dialog and of its submissions.
LEMMA WizardStep ==
    ASSUME Wizard!WizardAssumption, Wizard!IInv, [Wizard!Next]_wizardVars PROVE Wizard!IInv'
<1>. USE DEF Wizard!WizardAssumption, Wizard!Steps, Wizard!lastStep
<1>1. Wizard!TypeOK /\ Wizard!OneSubmission /\ (dialog /\ saved # None => step = saved)
  BY DEF Wizard!IInv
<1>2. ~loading => \A c \in Submission : ~Wizard!OfForm(c)
  BY <1>1 DEF Wizard!OneSubmission
<1>0. ASSUME UNCHANGED calls
      PROVE  \A c \in Submission : (Wizard!OfForm(c)' <=> Wizard!OfForm(c)) /\ calls'[c] = calls[c]
  BY <1>0 DEF Wizard!OfForm, Wizard!UnderWay
<1>3. CASE Wizard!OpenDialog
  <2>1. Wizard!TypeOK'
    BY <1>1, <1>3 DEF Wizard!OpenDialog, Wizard!TypeOK, Wizard!SavedStep
  <2>. QED BY <1>0, <1>3, <2>1, DialogStep DEF Wizard!OpenDialog, Wizard!SavedStep
<1>4. CASE Wizard!CloseDialog
  <2>1. Wizard!TypeOK'
    BY <1>1, <1>4 DEF Wizard!CloseDialog, Wizard!TypeOK
  <2>. QED BY <1>0, <1>4, <2>1, DialogStep DEF Wizard!CloseDialog
<1>5. CASE Wizard!EditPersonal \/ Wizard!ChoosePlan
  <2>1. /\ dialog /\ step \in {0, 1} /\ UNCHANGED <<dialog, step, saved, loading, calls, made, lost>>
        /\ \/ \E p \in Wizard!Personal : values' = [values EXCEPT !.personal = p]
           \/ \E p \in PlanId : values' = [values EXCEPT !.planId = p]
    BY <1>5 DEF Wizard!EditPersonal, Wizard!ChoosePlan
  <2>2. values' \in Wizard!Value
    BY <1>1, <2>1 DEF Wizard!TypeOK, Wizard!Value
  <2>3. Wizard!TypeOK'
    BY <1>1, <2>1, <2>2 DEF Wizard!TypeOK
  <2>4. (\E c \in Submission : Wizard!OfForm(c)) => saved = None
    BY <1>1, <2>1 DEF Wizard!OneSubmission
  <2>. QED BY <1>0, <1>1, <2>1, <2>3, <2>4, DialogStep
<1>6. CASE Wizard!HandleNext \/ Wizard!HandlePrev
  <2>1. /\ ~loading /\ step' \in 0..2 /\ saved' = step'
        /\ UNCHANGED <<dialog, values, loading, calls, made, lost>>
    BY <1>1, <1>6 DEF Wizard!HandleNext, Wizard!HandlePrev, Wizard!SetStep, Wizard!TypeOK
  <2>2. Wizard!TypeOK'
    BY <1>1, <2>1 DEF Wizard!TypeOK
  <2>. QED BY <1>0, <1>2, <2>1, <2>2, DialogStep
<1>7. ASSUME NEW c \in Submission, Wizard!HandleComplete(c) PROVE Wizard!IInv'
  <2>. DEFINE r == [pc |-> "sent", data |-> values, form |-> TRUE, page |-> TRUE]
  <2>1. /\ dialog /\ step = 2 /\ loading' = TRUE /\ calls' = [calls EXCEPT ![c] = r]
        /\ UNCHANGED <<dialog, step, saved, values, made, lost>> /\ ~loading
    BY <1>7 DEF Wizard!HandleComplete
  <2>2. r \in Sent /\ r.pc = "sent" /\ r.form /\ r.data = values
    BY <1>1 DEF Sent, Wizard!TypeOK
  <2>. HIDE DEF r
  <2>3. /\ calls' \in [Submission -> {Wizard!Idle} \cup Sent] /\ calls'[c] = r
        /\ \A d \in Submission \ {c} : calls'[d] = calls[d]
    BY <1>1, <2>1, <2>2 DEF Wizard!TypeOK, Sent
  <2>4. Wizard!TypeOK'
    BY <1>1, <2>1, <2>3 DEF Wizard!TypeOK, Sent
  <2>5. \A d \in Submission : Wizard!OfForm(d)' => d = c
    BY <1>2, <2>1, <2>3 DEF Wizard!OfForm, Wizard!UnderWay
  <2>6. made = lost /\ saved \in {2, None}
    BY <1>1, <1>2, <2>1 DEF Wizard!OneSubmission
  <2>7. Wizard!OneSubmission'
    <3>1. Wizard!OfForm(c)'
      BY <2>2, <2>3 DEF Wizard!OfForm, Wizard!UnderWay
    <3>. QED BY <2>1, <2>2, <2>3, <2>5, <2>6, <3>1 DEF Wizard!OneSubmission
  <2>. QED BY <1>1, <2>1, <2>4, <2>7 DEF Wizard!IInv
<1>8. ASSUME NEW c \in Submission, Wizard!Create(c) PROVE Wizard!IInv'
  <2>1. calls[c] \in Sent /\ calls[c].pc = "sent"
    BY <1>1, <1>8, UnderWayTyped DEF Wizard!Create, Wizard!UnderWay, Wizard!Idle
  <2>. DEFINE r == [pc |-> "made", data |-> calls[c].data, form |-> calls[c].form, page |-> calls[c].page]
  <2>2. [calls[c] EXCEPT !.pc = "made"] = r
    BY <2>1 DEF Sent
  <2>3. /\ r \in Sent /\ r.pc = "made" /\ r.form = calls[c].form /\ r.data = calls[c].data
    BY <2>1 DEF Sent
  <2>4. /\ calls' = [calls EXCEPT ![c] = r] /\ UNCHANGED <<dialog, step, saved, values, loading, lost>>
        /\ made' = IF Wizard!OfForm(c) THEN made + 1 ELSE made
    BY <1>8, <2>2 DEF Wizard!Create
  <2>. HIDE DEF r
  <2>5. /\ calls' \in [Submission -> {Wizard!Idle} \cup Sent] /\ calls'[c] = r
        /\ \A d \in Submission \ {c} : calls'[d] = calls[d]
    BY <1>1, <2>3, <2>4 DEF Wizard!TypeOK, Sent
  <2>6. Wizard!TypeOK'
    <3>1. made' \in Nat
      BY <1>1, <2>4 DEF Wizard!TypeOK
    <3>. QED BY <1>1, <2>4, <2>5, <3>1 DEF Wizard!TypeOK, Sent
  <2>7. \A d \in Submission : Wizard!OfForm(d)' <=> Wizard!OfForm(d)
    BY <2>1, <2>3, <2>5 DEF Wizard!OfForm, Wizard!UnderWay, Wizard!Idle
  <2>8. CASE Wizard!OfForm(c)
    <3>1. /\ loading /\ saved \in {2, None} /\ (saved # None => calls[c].data = values)
          /\ made = lost /\ lost \in Nat
      BY <1>1, <2>1, <2>8 DEF Wizard!OneSubmission, Wizard!TypeOK
    <3>2. \A d \in Submission : Wizard!OfForm(d)' <=> d = c
      BY <1>1, <2>7, <2>8 DEF Wizard!OneSubmission
    <3>3. Wizard!OneSubmission'
      BY <2>3, <2>4, <2>5, <2>8, <3>1, <3>2 DEF Wizard!OneSubmission
    <3>. QED BY <1>1, <2>4, <2>6, <3>3 DEF Wizard!IInv
  <2>9. CASE ~Wizard!OfForm(c)
    BY <1>1, <2>4, <2>5, <2>6, <2>7, <2>9, DialogStep
  <2>. QED BY <2>8, <2>9
<1>9. ASSUME NEW c \in Submission, Wizard!Completed(c) \/ Wizard!Rejected(c) PROVE Wizard!IInv'
  <2>1. /\ calls[c].pc \in {"sent", "made"} /\ calls' = [calls EXCEPT ![c] = Wizard!Idle]
        /\ UNCHANGED step
    BY <1>9 DEF Wizard!Completed, Wizard!Rejected, Wizard!Throws
  <2>2. calls[c] \in Sent /\ Wizard!UnderWay(c)
    BY <1>1, <2>1, UnderWayTyped DEF Wizard!UnderWay, Wizard!Idle
  <2>3. /\ calls' \in [Submission -> {Wizard!Idle} \cup Sent] /\ calls'[c] = Wizard!Idle
        /\ \A d \in Submission \ {c} : calls'[d] = calls[d]
    BY <1>1, <2>1 DEF Wizard!TypeOK, Sent
  <2>4. /\ ~Wizard!OfForm(c)'
        /\ \A d \in Submission \ {c} : Wizard!OfForm(d)' <=> Wizard!OfForm(d)
    BY <2>3 DEF Wizard!OfForm, Wizard!UnderWay, Wizard!Idle
  <2>5. Wizard!Blank \in Wizard!Value
    BY DEF Wizard!Blank, Wizard!Value, Wizard!Personal
  <2>6. CASE Wizard!OfForm(c)
    <3>1. \A d \in Submission : ~Wizard!OfForm(d)'
      BY <1>1, <2>4, <2>6 DEF Wizard!OneSubmission
    <3>2. made \in Nat /\ lost \in Nat /\ made = IF calls[c].pc = "sent" THEN lost ELSE lost + 1
      BY <1>1, <2>6 DEF Wizard!OneSubmission, Wizard!TypeOK
    <3>3. CASE Wizard!Completed(c)
      <4>1. /\ values' = Wizard!Blank /\ loading' = FALSE /\ made' = 0 /\ lost' = 0
            /\ saved' = None /\ dialog' \in BOOLEAN
        BY <2>6, <3>3 DEF Wizard!Completed, Wizard!Forget
      <4>2. Wizard!TypeOK'
        BY <1>1, <2>1, <2>3, <2>5, <4>1 DEF Wizard!TypeOK, Sent
      <4>. QED BY <3>1, <4>1, <4>2, FormAlone
    <3>4. CASE Wizard!Rejected(c)
      <4>1. /\ UNCHANGED <<dialog, step, saved, values, made>> /\ loading' = FALSE
            /\ lost' = IF calls[c].pc = "sent" THEN lost ELSE lost + 1
        BY <2>6, <3>4 DEF Wizard!Rejected, Wizard!Throws
      <4>2. made' = lost' /\ lost' \in Nat
        BY <3>2, <4>1
      <4>3. Wizard!TypeOK'
        BY <1>1, <2>3, <4>1, <4>2 DEF Wizard!TypeOK, Sent
      <4>. QED BY <1>1, <3>1, <4>1, <4>2, <4>3, FormAlone
    <3>. QED BY <1>9, <3>3, <3>4
  <2>7. CASE ~Wizard!OfForm(c)
    <3>1. /\ UNCHANGED <<values, loading, made, lost>> /\ dialog' \in BOOLEAN /\ (dialog' => dialog)
          /\ saved' \in {saved, None}
      <4>1. CASE Wizard!Completed(c)
        BY <1>1, <2>7, <4>1 DEF Wizard!Completed, Wizard!TypeOK
      <4>2. CASE Wizard!Rejected(c)
        <5>1. loading' = loading
          BY <1>1, <2>7, <4>2 DEF Wizard!Rejected, Wizard!TypeOK
        <5>. QED BY <1>1, <2>7, <4>2, <5>1 DEF Wizard!Rejected, Wizard!Throws, Wizard!TypeOK
      <4>. QED BY <1>9, <4>1, <4>2
    <3>2. Wizard!TypeOK'
      BY <1>1, <2>1, <2>3, <3>1 DEF Wizard!TypeOK, Sent
    <3>. QED BY <1>1, <2>1, <2>3, <2>4, <2>7, <3>1, <3>2, DialogStep
  <2>. QED BY <2>6, <2>7
<1>10. CASE Wizard!LeaveAndReturn \/ Wizard!Reload \/ Wizard!Skeleton
  <2>1. /\ values' = Wizard!Blank /\ loading' = FALSE /\ made' = 0 /\ lost' = 0 /\ UNCHANGED saved
        /\ step' \in {step, Wizard!SavedStep} /\ dialog' \in {dialog, FALSE}
        /\ dialog' /\ saved # None => step' = saved
    BY <1>10 DEF Wizard!LeaveAndReturn, Wizard!Reload, Wizard!Skeleton, Wizard!Forget, Wizard!SavedStep
  <2>2. ASSUME NEW stays \in BOOLEAN, NEW c \in Submission, Wizard!UnderWay(c)
        PROVE  /\ [calls[c] EXCEPT !.form = FALSE, !.page = (stays /\ calls[c].page)] \in Sent
               /\ [calls[c] EXCEPT !.form = FALSE, !.page = (stays /\ calls[c].page)].form = FALSE
    <3>1. calls[c] \in Sent
      BY <1>1, <2>2, UnderWayTyped
    <3>2. (stays /\ calls[c].page) \in BOOLEAN
      OBVIOUS
    <3>. QED BY <3>1, <3>2 DEF Sent
  <2>3. ASSUME NEW stays \in BOOLEAN, NEW c \in Submission
        PROVE  /\ Wizard!Orphan(stays)[c] \in {Wizard!Idle} \cup Sent
               /\ Wizard!Orphan(stays)[c] = Wizard!Idle \/ Wizard!Orphan(stays)[c].form = FALSE
    <3>1. CASE Wizard!UnderWay(c)
      BY <2>2, <3>1 DEF Wizard!Orphan
    <3>2. CASE ~Wizard!UnderWay(c)
      BY <3>2 DEF Wizard!Orphan
    <3>. QED BY <3>1, <3>2
  <2>4. \/ \E stays \in BOOLEAN : calls' = Wizard!Orphan(stays)
        \/ calls' = [c \in Submission |-> Wizard!Idle]
    BY <1>10 DEF Wizard!LeaveAndReturn, Wizard!Reload, Wizard!Skeleton
  <2>5. /\ calls' \in [Submission -> {Wizard!Idle} \cup Sent]
        /\ \A c \in Submission : calls'[c] = Wizard!Idle \/ calls'[c].form = FALSE
    BY <2>3, <2>4 DEF Wizard!Orphan
  <2>6. Wizard!TypeOK'
    <3>1. Wizard!Blank \in Wizard!Value
      BY DEF Wizard!Blank, Wizard!Value, Wizard!Personal
    <3>2. step' \in 0..2
      BY <1>1, <2>1 DEF Wizard!TypeOK, Wizard!SavedStep
    <3>. QED BY <1>1, <2>1, <2>5, <3>1, <3>2 DEF Wizard!TypeOK, Sent
  <2>7. \A c \in Submission : ~Wizard!OfForm(c)'
    BY <2>5 DEF Wizard!OfForm, Wizard!UnderWay, Wizard!Idle
  <2>. QED BY <2>1, <2>6, <2>7, FormAlone
<1>11. CASE UNCHANGED wizardVars
  <2>1. Wizard!TypeOK'
    BY <1>1, <1>11 DEF wizardVars, Wizard!TypeOK
  <2>. QED BY <1>0, <1>1, <1>11, <2>1, DialogStep DEF wizardVars
<1>. QED BY <1>3, <1>4, <1>5, <1>6, <1>7, <1>8, <1>9, <1>10, <1>11 DEF Wizard!Next

-----------------------------------------------------------------------------
(***************************************************************************)
(* The session, in any number of tabs.                                      *)
(***************************************************************************)
\* Nobody is logged in.
LEMMA SessionInit == ASSUME Session!Init PROVE Session!IInv
BY DEF Session!Init, Session!IInv, Session!TypeOK, Session!Path, Session!Payload,
       Session!UserIsLoggedIn

\* A tab's load, once it has begun.
Load == [pc : {"asked", "served"}, path : Session!Path, soft : BOOLEAN]

\* A step that mounts nothing, and sets no cookie to another user's: what the tabs show, and
\* who is logged in, stay.
LEMMA AskStep ==
    ASSUME Session!IInv, NEW t \in Tab, NEW l \in Load \cup {Session!NoLoad},
           load' \in {load, [load EXCEPT ![t] = l]},
           NEW r \in Session!UserRole \cup {"idle"}, login' \in {login, [login EXCEPT ![t] = r]},
           request' \in [Tab -> BOOLEAN], expired' \in BOOLEAN, refreshToken' \in BOOLEAN,
           accessToken' \in {accessToken, "none"}, UNCHANGED <<page, user, changed>>
    PROVE  Session!IInv'
<1>1. Session!TypeOK
  BY DEF Session!IInv
<1>2. load' \in [Tab -> {Session!NoLoad} \cup Load]
  BY <1>1 DEF Session!TypeOK, Load
<1>3. login' \in [Tab -> Session!UserRole \cup {"idle"}]
  BY <1>1 DEF Session!TypeOK
<1>4. Session!TypeOK'
  BY <1>1, <1>2, <1>3 DEF Session!TypeOK, Load
<1>. QED BY <1>4 DEF Session!IInv, Session!Payload, Session!UserIsLoggedIn

\* Every step, of whichever tab.
LEMMA SessionStep ==
    ASSUME Session!IInv, [Session!Next]_sessionVars PROVE Session!IInv'
<1>1. Session!TypeOK /\ Session!UserIsLoggedIn
  BY DEF Session!IInv
<1>2. \A t \in Tab : load[t] \in {Session!NoLoad} \cup Load
  BY <1>1 DEF Session!TypeOK, Load
<1>3. \A path \in Session!Path, soft \in BOOLEAN : Session!Asked(path, soft) \in Load
  BY DEF Session!Asked, Load
<1>4. "/login" \in Session!Path /\ "/landing" \in Session!Path
      /\ \A role : Session!RedirectPath(role) \in Session!Path \ {"/login"}
  BY DEF Session!Path, Session!RedirectPath
<1>5. CASE UNCHANGED sessionVars
  BY <1>5 DEF sessionVars, Session!IInv, Session!TypeOK, Session!Payload, Session!UserIsLoggedIn
<1>6. ASSUME NEW tab \in Tab, NEW path \in Session!Path, NEW soft \in BOOLEAN,
             Session!Navigate(tab, path, soft) PROVE Session!IInv'
  BY <1>1, <1>3, <1>6, AskStep DEF Session!Navigate, Session!Leave, Session!TypeOK, Session!cookies
<1>7. ASSUME NEW tab \in Tab, NEW role \in Session!UserRole, Session!HandleSubmit(tab, role)
      PROVE  Session!IInv'
  BY <1>1, <1>7, AskStep DEF Session!HandleSubmit, Session!TypeOK, Session!cookies
<1>8. ASSUME NEW tab \in Tab, Session!Serve(tab) PROVE Session!IInv'
  <2>1. load[tab] \in Load
    BY <1>2, <1>8 DEF Session!Serve, Session!NoLoad
  <2>2. [load[tab] EXCEPT !.pc = "served"] \in Load
    BY <2>1 DEF Load
  <2>. QED BY <1>1, <1>8, <2>2, AskStep DEF Session!Serve, Session!TypeOK, Session!cookies
<1>9. ASSUME NEW tab \in Tab,
             Session!RedirectToLogin(tab) \/ Session!RedirectToHome(tab) \/ Session!RedirectToLanding(tab)
      PROVE  Session!IInv'
  <2>1. load[tab] \in Load
    BY <1>2, <1>9 DEF Session!RedirectToLogin, Session!RedirectToHome, Session!RedirectToLanding, Session!NoLoad
  <2>2. PICK path \in Session!Path : load' = [load EXCEPT ![tab] = Session!Asked(path, load[tab].soft)]
    BY <1>4, <1>9 DEF Session!RedirectToLogin, Session!RedirectToHome, Session!RedirectToLanding
  <2>3. Session!Asked(path, load[tab].soft) \in Load
    BY <1>3, <2>1 DEF Load
  <2>4. UNCHANGED <<page, user, login, request, refreshToken, changed>>
        /\ accessToken' \in {accessToken, "none"} /\ expired' \in {expired, FALSE}
    BY <1>9 DEF Session!RedirectToLogin, Session!RedirectToHome, Session!RedirectToLanding, Session!cookies
  <2>. QED BY <1>1, <2>2, <2>3, <2>4, AskStep DEF Session!TypeOK
<1>10. ASSUME NEW tab \in Tab, Session!Mount(tab) PROVE Session!IInv'
  <2>1. load[tab] \in Load /\ load[tab] # Session!NoLoad
    BY <1>2, <1>10 DEF Session!Mount, Session!NoLoad
  <2>2. /\ page' = [page EXCEPT ![tab] = load[tab].path]
        /\ user' = IF Session!Kept(tab) THEN user ELSE [user EXCEPT ![tab] = Session!Payload]
        /\ changed' = IF Session!Kept(tab) THEN changed ELSE [changed EXCEPT ![tab] = FALSE]
        /\ load' = [load EXCEPT ![tab] = Session!NoLoad]
        /\ UNCHANGED <<accessToken, expired, refreshToken, login, request>>
    BY <1>10 DEF Session!Mount, Session!cookies
  <2>3. Session!TypeOK'
    BY <1>1, <2>1, <2>2 DEF Session!TypeOK, Load, Session!Payload
  <2>4. Session!Payload' = Session!Payload
    BY <2>2 DEF Session!Payload
  <2>5. ASSUME NEW t \in Tab, page'[t] \in Session!Named, Session!Payload # "none", ~changed'[t]
        PROVE  user'[t] = Session!Payload
    <3>1. CASE t # tab
      BY <1>1, <2>2, <2>5, <3>1 DEF Session!TypeOK, Session!UserIsLoggedIn
    <3>2. CASE t = tab /\ Session!Kept(tab)
      <4>1. page'[tab] = load[tab].path /\ user' = user /\ changed' = changed
        BY <1>1, <2>2, <3>2 DEF Session!TypeOK
      <4>2. page[tab] \in Session!Named
        BY <2>5, <3>2, <4>1 DEF Session!Kept, Session!Named
      <4>. QED BY <1>1, <2>5, <3>2, <4>1, <4>2 DEF Session!UserIsLoggedIn
    <3>3. CASE t = tab /\ ~Session!Kept(tab)
      BY <1>1, <2>2, <3>3 DEF Session!TypeOK
    <3>. QED BY <3>1, <3>2, <3>3
  <2>. QED BY <2>3, <2>4, <2>5 DEF Session!IInv, Session!UserIsLoggedIn
<1>11. ASSUME NEW tab \in Tab, Session!LoginOk(tab) PROVE Session!IInv'
  <2>1. /\ login[tab] # "idle" /\ login' = [login EXCEPT ![tab] = "idle"]
        /\ accessToken' = login[tab] /\ expired' = FALSE /\ refreshToken' = TRUE
        /\ load' = [load EXCEPT ![tab] = Session!Asked(Session!RedirectPath(login[tab]), TRUE)]
        /\ changed' = [u \in Tab |-> changed[u] \/ page[u] \in Session!Named]
        /\ UNCHANGED <<page, user, request>>
    BY <1>11 DEF Session!LoginOk
  <2>2. changed' \in [Tab -> BOOLEAN]
    BY Zenon, <1>1, <2>1 DEF Session!TypeOK
  <2>3. Session!TypeOK'
    BY <1>1, <1>3, <1>4, <2>1, <2>2 DEF Session!TypeOK, Load
  <2>4. \A t \in Tab : page'[t] \in Session!Named => changed'[t]
    BY Zenon, <2>1
  <2>. QED BY <2>3, <2>4 DEF Session!IInv, Session!UserIsLoggedIn
<1>12. ASSUME NEW tab \in Tab, Session!LoginFails(tab) PROVE Session!IInv'
  BY <1>1, <1>12, AskStep DEF Session!LoginFails, Session!cookies, Session!TypeOK
<1>13. ASSUME NEW tab \in Tab, Session!Logout(tab) PROVE Session!IInv'
  BY <1>1, <1>3, <1>4, <1>13, AskStep DEF Session!Logout, Session!TypeOK
<1>14. CASE Session!Expire
  BY <1>1, <1>14 DEF Session!Expire, Session!IInv, Session!TypeOK, Session!Payload, Session!UserIsLoggedIn
<1>15. ASSUME NEW tab \in Tab, Session!Call(tab) \/ Session!Answer(tab) PROVE Session!IInv'
  BY <1>1, <1>15, AskStep DEF Session!Call, Session!Answer, Session!cookies, Session!TypeOK
<1>16. ASSUME NEW tab \in Tab, Session!Unauthorized(tab) PROVE Session!IInv'
  BY <1>1, <1>3, <1>4, <1>16, AskStep DEF Session!Unauthorized, Session!Leave, Session!TypeOK, Session!cookies
<1>. QED
  BY <1>5, <1>6, <1>7, <1>8, <1>9, <1>10, <1>11, <1>12, <1>13, <1>14, <1>15, <1>16 DEF Session!Next

-----------------------------------------------------------------------------
(***************************************************************************)
(* The forgotten password.                                                  *)
(***************************************************************************)
\* No page of the two is open, no mail has been sent.
LEMMA ResetInit == ASSUME Reset!ResetAssumption, Reset!Init PROVE Reset!IInv
<1>. USE DEF Reset!Init
<1>1. Reset!TypeOK
  <2>1. Reset!Empty \in Reset!Field
    BY DEF Reset!Empty, Reset!Field
  <2>. QED BY <2>1 DEF Reset!TypeOK
<1>. QED
  BY <1>1 DEF Reset!IInv, Reset!LinksAreOld, Reset!CallIsOfPage, Reset!loading, Reset!Settled,
              Reset!ChangedIsStored, Reset!NoCall

\* What a message has in it tells the forms apart.
LEMMA MessageHas ==
    /\ \A m \in Reset!Request : "email" \in DOMAIN m /\ m \notin Reset!Change
    /\ \A m \in Reset!Change : "email" \notin DOMAIN m
<1>1. ASSUME NEW m \in Reset!Request PROVE DOMAIN m = {"email"}
  <2>1. m = [email |-> m.email]
    BY DEF Reset!Request
  <2>. QED BY <2>1
<1>2. ASSUME NEW m \in Reset!Change PROVE DOMAIN m = {"token", "password"}
  <2>1. m = [token |-> m.token, password |-> m.password]
    BY DEF Reset!Change
  <2>. QED BY <2>1
<1>. QED BY <1>1, <1>2

\* A call of the page, and its shape when it has one.
Asking == [pc : {"asked", "ok", "refused", "failed", "lost"}, message : Reset!Message]
Left == [pc : {"asked"}, message : Reset!Message]

\* A page has no call, or one of its own while it loads.
LEMMA CallTyped ==
    ASSUME Reset!TypeOK
    PROVE  /\ call \in {Reset!NoCall} \cup Asking /\ (Reset!loading <=> call \in Asking)
           /\ call.pc # "none" <=> call \in Asking
           /\ call \in Asking => call.message \in Reset!Message
<1>1. call = Reset!NoCall \/ call \in Asking
  BY DEF Reset!TypeOK, Asking
<1>2. Reset!NoCall.pc = "none"
  BY DEF Reset!NoCall
<1>3. call \in Asking => call.pc # "none" /\ call.message \in Reset!Message
  BY DEF Asking
<1>. QED BY <1>1, <1>2, <1>3 DEF Reset!loading

\* A page is opened: what its call may still do at the server is that of a stray one.
LEMMA OpenStep ==
    ASSUME Reset!ResetAssumption, Reset!IInv, NEW to \in {"login", "forgot", "reset", "no link"}, NEW link \in Link \cup {None},
           to = "reset" => link \in mail, Reset!Open(to, link)
    PROVE  Reset!IInv'
<1>1. Reset!TypeOK /\ Reset!LinksAreOld /\ Reset!CallIsOfPage /\ Reset!ChangedIsStored
  BY DEF Reset!IInv
<1>2. /\ resetPage' = to /\ token' = link /\ call' = Reset!NoCall /\ field' = Reset!Empty
      /\ UNCHANGED <<mail, good, stored, believed>>
      /\ stray' = IF call.pc = "asked" THEN stray \cup {call} ELSE stray
  BY DEF Reset!Open, Reset!server
<1>3. ASSUME call.pc = "asked"
      PROVE  /\ call \in Left
             /\ call.message \in Reset!Change => believed = None /\ call.message.token \in mail
  <2>1. call \in Asking /\ Reset!loading
    BY <1>1, <1>3, CallTyped
  <2>2. call \in Left
    BY <1>3, <2>1 DEF Asking, Left
  <2>3. CASE resetPage = "forgot" /\ call.message \in Reset!Request
    BY <2>2, <2>3, MessageHas
  <2>4. CASE /\ resetPage = "reset" /\ believed = None
             /\ call.message = [token |-> token, password |-> field.password]
    <3>1. token \in mail
      BY <1>1, <2>4 DEF Reset!LinksAreOld
    <3>2. [token |-> token, password |-> field.password].token = token
      OBVIOUS
    <3>3. call.message.token = token
      BY <2>4, <3>2
    <3>. QED BY <2>2, <2>4, <3>1, <3>3
  <2>. QED BY <1>1, <2>1, <2>3, <2>4 DEF Reset!CallIsOfPage
<1>9. ASSUME NEW left \in stray' PROVE left \in stray \/ (call.pc = "asked" /\ left = call)
  BY <1>2
<1>4. Reset!TypeOK'
  <2>1. Reset!Empty \in Reset!Field
    BY DEF Reset!Empty, Reset!Field
  <2>2. stray' \subseteq Left
    <3>1. stray \subseteq Left
      BY <1>1 DEF Reset!TypeOK, Left
    <3>. QED BY <1>3, <1>9, <3>1
  <2>3. /\ resetPage' \in {"login", "forgot", "sent", "reset", "no link"}
        /\ field' \in Reset!Field /\ token' \in Link \cup {None}
    BY <1>2, <2>1
  <2>4. /\ mail' \subseteq Link /\ good' \in mail' \cup {None}
        /\ stored' \in Password \cup {None} /\ believed' \in Reset!Field \cup {None}
    BY <1>1, <1>2 DEF Reset!TypeOK
  <2>5. call' \in {Reset!NoCall}
    BY <1>2
  <2>6. Reset!NoCall' = Reset!NoCall /\ Reset!Field' = Reset!Field /\ Reset!Message' = Reset!Message
    BY DEF Reset!NoCall, Reset!Field, Reset!Message
  <2>. QED BY <2>2, <2>3, <2>4, <2>5, <2>6 DEF Reset!TypeOK, Left
<1>5. Reset!LinksAreOld'
  <2>1. Reset!Change' = Reset!Change
    BY DEF Reset!Change
  <2>2. ASSUME NEW left \in stray', left.message \in Reset!Change PROVE left.message.token \in mail
    <3>1. CASE left \in stray
      BY <1>1, <2>2, <3>1 DEF Reset!LinksAreOld
    <3>2. CASE call.pc = "asked" /\ left = call
      BY <1>3, <2>2, <3>2
    <3>. QED BY <1>9, <3>1, <3>2
  <2>3. resetPage' = "reset" => token' \in mail'
    BY <1>2
  <2>. QED BY <1>2, <2>1, <2>2, <2>3 DEF Reset!LinksAreOld
<1>6. ~Reset!loading' /\ call'.pc = "none"
  BY <1>2 DEF Reset!loading, Reset!NoCall
<1>7. Reset!Settled' => \A left \in stray' : ~Reset!Reaches(left.message)'
  <2>. SUFFICES ASSUME Reset!Settled', NEW left \in stray' PROVE ~Reset!Reaches(left.message)'
    OBVIOUS
  <2>1. believed # None
    BY <1>2, <1>6 DEF Reset!Settled
  <2>3. left.message \in Reset!Change => left.message.token # good
    <3>1. CASE left \in stray
      BY <2>1, <3>1 DEF Reset!IInv, Reset!Settled, Reset!Reaches
    <3>2. CASE call.pc = "asked" /\ left = call
      BY <1>3, <2>1, <3>2
    <3>. QED BY <1>9, <3>1, <3>2
  <2>4. Reset!Change' = Reset!Change
    BY DEF Reset!Change
  <2>. QED BY <1>2, <2>3, <2>4 DEF Reset!Reaches
<1>. QED BY <1>1, <1>2, <1>4, <1>5, <1>6, <1>7 DEF Reset!IInv, Reset!CallIsOfPage, Reset!ChangedIsStored

\* Typing, and a form that is refused, ask for nothing.
LEMMA TypeStep ==
    ASSUME Reset!IInv, UNCHANGED <<resetPage, token, call, stray, mail, good, stored, believed>>,
           field' \in Reset!Field, Reset!loading => field' = field
    PROVE  Reset!IInv'
<1>1. Reset!TypeOK'
  BY DEF Reset!IInv, Reset!TypeOK
<1>2. (Reset!loading)' <=> Reset!loading
  BY DEF Reset!loading
<1>3. resetPage = "reset" /\ call.pc = "ok" => Reset!loading
  BY DEF Reset!loading, Reset!NoCall
<1>4. Reset!CallIsOfPage'
  BY <1>2 DEF Reset!IInv, Reset!CallIsOfPage
<1>. QED BY <1>1, <1>3, <1>4 DEF Reset!IInv, Reset!LinksAreOld, Reset!Settled, Reset!Reaches, Reset!ChangedIsStored

\* The server answers a message: what a request makes it take is a link nobody had, what a
\* change makes it take is none.
LEMMA ServeStep ==
    ASSUME Reset!ResetAssumption, Reset!IInv, NEW m \in Reset!Message, NEW answer, Reset!Serve(m, answer)
    PROVE  /\ mail \subseteq mail' /\ mail' \subseteq Link /\ good' \in mail' \cup {None}
           /\ stored' \in Password \cup {None}
           /\ m \in Reset!Request => stored' = stored /\ (good' = good \/ good' \notin mail)
           /\ m \in Reset!Change =>
                 IF m.token = good THEN answer = "ok" /\ stored' = m.password /\ good' = None
                 ELSE answer = "refused" /\ stored' = stored /\ good' = good
<1>1. mail \subseteq Link /\ good \in mail \cup {None} /\ stored \in Password \cup {None} /\ None \notin Link
  BY DEF Reset!IInv, Reset!TypeOK, Reset!ResetAssumption
<1>2. CASE m \in Reset!Request
  <2>1. "email" \in DOMAIN m /\ m \notin Reset!Change
    BY <1>2, MessageHas
  <2>2. /\ stored' = stored
        /\ \/ \E link \in Link \ mail : mail' = mail \cup {link} /\ good' = link
           \/ mail' = mail /\ good' = good
    BY <2>1 DEF Reset!Serve
  <2>. QED BY <1>1, <1>2, <2>1, <2>2
<1>3. CASE m \in Reset!Change
  <2>1. "email" \notin DOMAIN m /\ m \notin Reset!Request
    BY <1>3, MessageHas
  <2>2. /\ mail' = mail
        /\ IF m.token = good THEN answer = "ok" /\ stored' = m.password /\ good' = None
           ELSE answer = "refused" /\ stored' = stored /\ good' = good
    BY <2>1 DEF Reset!Serve, Reset!server
  <2>3. m.password \in Password
    BY <1>3 DEF Reset!Change
  <2>. QED BY <1>1, <1>3, <2>1, <2>2, <2>3
<1>. QED BY <1>2, <1>3 DEF Reset!Message

\* The server gets to the page's own call.
LEMMA ReceiveStep == ASSUME Reset!ResetAssumption, Reset!IInv, Reset!Receive PROVE Reset!IInv'
<1>1. Reset!TypeOK /\ Reset!LinksAreOld /\ Reset!CallIsOfPage /\ Reset!ChangedIsStored
  BY DEF Reset!IInv
<1>2. call.pc = "asked" /\ call \in Asking /\ Reset!loading /\ call.message \in Reset!Message
  BY <1>1, CallTyped DEF Reset!Receive
<1>3. PICK answer \in {"ok", "refused"} :
          Reset!Serve(call.message, answer) /\ call' = [call EXCEPT !.pc = answer]
  BY DEF Reset!Receive
<1>4. UNCHANGED <<resetPage, field, error, token, stray, believed>>
  BY DEF Reset!Receive, Reset!form
<1>5. call' \in Asking /\ call'.pc = answer /\ call'.message = call.message
  <2>1. call' = [pc |-> answer, message |-> call.message]
    BY <1>2, <1>3 DEF Asking
  <2>. QED BY <1>2, <1>3, <2>1 DEF Asking
<1>6. Reset!Change' = Reset!Change /\ Reset!Request' = Reset!Request /\ None \notin Link
  BY DEF Reset!Change, Reset!Request, Reset!ResetAssumption
<1>7. /\ mail \subseteq mail' /\ mail' \subseteq Link /\ good' \in mail' \cup {None}
      /\ stored' \in Password \cup {None}
  BY <1>2, <1>3, ServeStep
<1>8. Reset!TypeOK'
  BY <1>1, <1>4, <1>5, <1>7 DEF Reset!TypeOK, Reset!Message, Reset!Change, Reset!Request, Reset!Field, Reset!NoCall, Asking
<1>9. Reset!LinksAreOld'
  BY <1>1, <1>4, <1>6, <1>7 DEF Reset!LinksAreOld
<1>10. Reset!CallIsOfPage'
  BY <1>1, <1>2, <1>4, <1>5, <1>6 DEF Reset!CallIsOfPage
<1>11. CASE resetPage = "forgot" /\ call.message \in Reset!Request
  <2>1. stored' = stored /\ (good' = good \/ good' \notin mail)
    BY <1>2, <1>3, <1>11, ServeStep
  <2>2. Reset!ChangedIsStored'
    BY <1>1, <1>4, <2>1 DEF Reset!ChangedIsStored
  <2>3. ASSUME Reset!Settled', NEW left \in stray PROVE ~(Reset!Reaches(left.message)')
    <3>1. Reset!Settled
      BY <1>4, <1>11, <2>3 DEF Reset!Settled
    <3>2. left.message \in Reset!Change => left.message.token # good /\ left.message.token \in mail
      BY <1>1, <2>3, <3>1 DEF Reset!IInv, Reset!Reaches, Reset!LinksAreOld
    <3>. QED BY <1>6, <2>1, <3>2 DEF Reset!Reaches
  <2>4. resetPage' # "reset"
    BY <1>4, <1>11
  <2>. QED BY <1>4, <1>8, <1>9, <1>10, <2>2, <2>3, <2>4 DEF Reset!IInv
<1>12. CASE /\ resetPage = "reset" /\ believed = None
            /\ call.message = [token |-> token, password |-> field.password]
            /\ field.password \in Password \ Short
  <2>1. call.message \in Reset!Change /\ call.message.token = token /\ call.message.password = field.password
    <3>1. token \in Link
      BY <1>1, <1>12 DEF Reset!LinksAreOld, Reset!TypeOK
    <3>. QED BY <1>12, <3>1 DEF Reset!Change
  <2>2. IF token = good THEN answer = "ok" /\ stored' = field.password /\ good' = None
        ELSE answer = "refused" /\ stored' = stored /\ good' = good
    BY <1>2, <1>3, <2>1, ServeStep
  <2>3. believed' = None
    BY <1>4, <1>12
  <2>4. call'.pc = "ok" => stored' = field'.password
    BY <1>4, <1>5, <2>2
  <2>5. ASSUME Reset!Settled', NEW left \in stray PROVE ~(Reset!Reaches(left.message)')
    <3>1. good' = None
      BY <1>5, <2>2, <2>3, <2>5 DEF Reset!Settled
    <3>2. left.message \in Reset!Change => left.message.token # None
      BY <1>6 DEF Reset!Change
    <3>. QED BY <1>6, <3>1, <3>2 DEF Reset!Reaches
  <2>6. Reset!ChangedIsStored'
    BY <2>3 DEF Reset!ChangedIsStored
  <2>. QED BY <1>4, <1>8, <1>9, <1>10, <2>4, <2>5, <2>6 DEF Reset!IInv
<1>. QED BY <1>1, <1>2, <1>11, <1>12 DEF Reset!CallIsOfPage

\* It gets to the call of a page that was left: what the user believes stays as it is.
LEMMA ReceiveStrayStep == ASSUME Reset!ResetAssumption, Reset!IInv, Reset!ReceiveStray PROVE Reset!IInv'
<1>1. Reset!TypeOK /\ Reset!LinksAreOld /\ Reset!CallIsOfPage /\ Reset!ChangedIsStored
  BY DEF Reset!IInv
<1>2. PICK sent \in stray, answer \in {"ok", "refused"} :
          Reset!Serve(sent.message, answer) /\ stray' = stray \ {sent}
  BY DEF Reset!ReceiveStray
<1>3. UNCHANGED <<resetPage, field, error, token, call, believed>>
  BY DEF Reset!ReceiveStray, Reset!form
<1>4. sent.message \in Reset!Message
  BY <1>1, <1>2 DEF Reset!TypeOK
<1>5. Reset!Change' = Reset!Change /\ Reset!Request' = Reset!Request /\ None \notin Link
  BY DEF Reset!Change, Reset!Request, Reset!ResetAssumption
<1>6. /\ mail \subseteq mail' /\ mail' \subseteq Link /\ good' \in mail' \cup {None}
      /\ stored' \in Password \cup {None}
  BY <1>2, <1>4, ServeStep
<1>7. Reset!TypeOK'
  <2>1. stray' \subseteq Left
    BY <1>1, <1>2 DEF Reset!TypeOK, Left
  <2>2. call' \in {Reset!NoCall} \cup Asking /\ believed' \in Reset!Field \cup {None} /\ field' \in Reset!Field
    BY <1>1, <1>3 DEF Reset!TypeOK, Asking
  <2>3. resetPage' \in {"login", "forgot", "sent", "reset", "no link"} /\ token' \in Link \cup {None}
    BY <1>1, <1>3 DEF Reset!TypeOK
  <2>4. Reset!NoCall' = Reset!NoCall /\ Reset!Field' = Reset!Field /\ Reset!Message' = Reset!Message
    BY DEF Reset!NoCall, Reset!Field, Reset!Message, Reset!Change, Reset!Request
  <2>. QED BY <1>6, <2>1, <2>2, <2>3, <2>4 DEF Reset!TypeOK, Left, Asking
<1>8. Reset!LinksAreOld'
  <2>1. ASSUME NEW left \in stray', left.message \in Reset!Change PROVE left.message.token \in mail'
    BY <1>1, <1>2, <1>6, <2>1 DEF Reset!LinksAreOld
  <2>2. resetPage' = "reset" => token' \in mail'
    BY <1>1, <1>3, <1>6 DEF Reset!LinksAreOld
  <2>. QED BY <1>5, <2>1, <2>2 DEF Reset!LinksAreOld
<1>9. Reset!CallIsOfPage'
  <2>1. Reset!loading' <=> Reset!loading
    BY <1>3 DEF Reset!loading, Reset!NoCall
  <2>. QED BY <1>1, <1>3, <1>5, <2>1 DEF Reset!CallIsOfPage
<1>10. Reset!Settled' <=> Reset!Settled
  BY <1>3 DEF Reset!Settled
<1>11. ASSUME Reset!Settled PROVE stored' = stored /\ (good' = good \/ good' \notin mail)
  <2>1. CASE sent.message \in Reset!Request
    BY <1>2, <1>4, <2>1, ServeStep
  <2>2. CASE sent.message \in Reset!Change
    <3>1. sent.message.token # good
      BY <1>2, <1>11, <2>2 DEF Reset!IInv, Reset!Reaches
    <3>. QED BY <1>2, <1>4, <2>2, <3>1, ServeStep
  <2>. QED BY <1>4, <2>1, <2>2 DEF Reset!Message
<1>12. ASSUME Reset!Settled, NEW left \in stray' PROVE ~(Reset!Reaches(left.message)')
  <2>1. left.message \in Reset!Change => left.message.token # good /\ left.message.token \in mail
    BY <1>1, <1>2, <1>12 DEF Reset!IInv, Reset!Reaches, Reset!LinksAreOld
  <2>. QED BY <1>5, <1>11, <1>12, <2>1 DEF Reset!Reaches
<1>13. (resetPage = "reset" /\ call.pc = "ok") \/ believed # None => Reset!Settled
  BY DEF Reset!Settled
<1>14. resetPage' = "reset" /\ call'.pc = "ok" => stored' = field'.password
  BY <1>3, <1>11, <1>13 DEF Reset!IInv
<1>15. Reset!ChangedIsStored'
  BY <1>1, <1>3, <1>11, <1>13 DEF Reset!ChangedIsStored
<1>. QED BY <1>7, <1>8, <1>9, <1>10, <1>12, <1>14, <1>15 DEF Reset!IInv

\* A form sends its call.  Nothing is believed of a password while one is changed.
LEMMA SendStep ==
    ASSUME Reset!ResetAssumption, Reset!IInv, NEW m \in Reset!Message, call = Reset!NoCall, Reset!Send(m),
           UNCHANGED <<resetPage, field, token, stray, mail, good, stored>>,
           \/ resetPage = "forgot" /\ m \in Reset!Request /\ believed' = believed
           \/ /\ resetPage = "reset" /\ m = [token |-> token, password |-> field.password] /\ believed' = None
              /\ field.password = field.confirmPassword /\ field.password \in Password \ Short
    PROVE  Reset!IInv'
<1>1. Reset!TypeOK /\ Reset!LinksAreOld /\ Reset!ChangedIsStored
  BY DEF Reset!IInv
<1>2. call' = [pc |-> "asked", message |-> m]
  BY DEF Reset!Send
<1>3. call' \in Asking /\ call'.pc = "asked" /\ call'.message = m
  BY <1>2 DEF Asking
<1>4. Reset!TypeOK'
  <2>1. believed' \in Reset!Field \cup {None}
    BY <1>1 DEF Reset!TypeOK
  <2>. QED BY <1>1, <1>3, <2>1 DEF Reset!TypeOK, Reset!Message, Reset!Change, Reset!Request, Reset!Field, Reset!NoCall, Asking
<1>5. Reset!Change' = Reset!Change /\ Reset!Request' = Reset!Request
  BY DEF Reset!Change, Reset!Request
<1>6. Reset!LinksAreOld'
  BY <1>1, <1>5 DEF Reset!LinksAreOld
<1>7. Reset!CallIsOfPage'
  BY <1>3, <1>5 DEF Reset!CallIsOfPage
<1>8. Reset!ChangedIsStored'
  BY <1>1 DEF Reset!ChangedIsStored
<1>9. ASSUME Reset!Settled', NEW left \in stray PROVE ~(Reset!Reaches(left.message)')
  <2>1. believed # None
    BY <1>3, <1>9 DEF Reset!Settled
  <2>2. ~Reset!Reaches(left.message)
    BY <1>9, <2>1 DEF Reset!IInv, Reset!Settled
  <2>. QED BY <1>5, <2>2 DEF Reset!Reaches
<1>. QED BY <1>3, <1>4, <1>6, <1>7, <1>8, <1>9 DEF Reset!IInv

\* The page's call ends, in a page that stays or another.  Nothing new is believed, or what
\* the server has said is stored.
LEMMA EndStep ==
    ASSUME Reset!ResetAssumption, Reset!IInv, call' = Reset!NoCall,
           UNCHANGED <<stray, mail, good, stored>>,
           resetPage' \in {"login", "sent", "reset"}, field' \in Reset!Field, token' \in Link \cup {None},
           resetPage' = "reset" => token' = token /\ resetPage = "reset",
           \/ believed' = believed
           \/ resetPage = "reset" /\ call.pc = "ok" /\ believed' = field
    PROVE  Reset!IInv'
<1>1. Reset!TypeOK /\ Reset!LinksAreOld /\ Reset!CallIsOfPage /\ Reset!ChangedIsStored
  BY DEF Reset!IInv
<1>2. call'.pc = "none" /\ Reset!NoCall' = Reset!NoCall
  BY DEF Reset!NoCall
<1>3. Reset!Change' = Reset!Change
  BY DEF Reset!Change
<1>4. Reset!TypeOK'
  <2>1. believed' \in Reset!Field \cup {None}
    BY <1>1 DEF Reset!TypeOK
  <2>. QED BY <1>1, <2>1 DEF Reset!TypeOK, Reset!Message, Reset!Change, Reset!Request, Reset!Field, Reset!NoCall
<1>5. Reset!LinksAreOld' /\ Reset!CallIsOfPage'
  BY <1>1, <1>2, <1>3 DEF Reset!LinksAreOld, Reset!CallIsOfPage, Reset!loading
<1>6. Reset!ChangedIsStored'
  <2>1. CASE believed' = believed
    BY <1>1, <2>1 DEF Reset!ChangedIsStored
  <2>2. CASE resetPage = "reset" /\ call.pc = "ok" /\ believed' = field
    <3>1. Reset!loading
      BY <2>2 DEF Reset!loading, Reset!NoCall
    <3>2. field.password = field.confirmPassword /\ field.password \notin Short
      BY <1>1, <2>2, <3>1 DEF Reset!CallIsOfPage
    <3>3. stored = field.password
      BY <2>2 DEF Reset!IInv
    <3>. QED BY <2>2, <3>2, <3>3 DEF Reset!ChangedIsStored
  <2>. QED BY <2>1, <2>2
<1>7. ASSUME Reset!Settled', NEW left \in stray PROVE ~(Reset!Reaches(left.message)')
  <2>1. Reset!Settled
    BY <1>2, <1>7 DEF Reset!Settled
  <2>2. ~Reset!Reaches(left.message)
    BY <1>7, <2>1 DEF Reset!IInv
  <2>. QED BY <1>3, <2>2 DEF Reset!Reaches
<1>. QED BY <1>2, <1>4, <1>5, <1>6, <1>7 DEF Reset!IInv

\* Every step of the two pages, of the mail and of the server.
LEMMA ResetStep ==
    ASSUME Reset!ResetAssumption, Reset!IInv, [Reset!Next]_resetVars PROVE Reset!IInv'
<1>1. Reset!TypeOK /\ Reset!LinksAreOld /\ Reset!CallIsOfPage
  BY DEF Reset!IInv
<1>2. CASE UNCHANGED resetVars
  BY <1>2 DEF resetVars, Reset!IInv, Reset!TypeOK, Reset!LinksAreOld, Reset!CallIsOfPage, Reset!loading,
              Reset!Settled, Reset!Reaches, Reset!ChangedIsStored
<1>3. CASE Reset!ForgotPassword \/ Reset!BackToLogin \/ Reset!CutLink \/ \E link \in Link : Reset!FollowLink(link)
  <2>1. Reset!ForgotPassword \/ Reset!BackToLogin \/ Reset!CutLink => Reset!IInv'
    BY OpenStep DEF Reset!ForgotPassword, Reset!BackToLogin, Reset!CutLink
  <2>2. ASSUME NEW link \in Link, Reset!FollowLink(link) PROVE Reset!IInv'
    BY <2>2, OpenStep DEF Reset!FollowLink
  <2>. QED BY <1>3, <2>1, <2>2
<1>4. ASSUME NEW value \in Email, Reset!TypeEmail(value) PROVE Reset!IInv'
  <2>1. field' \in Reset!Field
    BY <1>1, <1>4 DEF Reset!TypeEmail, Reset!TypeOK, Reset!Field
  <2>. QED BY <1>4, <2>1, TypeStep DEF Reset!TypeEmail, Reset!server
<1>5. ASSUME NEW input \in {"password", "confirmPassword"}, NEW value \in Password,
             Reset!TypePassword(input, value)
      PROVE  Reset!IInv'
  <2>1. field' \in Reset!Field
    BY <1>1, <1>5 DEF Reset!TypePassword, Reset!TypeOK, Reset!Field
  <2>. QED BY <1>5, <2>1, TypeStep DEF Reset!TypePassword, Reset!server
<1>6. CASE Reset!SubmitForgot
  <2>1. CASE field.email \in Invalid \cup {None}
    BY <1>1, <1>6, <2>1, TypeStep DEF Reset!SubmitForgot, Reset!Refuse, Reset!server, Reset!TypeOK
  <2>2. CASE field.email \notin Invalid \cup {None}
    <3>1. [email |-> field.email] \in Reset!Request
      BY <1>1, <2>2 DEF Reset!TypeOK, Reset!Field, Reset!Request
    <3>. QED BY <1>6, <2>2, <3>1, SendStep DEF Reset!SubmitForgot, Reset!loading, Reset!server, Reset!Message
  <2>. QED BY <2>1, <2>2
<1>7. CASE Reset!SubmitReset
  <2>1. CASE Reset!PasswordError # "none"
    BY <1>1, <1>7, <2>1, TypeStep DEF Reset!SubmitReset, Reset!Refuse, Reset!server, Reset!TypeOK
  <2>2. CASE Reset!PasswordError = "none"
    <3>1. field.password \in Password \ Short /\ field.password = field.confirmPassword
      BY <1>1, <2>2 DEF Reset!PasswordError, Reset!TypeOK, Reset!Field
    <3>2. token \in Link
      BY <1>1, <1>7 DEF Reset!SubmitReset, Reset!TypeOK, Reset!LinksAreOld
    <3>3. [token |-> token, password |-> field.password] \in Reset!Message
      BY <3>1, <3>2 DEF Reset!Message, Reset!Change
    <3>. QED BY <1>7, <2>2, <3>1, <3>3, SendStep DEF Reset!SubmitReset, Reset!loading, Reset!server
  <2>. QED BY <2>1, <2>2
<1>8. CASE Reset!ForgotAnswered
  BY <1>1, <1>8, EndStep DEF Reset!ForgotAnswered, Reset!form, Reset!server, Reset!TypeOK
<1>9. CASE Reset!ResetAnswered
  <2>1. Reset!Empty \in Reset!Field
    BY DEF Reset!Empty, Reset!Field
  <2>. QED BY <1>1, <1>9, <2>1, EndStep DEF Reset!ResetAnswered, Reset!server, Reset!TypeOK
<1>10. CASE Reset!Fail
  <2>1. PICK pc \in {"failed", "lost"} : call' = [call EXCEPT !.pc = pc]
    BY <1>10 DEF Reset!Fail
  <2>2. call \in Asking
    BY <1>1, <1>10, CallTyped DEF Reset!Fail
  <2>3. call' = [pc |-> pc, message |-> call.message]
    BY <2>1, <2>2 DEF Asking
  <2>4. call' \in Asking /\ call'.pc = pc /\ call'.message = call.message
    BY <2>2, <2>3 DEF Asking
  <2>5. UNCHANGED <<resetPage, field, token, stray, mail, good, stored, believed>>
    BY <1>10 DEF Reset!Fail, Reset!form, Reset!server
  <2>6. Reset!TypeOK'
    <3>1. call' \in {Reset!NoCall} \cup [pc : {"asked", "ok", "refused", "failed", "lost"}, message : Reset!Message]
      BY <2>4 DEF Asking
    <3>. QED BY <1>1, <2>5, <3>1, Zenon DEF Reset!TypeOK
  <2>7. Reset!LinksAreOld'
    BY <1>1, <2>5 DEF Reset!LinksAreOld, Reset!Change
  <2>8. Reset!CallIsOfPage'
    BY <1>1, <2>2, <2>4, <2>5, CallTyped DEF Reset!CallIsOfPage, Reset!Request
  <2>9. Reset!Settled' => Reset!Settled
    BY <2>4, <2>5 DEF Reset!Settled
  <2>10. ASSUME Reset!Settled, NEW left \in stray PROVE ~(Reset!Reaches(left.message)')
    BY <2>5, <2>10 DEF Reset!IInv, Reset!Reaches, Reset!Change
  <2>11. Reset!ChangedIsStored'
    BY <2>5 DEF Reset!IInv, Reset!ChangedIsStored
  <2>. QED BY <2>4, <2>5, <2>6, <2>7, <2>8, <2>9, <2>10, <2>11 DEF Reset!IInv
<1>. QED
  BY <1>2, <1>3, <1>4, <1>5, <1>6, <1>7, <1>8, <1>9, <1>10, ReceiveStep, ReceiveStrayStep DEF Reset!Next

-----------------------------------------------------------------------------
(***************************************************************************)
(* The top of the landing page.                                             *)
(***************************************************************************)
\* The frame of a scroll is one of the frames and the nearest one.
LEMMA NearestFrame ==
    ASSUME Hero!HeroAssumption, NEW p \in 0..20
    PROVE  /\ Hero!FrameAt(p) \in Hero!Frame
           /\ 20 * Hero!FrameAt(p) <= p * (FrameCount - 1) + 10
           /\ p * (FrameCount - 1) + 10 < 20 * Hero!FrameAt(p) + 20
<1>. DEFINE n == FrameCount - 1
            x == p * n
<1>1. n \in Nat /\ x \in Nat
  BY DEF Hero!HeroAssumption
<1>2. x <= 20 * n
  BY <1>1
<1>3. Hero!FrameAt(p) = (2 * x + 20) \div 40
  <2>1. 2 * p * n = 2 * x
    BY <1>1
  <2>. QED BY <2>1 DEF Hero!FrameAt
<1>. HIDE DEF x
<1>4. /\ Hero!FrameAt(p) \in Nat /\ 40 * Hero!FrameAt(p) <= 2 * x + 20
      /\ 2 * x + 20 < 40 * Hero!FrameAt(p) + 40
  BY <1>1, <1>3
<1>5. Hero!FrameAt(p) <= n
  BY <1>1, <1>2, <1>4
<1>6. Hero!FrameAt(p) \in 0..n
  BY <1>1, <1>4, <1>5
<1>7. 20 * Hero!FrameAt(p) <= x + 10 /\ x + 10 < 20 * Hero!FrameAt(p) + 20
  BY <1>1, <1>4
<1>. QED BY <1>6, <1>7 DEF Hero!Frame, x

\* The top of the section is the first frame.
LEMMA FirstFrame == ASSUME Hero!HeroAssumption PROVE Hero!FrameAt(0) = 0 /\ 0 \in Hero!Frame
<1>1. FrameCount - 1 \in Nat
  BY DEF Hero!HeroAssumption
<1>2. 2 * 0 * (FrameCount - 1) + 20 = 20
  BY <1>1
<1>3. 20 \div 40 = 0
  OBVIOUS
<1>. QED BY <1>1, <1>2, <1>3 DEF Hero!FrameAt, Hero!Frame

\* Whatever the size of the window, nothing is asked for yet but the images.
LEMMA HeroInit == ASSUME Hero!HeroAssumption, Hero!Init PROVE Hero!IInv
<1>1. PICK size \in Hero!Size : canvas = [frame |-> -1, drawnAt |-> size, window |-> size]
  BY DEF Hero!Init
<1>2. Hero!TypeOK
  <2>1. canvas \in [frame : Hero!Frame \cup {-1}, drawnAt : Hero!Size, window : Hero!Size]
    BY <1>1
  <2>2. raf \in Seq(Hero!JobType) /\ 0 \in 0..20
    BY EmptySeq DEF Hero!Init
  <2>3. imagesRef \subseteq Hero!Frame /\ due \subseteq Hero!Frame /\ loaded \in {"no", "set", "yes"}
    BY DEF Hero!Init
  <2>4. scroll \in 0..20 /\ currentFrame \in Hero!Frame /\ undrawn \in BOOLEAN /\ rewound \in BOOLEAN
    BY <2>2, FirstFrame DEF Hero!Init
  <2>. QED BY <2>1, <2>2, <2>3, <2>4 DEF Hero!TypeOK
<1>3. Hero!LastIsDrawn
  BY FirstFrame DEF Hero!Init, Hero!LastIsDrawn
<1>4. activeSlide = Hero!SlideAt(scroll)
  BY DEF Hero!Init, Hero!SlideAt
<1>. QED BY <1>2, <1>3, <1>4 DEF Hero!IInv

\* What a job at the end of those that wait does to them.
LEMMA JobWaits ==
    ASSUME raf \in Seq(Hero!JobType), NEW job \in Hero!JobType
    PROVE  /\ Append(raf, job) \in Seq(Hero!JobType) /\ Append(raf, job) # <<>>
           /\ Len(Append(raf, job)) = Len(raf) + 1 /\ Len(raf) \in Nat
           /\ Append(raf, job)[Len(raf) + 1] = job
           /\ \A i \in 1..Len(raf) : Append(raf, job)[i] = raf[i]
BY AppendProperties, LenProperties

\* An image comes; when it is the first frame, a draw of it waits.
LEMMA ImageStep ==
    ASSUME Hero!HeroAssumption, Hero!IInv, NEW frame \in Hero!Frame, Hero!ImageLoads(frame)
    PROVE  Hero!IInv'
<1>1. Hero!TypeOK /\ Hero!LastIsDrawn
  BY DEF Hero!IInv
<1>2. /\ due' = due \ {frame} /\ imagesRef' = imagesRef \cup {frame}
      /\ loaded' = IF due' = {} /\ loaded = "no" THEN "set" ELSE loaded
      /\ raf' = IF frame = 0 THEN Append(raf, Hero!Job(0)) ELSE raf
      /\ rewound' = (rewound \/ (frame = 0 /\ Hero!FrameAt(scroll) # 0))
      /\ UNCHANGED <<scroll, activeSlide, currentFrame, canvas, undrawn>>
  BY DEF Hero!ImageLoads
<1>3. raf \in Seq(Hero!JobType) /\ Hero!Job(0) \in Hero!JobType /\ Hero!Job(0).frame = 0
  BY <1>1, FirstFrame DEF Hero!TypeOK, Hero!Job, Hero!JobType
<1>4. Hero!TypeOK'
  <2>1. raf' \in Seq(Hero!JobType)
    BY <1>2, <1>3, JobWaits
  <2>2. /\ loaded' \in {"no", "set", "yes"} /\ imagesRef' \subseteq Hero!Frame /\ due' \subseteq Hero!Frame
        /\ rewound' \in BOOLEAN
    BY <1>1, <1>2 DEF Hero!TypeOK
  <2>. QED BY <1>1, <1>2, <2>1, <2>2 DEF Hero!TypeOK, Hero!JobType, Hero!Frame, Hero!Size
<1>5. ASSUME ~rewound', frame = 0 PROVE raf' # <<>> /\ raf'[Len(raf')].frame = Hero!FrameAt(scroll)
  BY <1>2, <1>3, <1>5, JobWaits
<1>6. Hero!LastIsDrawn'
  BY <1>1, <1>2, <1>5 DEF Hero!LastIsDrawn, Hero!FrameAt
<1>. QED BY <1>2, <1>4, <1>6 DEF Hero!IInv, Hero!SlideAt

\* A draw notes its frame, and draws it if its image is complete.
LEMMA DrawKeeps ==
    ASSUME Hero!TypeOK, ~undrawn => canvas.frame = currentFrame,
           NEW frame \in Hero!Frame, NEW knows \in BOOLEAN, NEW images, Hero!DrawFrame(frame, knows, images)
    PROVE  /\ currentFrame' = frame /\ undrawn' \in BOOLEAN
           /\ canvas' \in [frame : Hero!Frame \cup {-1}, drawnAt : Hero!Size, window : Hero!Size]
           /\ ~undrawn' => canvas'.frame = frame
<1>1. CASE frame = currentFrame /\ knows
  BY <1>1 DEF Hero!DrawFrame, Hero!TypeOK
<1>2. CASE ~(frame = currentFrame /\ knows)
  <2>1. /\ currentFrame' = frame /\ undrawn' = (frame \notin images)
        /\ canvas' = IF frame \in images
                     THEN [canvas EXCEPT !.frame = frame, !.drawnAt = canvas.window]
                     ELSE canvas
    BY <1>2 DEF Hero!DrawFrame
  <2>. QED BY <2>1 DEF Hero!TypeOK
<1>. QED BY <1>1, <1>2

\* Everything is asked for a second time, and the first frame drawn.
LEMMA CommitStep == ASSUME Hero!HeroAssumption, Hero!IInv, Hero!Commit PROVE Hero!IInv'
<1>1. Hero!TypeOK /\ Hero!LastIsDrawn
  BY DEF Hero!IInv
<1>2. /\ loaded' = "yes" /\ due' = Hero!Frame /\ imagesRef' \in SUBSET Hero!Frame
      /\ Hero!DrawFrame(0, TRUE, imagesRef')
      /\ rewound' = (rewound \/ (raf = <<>> /\ Hero!FrameAt(scroll) # 0))
      /\ UNCHANGED <<scroll, activeSlide, raf>>
  BY DEF Hero!Commit
<1>3. /\ currentFrame' = 0 /\ undrawn' \in BOOLEAN
      /\ canvas' \in [frame : Hero!Frame \cup {-1}, drawnAt : Hero!Size, window : Hero!Size]
      /\ ~undrawn' => canvas'.frame = 0
  BY <1>1, <1>2, FirstFrame, DrawKeeps DEF Hero!LastIsDrawn
<1>4. Hero!TypeOK'
  BY <1>1, <1>2, <1>3, FirstFrame DEF Hero!TypeOK, Hero!JobType, Hero!Frame, Hero!Size
<1>5. Hero!LastIsDrawn'
  BY <1>1, <1>2, <1>3 DEF Hero!LastIsDrawn, Hero!FrameAt
<1>. QED BY <1>2, <1>4, <1>5 DEF Hero!IInv, Hero!SlideAt

\* The draw that waited longest.
LEMMA DrawStep == ASSUME Hero!HeroAssumption, Hero!IInv, Hero!Draw PROVE Hero!IInv'
<1>. DEFINE job == Head(raf)
<1>1. Hero!TypeOK /\ Hero!LastIsDrawn
  BY DEF Hero!IInv
<1>2. raf \in Seq(Hero!JobType) /\ raf # <<>>
  BY <1>1 DEF Hero!TypeOK, Hero!Draw
<1>3. /\ raf' = Tail(raf) /\ UNCHANGED <<scroll, activeSlide, imagesRef, due, loaded, rewound>>
      /\ Hero!DrawFrame(job.frame, job.knows, imagesRef)
  BY DEF Hero!Draw, Hero!hero
<1>4. /\ job \in Hero!JobType /\ job = raf[1] /\ Len(raf) \in Nat \ {0}
      /\ raf' \in Seq(Hero!JobType) /\ Len(raf') = Len(raf) - 1
      /\ \A i \in 1..Len(raf') : raf'[i] = raf[i + 1]
  BY <1>2, <1>3, HeadTailProperties, LenProperties
<1>5. job.frame \in Hero!Frame /\ job.knows \in BOOLEAN
  BY <1>4 DEF Hero!JobType
<1>. HIDE DEF job
<1>6. /\ currentFrame' = job.frame /\ undrawn' \in BOOLEAN
      /\ canvas' \in [frame : Hero!Frame \cup {-1}, drawnAt : Hero!Size, window : Hero!Size]
      /\ ~undrawn' => canvas'.frame = job.frame
  BY <1>1, <1>3, <1>5, DrawKeeps DEF Hero!LastIsDrawn
<1>7. Hero!TypeOK'
  BY <1>1, <1>3, <1>4, <1>5, <1>6 DEF Hero!TypeOK, Hero!JobType, Hero!Frame, Hero!Size
<1>8. ASSUME ~rewound
      PROVE  IF raf' = <<>> THEN currentFrame' = Hero!FrameAt(scroll) ELSE raf'[Len(raf')].frame = Hero!FrameAt(scroll)
  <2>1. raf[Len(raf)].frame = Hero!FrameAt(scroll)
    BY <1>1, <1>2, <1>8 DEF Hero!LastIsDrawn
  <2>2. CASE raf' = <<>>
    <3>1. Len(raf) = 1
      BY <1>4, <2>2
    <3>. QED BY <1>4, <1>6, <2>1, <2>2, <3>1
  <2>3. CASE raf' # <<>>
    <3>1. Len(raf') \in 1..Len(raf') /\ Len(raf') + 1 = Len(raf)
      BY <1>4, <2>3, EmptySeq
    <3>. QED BY <1>4, <2>1, <2>3, <3>1
  <2>. QED BY <2>2, <2>3
<1>9. Hero!LastIsDrawn'
  BY <1>3, <1>6, <1>8 DEF Hero!LastIsDrawn, Hero!FrameAt
<1>10. activeSlide' = Hero!SlideAt(scroll')
  BY <1>3 DEF Hero!IInv
<1>. QED BY <1>7, <1>9, <1>10 DEF Hero!IInv

\* The visitor scrolls: the draw of what he scrolls to waits.
LEMMA ScrollStep ==
    ASSUME Hero!HeroAssumption, Hero!IInv, NEW progress \in 0..20, Hero!Scroll(progress)
    PROVE  Hero!IInv'
<1>. DEFINE job == Hero!Job(Hero!FrameAt(progress))
<1>1. Hero!TypeOK /\ Hero!LastIsDrawn
  BY DEF Hero!IInv
<1>2. /\ scroll' = progress /\ activeSlide' = Hero!SlideAt(progress) /\ raf' = Append(raf, job)
      /\ rewound' = FALSE
      /\ UNCHANGED <<imagesRef, due, loaded, currentFrame, canvas, undrawn>>
  BY DEF Hero!Scroll, Hero!hero
<1>3. job \in Hero!JobType /\ job.frame = Hero!FrameAt(progress)
  BY NearestFrame DEF Hero!Job, Hero!JobType
<1>. HIDE DEF job
<1>4. raf \in Seq(Hero!JobType)
  BY <1>1 DEF Hero!TypeOK
<1>5. /\ raf' \in Seq(Hero!JobType) /\ raf' # <<>> /\ raf'[Len(raf')] = job
  BY <1>2, <1>3, <1>4, JobWaits
<1>6. Hero!TypeOK'
  BY <1>1, <1>2, <1>5 DEF Hero!TypeOK, Hero!JobType, Hero!Frame, Hero!Size
<1>7. raf'[Len(raf')].frame = Hero!FrameAt(scroll')
  BY <1>2, <1>3, <1>5
<1>8. Hero!LastIsDrawn'
  BY <1>1, <1>2, <1>5, <1>7 DEF Hero!LastIsDrawn, Hero!FrameAt
<1>. QED BY <1>2, <1>6, <1>8 DEF Hero!IInv, Hero!SlideAt

\* The window's size changes: what is noted is drawn anew or stays.
LEMMA ResizeStep ==
    ASSUME Hero!HeroAssumption, Hero!IInv, NEW size \in Hero!Size, Hero!Resize(size)
    PROVE  Hero!IInv'
<1>1. Hero!TypeOK /\ Hero!LastIsDrawn
  BY DEF Hero!IInv
<1>2. UNCHANGED <<scroll, activeSlide, imagesRef, due, loaded, raf, currentFrame, rewound>>
  BY DEF Hero!Resize, Hero!hero
<1>3. \/ canvas' = [frame |-> currentFrame, drawnAt |-> size, window |-> size] /\ undrawn' = FALSE
      \/ canvas' = [canvas EXCEPT !.window = size] /\ undrawn' = undrawn
  BY DEF Hero!Resize
<1>4. /\ canvas' \in [frame : Hero!Frame \cup {-1}, drawnAt : Hero!Size, window : Hero!Size]
      /\ undrawn' \in BOOLEAN /\ (~undrawn' => canvas'.frame = currentFrame)
  <2>1. CASE canvas' = [frame |-> currentFrame, drawnAt |-> size, window |-> size] /\ undrawn' = FALSE
    BY <1>1, <2>1 DEF Hero!TypeOK
  <2>2. CASE canvas' = [canvas EXCEPT !.window = size] /\ undrawn' = undrawn
    <3>1. canvas' \in [frame : Hero!Frame \cup {-1}, drawnAt : Hero!Size, window : Hero!Size]
          /\ canvas'.frame = canvas.frame
      BY <1>1, <2>2 DEF Hero!TypeOK
    <3>2. undrawn' \in BOOLEAN
      BY <1>1, <2>2 DEF Hero!TypeOK
    <3>3. ~undrawn' => canvas.frame = currentFrame
      BY <1>1, <2>2 DEF Hero!LastIsDrawn
    <3>. QED BY <3>1, <3>2, <3>3
  <2>. QED BY <1>3, <2>1, <2>2
<1>5. Hero!TypeOK'
  BY <1>1, <1>2, <1>4 DEF Hero!TypeOK, Hero!JobType, Hero!Frame, Hero!Size
<1>6. Hero!LastIsDrawn'
  BY <1>1, <1>2, <1>4 DEF Hero!LastIsDrawn, Hero!FrameAt
<1>. QED BY <1>2, <1>5, <1>6 DEF Hero!IInv, Hero!SlideAt

\* Every step.
LEMMA HeroStep == ASSUME Hero!HeroAssumption, Hero!IInv, [Hero!Next]_heroVars PROVE Hero!IInv'
<1>1. CASE UNCHANGED heroVars
  BY <1>1 DEF heroVars, Hero!IInv, Hero!TypeOK, Hero!JobType, Hero!Frame, Hero!Size,
              Hero!LastIsDrawn, Hero!FrameAt, Hero!SlideAt
<1>. QED BY <1>1, ImageStep, CommitStep, DrawStep, ScrollStep, ResizeStep DEF Hero!Next

\* With no draw waiting, what is drawn is what was noted last: the frame of the scroll.
LEMMA NoneWaits == ASSUME Hero!HeroAssumption, Hero!IInv PROVE Hero!FollowsScroll
<1>. SUFFICES ASSUME raf = <<>>, ~undrawn, ~rewound
              PROVE  /\ canvas.frame = Hero!FrameAt(scroll) /\ scroll \in 0..20
                     /\ Hero!FollowsScroll
  BY DEF Hero!FollowsScroll
<1>. DEFINE x == scroll * (FrameCount - 1)
            f == Hero!FrameAt(scroll)
<1>1. canvas.frame = f /\ scroll \in 0..20
  BY DEF Hero!IInv, Hero!TypeOK, Hero!LastIsDrawn
<1>2. f \in Hero!Frame /\ 20 * f <= x + 10 /\ x + 10 < 20 * f + 20
  BY <1>1, NearestFrame
<1>3. x \in Int
  BY <1>1 DEF Hero!HeroAssumption
<1>4. \A frame \in Hero!Frame : frame \in Int
  BY DEF Hero!Frame
<1>. HIDE DEF x, f
<1>5. ASSUME NEW frame \in Hero!Frame
      PROVE  (IF 20 * f > x THEN 20 * f - x ELSE x - 20 * f)
                <= (IF 20 * frame > x THEN 20 * frame - x ELSE x - 20 * frame)
  <2>1. f \in Int /\ frame \in Int
    BY <1>2, <1>4
  <2>2. frame = f \/ frame >= f + 1 \/ frame <= f - 1
    BY <2>1
  <2>. QED BY <1>2, <1>3, <2>1, <2>2
<1>6. Hero!FollowsScroll
  BY <1>1, <1>2, <1>5 DEF Hero!FollowsScroll, x
<1>. QED BY <1>1, <1>6 DEF f

\* The thresholds of the slides and their opacities, at every twentieth of the scroll.
LEMMA SlideIsReadable == ASSUME Hero!IInv PROVE Hero!ActiveIsReadable
<1>1. scroll \in 0..20 /\ activeSlide = Hero!SlideAt(scroll)
  BY DEF Hero!IInv, Hero!TypeOK
<1>. DEFINE op(s) == Hero!SlideOpacity(s, scroll)
<1>2. \A p \in 0..20, from \in 0..20, to \in 0..20 :
         /\ p <= from => Hero!Between(p, from, to) = 0
         /\ p > from /\ p >= to => Hero!Between(p, from, to) = 100
  BY DEF Hero!Between
<1>3. Hero!Between(4, 3, 5) = 50 /\ Hero!Between(9, 8, 10) = 50 /\ Hero!Between(14, 13, 15) = 50
  BY DEF Hero!Between
<1>4. /\ op(0) = 100 - (Hero!Between(scroll, 3, 4) + Hero!Between(scroll, 4, 5)) \div 2
      /\ op(1) = Hero!Between(scroll, 3, 5) - Hero!Between(scroll, 8, 10)
      /\ op(2) = Hero!Between(scroll, 8, 10) - Hero!Between(scroll, 13, 15)
      /\ op(3) = Hero!Between(scroll, 13, 15)
  BY DEF Hero!SlideOpacity
<1>5. /\ Hero!SlideAt(scroll) \in 0..3
      /\ scroll < 4 => Hero!SlideAt(scroll) = 0
      /\ scroll >= 4 /\ scroll < 9 => Hero!SlideAt(scroll) = 1
      /\ scroll >= 9 /\ scroll < 14 => Hero!SlideAt(scroll) = 2
      /\ scroll >= 14 => Hero!SlideAt(scroll) = 3
  BY <1>1 DEF Hero!SlideAt
<1>6. SUFFICES /\ op(activeSlide) >= 50
               /\ \A s \in 0..3 : op(s) <= op(activeSlide)
  <2>1. Hero!ActiveIsReadable
           <=> /\ op(activeSlide) >= 50
               /\ \A s \in 0..3 : op(s) <= op(activeSlide)
    BY ZenonT(20) DEF Hero!ActiveIsReadable
  <2>. QED BY <2>1
<1>. HIDE DEF op
<1>7. CASE scroll \in 0..3
  <2>1. activeSlide = 0
    BY <1>1, <1>5, <1>7
  <2>2. op(0) = 100 /\ op(1) = 0 /\ op(2) = 0 /\ op(3) = 0
    BY <1>1, <1>2, <1>3, <1>4, <1>7
  <2>. QED BY <2>1, <2>2
<1>8. CASE scroll = 4
  <2>1. activeSlide = 1
    BY <1>1, <1>5, <1>8
  <2>2. op(0) = 50 /\ op(1) = 50 /\ op(2) = 0 /\ op(3) = 0
    BY <1>1, <1>2, <1>3, <1>4, <1>8
  <2>. QED BY <2>1, <2>2
<1>9. CASE scroll \in 5..8
  <2>1. activeSlide = 1
    BY <1>1, <1>5, <1>9
  <2>2. op(0) = 0 /\ op(1) = 100 /\ op(2) = 0 /\ op(3) = 0
    BY <1>1, <1>2, <1>3, <1>4, <1>9
  <2>. QED BY <2>1, <2>2
<1>10. CASE scroll = 9
  <2>1. activeSlide = 2
    BY <1>1, <1>5, <1>10
  <2>2. op(0) = 0 /\ op(1) = 50 /\ op(2) = 50 /\ op(3) = 0
    BY <1>1, <1>2, <1>3, <1>4, <1>10
  <2>. QED BY <2>1, <2>2
<1>11. CASE scroll \in 10..13
  <2>1. activeSlide = 2
    BY <1>1, <1>5, <1>11
  <2>2. op(0) = 0 /\ op(1) = 0 /\ op(2) = 100 /\ op(3) = 0
    BY <1>1, <1>2, <1>3, <1>4, <1>11
  <2>. QED BY <2>1, <2>2
<1>12. CASE scroll = 14
  <2>1. activeSlide = 3
    BY <1>1, <1>5, <1>12
  <2>2. op(0) = 0 /\ op(1) = 0 /\ op(2) = 50 /\ op(3) = 50
    BY <1>1, <1>2, <1>3, <1>4, <1>12
  <2>. QED BY <2>1, <2>2
<1>13. CASE scroll \in 15..20
  <2>1. activeSlide = 3
    BY <1>1, <1>5, <1>13
  <2>2. op(0) = 0 /\ op(1) = 0 /\ op(2) = 0 /\ op(3) = 100
    BY <1>1, <1>2, <1>3, <1>4, <1>13
  <2>. QED BY <2>1, <2>2
<1>. QED BY <1>1, <1>7, <1>8, <1>9, <1>10, <1>11, <1>12, <1>13

-----------------------------------------------------------------------------
(***************************************************************************)
(* The runs of MCPages.  Of a phone, one digit at most is missing or too    *)
(* many: with two missing after 54 the ten that are left pass for a local   *)
(* number.  Of an amount, two decimals at most are typed: with a third one  *)
(* the text is rounded and the amount is not.                               *)
(***************************************************************************)
OneSlip == Slips \in 0..1
TwoDecimals == Decimals \in 0..2

PartsIInv ==
    /\ part = "session" => Session!IInv
    /\ part = "reset" => Reset!IInv
    /\ part = "hero" => Hero!IInv
    /\ part = "overview" => Overview!IInv
    /\ part = "wizard" => Wizard!IInv
    /\ part = "table" => Table!IInv
    /\ part = "phone" /\ OneSlip => Phone!IInv
    /\ part = "amount" /\ TwoDecimals => Amount!IInv

\* A run is that of the part chosen at the start, from that part's initial state.
LEMMA PartsInit == MCInit => PartsIInv
<1>. SUFFICES ASSUME MCInit PROVE PartsIInv
  OBVIOUS
<1>1. /\ part = "session" => Session!Init
      /\ part = "reset" => Reset!Init
      /\ part = "hero" => Hero!Init
      /\ part = "overview" => Overview!Init
      /\ part = "wizard" => Wizard!Init
      /\ part = "table" => Table!Init
      /\ part = "phone" => Phone!Init
      /\ part = "amount" => Amount!Init
  BY DEF MCInit
<1>2. part = "session" => Session!IInv
  BY <1>1, SessionInit
<1>3. part = "reset" => Reset!IInv
  BY <1>1, PartsAssumption, ResetInit
<1>4. part = "overview" => Overview!IInv
  BY <1>1, PartsAssumption, OverviewInit
<1>5. part = "wizard" => Wizard!IInv
  BY <1>1, PartsAssumption, WizardInit
<1>6. part = "hero" => Hero!IInv
  BY <1>1, PartsAssumption, HeroInit
<1>7. part = "table" => Table!IInv
  BY <1>1, PartsAssumption, TableInit
<1>8. part = "phone" => Phone!IInv
  BY <1>1, PhoneInit
<1>9. part = "amount" => Amount!IInv
  <2>1. Whole \subseteq Nat
    BY PartsAssumption DEF Amount!CurrencyAssumption
  <2>. QED BY <1>1, <2>1, AmountInit
<1>. QED BY <1>2, <1>3, <1>4, <1>5, <1>6, <1>7, <1>8, <1>9 DEF PartsIInv

\* The other parts' variables stay as they are.
LEMMA PartsStep ==
    ASSUME PartsIInv,
           [MCNext]_<<part, sessionVars, resetVars, heroVars, overviewVars,
                      tableVars, wizardVars, phoneVars, amountVars>>
    PROVE  PartsIInv'
<1>1. part' = part
  BY DEF MCNext
<1>2. /\ part = "session" => [Session!Next]_sessionVars
      /\ part = "reset" => [Reset!Next]_resetVars
      /\ part = "hero" => [Hero!Next]_heroVars
      /\ part = "overview" => [Overview!Next]_overviewVars
      /\ part = "wizard" => [Wizard!Next]_wizardVars
      /\ part = "table" => [Table!Next]_tableVars
      /\ part = "phone" => [Phone!Next]_phoneVars
      /\ part = "amount" => [Amount!Next]_amountVars
  BY DEF MCNext
<1>3. ASSUME part = "session" PROVE Session!IInv'
  BY <1>2, <1>3, SessionStep DEF PartsIInv
<1>4. ASSUME part = "reset" PROVE Reset!IInv'
  BY <1>2, <1>4, PartsAssumption, ResetStep DEF PartsIInv
<1>5. ASSUME part = "overview" PROVE Overview!IInv'
  BY <1>2, <1>5, PartsAssumption, OverviewStep DEF PartsIInv
<1>6. ASSUME part = "wizard" PROVE Wizard!IInv'
  BY <1>2, <1>6, PartsAssumption, WizardStep DEF PartsIInv
<1>7. ASSUME part = "hero" PROVE Hero!IInv'
  BY <1>2, <1>7, PartsAssumption, HeroStep DEF PartsIInv
<1>8. ASSUME part = "table" PROVE Table!IInv'
  BY <1>2, <1>8, PartsAssumption, TableStep DEF PartsIInv
<1>9. ASSUME part = "phone", OneSlip PROVE Phone!IInv'
  BY <1>2, <1>9, PhoneStep DEF PartsIInv, OneSlip
<1>10. ASSUME part = "amount", TwoDecimals PROVE Amount!IInv'
  <2>1. Whole \subseteq Nat
    BY PartsAssumption DEF Amount!CurrencyAssumption
  <2>. QED BY <1>2, <1>10, <2>1, AmountStep DEF PartsIInv, TwoDecimals
<1>. QED BY <1>1, <1>3, <1>4, <1>5, <1>6, <1>7, <1>8, <1>9, <1>10 DEF PartsIInv

\* In every run the part's own inductive invariant holds.
THEOREM PartsInvariant == MCSpec => []PartsIInv
<1>1. PartsIInv /\ [MCNext]_<<part, sessionVars, resetVars, heroVars, overviewVars,
                              tableVars, wizardVars, phoneVars, amountVars>> => PartsIInv'
  BY PartsStep
<1>. QED BY <1>1, PartsInit, PTL DEF MCSpec

\* The pages, their guard and useAuth, in any number of tabs: whom a page names, and books
\* its washes on, is whom the token is of, through loads, redirects, logins and logouts and
\* a token that runs out, unless a login was answered while the page was shown.
THEOREM PagesNameTheUser == MCSpec => []UserIsLoggedIn
<1>1. PartsIInv => UserIsLoggedIn
  BY DEF PartsIInv, UserIsLoggedIn, Session!IInv, Session!UserIsLoggedIn
<1>. QED BY <1>1, PartsInvariant, PTL

\* The forgotten password: what the page says the password was changed to is the account's,
\* for any links, calls and mails, with pages left and answers lost.
THEOREM ChangesAreStored == MCSpec => []ChangedIsStored
<1>1. PartsIInv => ChangedIsStored
  BY DEF PartsIInv, ChangedIsStored, Reset!IInv
<1>. QED BY <1>1, PartsInvariant, PTL

\* FrameSequence and HeroSection: the canvas shows the frame nearest to the scroll whenever no
\* draw waits, and the slide that counts as active can be read, for any number of frames, in
\* whatever order their images come.
THEOREM HeroFollows == MCSpec => []HeroInStep
<1>1. PartsIInv => HeroInStep
  BY PartsAssumption, NoneWaits, SlideIsReadable DEF PartsIInv, HeroInStep
<1>. QED BY <1>1, PartsInvariant, PTL

\* The dashboard: what the chart draws is of the period its tab names, in whatever order the
\* answers come.
THEOREM ChartsAreOfTheirPeriod == MCSpec => []ChartIsOfPeriod
<1>1. PartsIInv => ChartIsOfPeriod
  BY PartsAssumption
  DEF PartsIInv, ChartIsOfPeriod, Overview!ChartIsOfPeriod, Overview!IInv, Overview!TypeOK, Overview!RevenueKey
<1>. QED BY <1>1, PartsInvariant, PTL

\* The dialog: a submission is of what its form holds for as long as the step is saved, and
\* what was typed once is created once more only for each answer that was lost.
THEOREM FormsAreSentOnce == MCSpec => []FormIsSent
<1>1. PartsIInv => FormIsSent
  <2>1. SUFFICES ASSUME Wizard!IInv PROVE Wizard!FormWaits /\ Wizard!AgainOnlyIfLost
    BY DEF PartsIInv, FormIsSent, Wizard!IInv
  <2>2. made \in Nat /\ lost \in Nat /\ (made = lost \/ made = lost + 1)
    BY <2>1 DEF Wizard!IInv, Wizard!OneSubmission, Wizard!TypeOK
  <2>. QED BY <2>1, <2>2 DEF Wizard!IInv, Wizard!OneSubmission, Wizard!FormWaits, Wizard!AgainOnlyIfLost
<1>. QED BY <1>1, PartsInvariant, PTL

\* The owner's table: a bulk action reaches exactly those he ticked and the open rows are those
\* he opened, for any subscribers and however they are filtered, searched, sorted and paged,
\* and the page that is shown exists.
THEOREM TicksFollowRows == MCSpec => []TableIsTrue
<1>1. PartsIInv => TableIsTrue
  BY PartsAssumption, TableHolds DEF PartsIInv, TableIsTrue
<1>. QED BY <1>1, PartsInvariant, PTL

\* The fields for a phone and an amount: what passes for valid is what was meant, a number with
\* its area code is understood however it is written, leaving the field again changes nothing,
\* and an amount is what is shown, for any amounts of pesos and centavos.
THEOREM FieldsAreRead == OneSlip /\ TwoDecimals /\ MCSpec => []FieldsAreMeant
<1>. SUFFICES ASSUME OneSlip, TwoDecimals PROVE MCSpec => []FieldsAreMeant
  OBVIOUS
<1>1. PartsIInv => FieldsAreMeant
  BY PhoneMeant, AmountShown DEF PartsIInv, FieldsAreMeant, OneSlip, TwoDecimals
<1>. QED BY <1>1, PartsInvariant, PTL
=============================================================================
