-------------------------- MODULE SubscriberWizard --------------------------
(***************************************************************************)
(* The dialog that creates a subscriber in three steps                      *)
(* (admin/subscribers/new-subscriber-modal.tsx in multi-step-form.tsx, for  *)
(* suscriptores/page.tsx).  What has been typed is kept by the modal, which *)
(* stays when the dialog is closed and goes with the page; the step is kept *)
(* in sessionStorage, which survives both; a submission under way survives  *)
(* its form and its page, and goes on when it is answered.                  *)
(***************************************************************************)
EXTENDS Naturals

CONSTANTS
    Call,           \* submissions
    Plan, None,
    MaxLost         \* bound on answers lost of one form

lastStep == 2
Steps == 0..lastStep

WizardAssumption ==
    /\ None \notin Plan \cup Steps
    /\ MaxLost \in Nat

VARIABLES
    open,           \* SubscribersPage's showNewModal
    step,           \* internalStep of the form in the dialog
    saved,          \* sessionStorage's step
    values,         \* the form's values: the personal data's class, and the plan
    loading,
    calls,          \* per submission: its data, and whether its form and its page are still there
    made,           \* history: how many subscribers were made of what the form holds
    lost            \* history: for how many of them the form was told of a failure

vars == <<open, step, saved, values, loading, calls, made, lost>>

Personal == {"empty", "invalid", "valid"}
Value == [personal : Personal, planId : Plan \cup {None}]
Blank == [personal |-> "empty", planId |-> None]

Idle == [pc |-> "idle"]
UnderWay(c) == calls[c].pc # "idle"
OfForm(c) == UnderWay(c) /\ calls[c].form

TypeOK ==
    /\ open \in BOOLEAN /\ loading \in BOOLEAN
    /\ step \in Steps /\ saved \in Steps \cup {None}
    /\ values \in Value
    /\ calls \in [Call -> {Idle} \cup [pc : {"sent", "made"}, data : Value, form : BOOLEAN, page : BOOLEAN]]
    /\ made \in Nat /\ lost \in Nat

Init ==
    /\ open = FALSE /\ step = 0 /\ saved = None
    /\ values = Blank /\ loading = FALSE
    /\ calls = [c \in Call |-> Idle]
    /\ made = 0 /\ lost = 0

-----------------------------------------------------------------------------
(***************************************************************************)
(* The dialog.                                                              *)
(***************************************************************************)
SavedStep == IF saved = None THEN 0 ELSE saved

\* The form in the dialog is mounted anew.
OpenDialog ==
    /\ ~open
    /\ open' = TRUE /\ step' = SavedStep
    /\ UNCHANGED <<saved, values, loading, calls, made, lost>>

\* Escape, the cross or a click outside, also while a submission is under way.
CloseDialog ==
    /\ open
    /\ open' = FALSE
    /\ UNCHANGED <<step, saved, values, loading, calls, made, lost>>

\* The inputs of the first step; nothing disables them.
EditPersonal ==
    /\ open /\ step = 0
    /\ \E p \in Personal : values' = [values EXCEPT !.personal = p]
    /\ UNCHANGED <<open, step, saved, loading, calls, made, lost>>

ChoosePlan ==
    /\ open /\ step = 1
    /\ \E p \in Plan : values' = [values EXCEPT !.planId = p]
    /\ UNCHANGED <<open, step, saved, loading, calls, made, lost>>

SetStep(s) == step' = s /\ saved' = s

\* validateStep: no field was registered with a rule and the form has no resolver.
Trigger(s) == TRUE

\* handleNext before the last step.
HandleNext ==
    /\ open /\ ~loading /\ step < lastStep
    /\ Trigger(step)
    /\ SetStep(step + 1)
    /\ UNCHANGED <<open, values, loading, calls, made, lost>>

\* A mutant: the button is disabled on the first step only.
HandlePrevAlways ==
    /\ open /\ step > 0
    /\ SetStep(step - 1)
    /\ UNCHANGED <<open, values, loading, calls, made, lost>>

HandlePrev ==
    /\ open /\ ~loading /\ step > 0
    /\ SetStep(step - 1)
    /\ UNCHANGED <<open, values, loading, calls, made, lost>>

-----------------------------------------------------------------------------
(***************************************************************************)
(* The submission.                                                          *)
(***************************************************************************)

\* handleNext on the last step, and handleComplete.
HandleComplete(c) ==
    /\ open /\ ~loading /\ step = lastStep
    /\ Trigger(step)
    /\ ~UnderWay(c)
    /\ loading' = TRUE
    /\ calls' = [calls EXCEPT ![c] = [pc |-> "sent", data |-> values, form |-> TRUE, page |-> TRUE]]
    /\ UNCHANGED <<open, step, saved, values, made, lost>>

\* The server creates the subscriber.
Create(c) ==
    /\ calls[c].pc = "sent"
    /\ calls' = [calls EXCEPT ![c].pc = "made"]
    /\ made' = IF OfForm(c) THEN made + 1 ELSE made
    /\ UNCHANGED <<open, step, saved, values, loading, lost>>

\* The form's values are gone, by a reset or with their component, and the histories begin anew.
Forget == values' = Blank /\ loading' = FALSE /\ made' = 0 /\ lost' = 0

\* The rest of handleComplete and handleNext, for the form and the page the call was made from;
\* the saved step goes in any case.
Completed(c) ==
    /\ calls[c].pc = "made"
    /\ calls' = [calls EXCEPT ![c] = Idle]
    /\ open' = (open /\ ~calls[c].page)
    /\ saved' = None
    /\ IF OfForm(c) THEN Forget ELSE UNCHANGED <<values, loading, made, lost>>
    /\ UNCHANGED step

\* The call fails: the server refused it or never had it, or the answer to what it created
\* is lost.
Throws(c) ==
    /\ \/ calls[c].pc = "sent" /\ UNCHANGED lost
       \/ /\ calls[c].pc = "made" /\ lost < MaxLost
          /\ lost' = IF OfForm(c) THEN lost + 1 ELSE lost
    /\ calls' = [calls EXCEPT ![c] = Idle]

\* A mutant: loading is reset after a success only.
RejectedForGood(c) ==
    /\ Throws(c)
    /\ UNCHANGED <<open, step, saved, values, loading, made>>

\* mutateAsync throws, through handleComplete with its finally block and handleNext: the form
\* stays as it is, to be sent again.
Rejected(c) ==
    /\ Throws(c)
    /\ loading' = (loading /\ ~OfForm(c))
    /\ UNCHANGED <<open, step, saved, values, made>>

-----------------------------------------------------------------------------
(***************************************************************************)
(* The page goes and comes back: by links, which keep the calls, by a       *)
(* reload, which ends them, and behind the skeleton while the list's first  *)
(* load is tried again, with the dialog open all the while.                 *)
(***************************************************************************)
Orphan(stays) ==
    [c \in Call |-> IF UnderWay(c)
                    THEN [calls[c] EXCEPT !.form = FALSE, !.page = (stays /\ calls[c].page)] ELSE Idle]

LeaveAndReturn ==
    /\ Forget
    /\ open' = FALSE
    /\ calls' = Orphan(FALSE)
    /\ UNCHANGED <<step, saved>>

Reload ==
    /\ Forget
    /\ open' = FALSE
    /\ calls' = [c \in Call |-> Idle]
    /\ UNCHANGED <<step, saved>>

Skeleton ==
    /\ Forget
    /\ step' = SavedStep
    /\ calls' = Orphan(TRUE)
    /\ UNCHANGED <<open, saved>>

Next ==
    \/ OpenDialog \/ CloseDialog \/ EditPersonal \/ ChoosePlan
    \/ HandleNext \/ HandlePrev
    \/ \E c \in Call : HandleComplete(c) \/ Create(c) \/ Completed(c) \/ Rejected(c)
    \/ LeaveAndReturn \/ Reload \/ Skeleton

Spec == Init /\ [][Next]_vars

\* Every call is answered, or the browser gives it up.
FairSpec == Spec /\ \A c \in Call : WF_vars(Completed(c) \/ Rejected(c))

-----------------------------------------------------------------------------
\* While a submission is under way its form holds what was sent, so the reset that follows
\* a success throws away nothing else.  The inputs are never disabled and the dialog may be
\* closed and opened meanwhile: it is the saved step and the disabled buttons that keep the
\* admin away from them.  Only the end of another submission, whose form is gone, takes the
\* saved step away.
FormWaits == \A c \in Call : OfForm(c) /\ saved # None => calls[c].data = values

\* However often the admin clicks, closes, opens and tries again: a form becomes one more
\* subscriber only after the answer to the one before was lost, when the dialog says that
\* it failed and is as it was.
AgainOnlyIfLost == made <= lost + 1

\* FormWaits and AgainOnlyIfLost, inductive: the submission of the form that is there is one,
\* and while the step is saved it is the last one.
OneSubmission ==
    /\ \A c \in Call : OfForm(c) =>
          /\ loading /\ saved \in {lastStep, None}
          /\ saved # None => calls[c].data = values
          /\ made = IF calls[c].pc = "sent" THEN lost ELSE lost + 1
    /\ \A c, d \in Call : OfForm(c) /\ OfForm(d) => c = d
    /\ (\A c \in Call : ~OfForm(c)) => made = lost

IInv == TypeOK /\ OneSubmission /\ (open /\ saved # None => step = saved)

\* A submission does not leave the dialog waiting for ever, be it answered, rejected,
\* or orphaned by a change of pages.
LoadingEnds == loading ~> ~loading
=============================================================================
