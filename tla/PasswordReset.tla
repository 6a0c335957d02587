---------------------------- MODULE PasswordReset ----------------------------
(***************************************************************************)
(* A password that was forgotten: the page that asks for a link             *)
(* (app/(auth)/forgot-password/page.tsx) and the one the link leads to      *)
(* (app/(auth)/reset-password/page.tsx).  The server and the mail are       *)
(* external: a link is good once, and until the next one is asked for.      *)
(*                                                                         *)
(* A call goes on when its page is left; the server may get to it much      *)
(* later, and its answer finds nobody.                                      *)
(***************************************************************************)
EXTENDS FiniteSets

CONSTANTS
    Account,    \* the address the user's account has
    Email,      \* what is typed as one
    Invalid,    \* of those, what emailSchema refuses
    Password, Short,    \* what is typed as a password; of those, the too short ones
    Link, None

ResetAssumption ==
    /\ Account \in Email \ Invalid
    /\ None \notin Email \cup Password \cup Link

VARIABLES
    page,       \* "login", "forgot", "sent", "reset" or "no link"
    field,      \* what stands in the inputs
    token,      \* the link in the address of the reset page
    error,
    call,       \* the page's own call, loading while there is one
    stray,      \* calls of pages that were left, not at the server yet
    mail, good, \* the links in the user's mail, and the one the server takes
    stored,     \* the account's password
    believed    \* what stood in the inputs when the page said it was changed
form == <<field, error>>
server == <<mail, good, stored>>
vars == <<page, form, token, call, stray, server, believed>>

Empty == [email |-> None, password |-> None, confirmPassword |-> None]
NoCall == [pc |-> "none"]
loading == call # NoCall

Init ==
    /\ page = "login" /\ field = Empty /\ token = None /\ error = "none"
    /\ call = NoCall /\ stray = {}
    /\ mail = {} /\ good = None
    /\ stored = None /\ believed = None

-----------------------------------------------------------------------------
\* A page is loaded anew, and its state with it.
Open(to, link) ==
    /\ page' = to /\ token' = link
    /\ field' = Empty /\ error' = "none"
    /\ stray' = IF call.pc = "asked" THEN stray \cup {call} ELSE stray
    /\ call' = NoCall
    /\ UNCHANGED <<server, believed>>

\* A link of the login page; those back to it and the address bar, at any time.
ForgotPassword == page = "login" /\ Open("forgot", None)
BackToLogin == page \in {"forgot", "sent", "reset", "no link"} /\ Open("login", None)

\* The link of a mail; whether the address has a token is all that is looked at.
FollowLink(link) == link \in mail /\ Open("reset", link)
CutLink == mail # {} /\ page = "login" /\ Open("no link", None)

TypeEmail(value) ==
    /\ page = "forgot" /\ ~loading
    /\ field' = [field EXCEPT !.email = value]
    /\ UNCHANGED <<page, error, token, call, stray, server, believed>>

\* A mutant: the inputs are not disabled while the call is under way.
TypeAnyTime(input, value) ==
    /\ page = "reset"
    /\ field' = [field EXCEPT ![input] = value]
    /\ UNCHANGED <<page, error, token, call, stray, server, believed>>

TypePassword(input, value) ==
    /\ page = "reset" /\ ~loading
    /\ field' = [field EXCEPT ![input] = value]
    /\ UNCHANGED <<page, error, token, call, stray, server, believed>>

-----------------------------------------------------------------------------
(***************************************************************************)
(* The two forms' handleSubmit.                                             *)
(***************************************************************************)
Send(message) ==
    /\ error' = "none"
    /\ call' = [pc |-> "asked", message |-> message]

Refuse(text) == error' = text /\ UNCHANGED call

SubmitForgot ==
    /\ page = "forgot" /\ ~loading
    /\ IF field.email \in Invalid \cup {None}
       THEN Refuse("email")
       ELSE Send([email |-> field.email])
    /\ UNCHANGED <<page, field, token, stray, server, believed>>

\* resetSchema: the length first, then that both are the same.
PasswordError ==
    IF field.password \in Short \cup {None} THEN "short"
    ELSE IF field.password # field.confirmPassword THEN "mismatch" ELSE "none"

SubmitReset ==
    /\ page = "reset" /\ ~loading
    /\ IF PasswordError # "none"
       THEN Refuse(PasswordError) /\ UNCHANGED believed
       ELSE Send([token |-> token, password |-> field.password]) /\ believed' = None
    /\ UNCHANGED <<page, field, token, stray, server>>

\* Success or failure, both show the same.
ForgotAnswered ==
    /\ page = "forgot" /\ call.pc \notin {"none", "asked"}
    /\ page' = "sent" /\ call' = NoCall
    /\ UNCHANGED <<form, token, stray, server, believed>>

\* A toast that the password was changed, and on to the login page; or an error.
ResetAnswered ==
    /\ page = "reset" /\ call.pc \notin {"none", "asked"}
    /\ call' = NoCall
    /\ IF call.pc = "ok"
       THEN /\ page' = "login" /\ believed' = field
            /\ field' = Empty /\ token' = None /\ error' = "none"
       ELSE /\ error' = (IF call.pc = "refused" THEN "expired" ELSE "connection")
            /\ UNCHANGED <<page, field, token, believed>>
    /\ UNCHANGED <<stray, server>>

-----------------------------------------------------------------------------
(***************************************************************************)
(* The server.                                                              *)
(***************************************************************************)
\* What it does with a message, and what it answers.
Serve(message, answer) ==
    IF "email" \in DOMAIN message
    THEN /\ answer = "ok" /\ UNCHANGED stored
         /\ IF message.email = Account
            THEN \E link \in Link \ mail : mail' = mail \cup {link} /\ good' = link
            ELSE UNCHANGED <<mail, good>>
    ELSE IF message.token = good
         THEN answer = "ok" /\ stored' = message.password /\ good' = None /\ UNCHANGED mail
         ELSE answer = "refused" /\ UNCHANGED server

Receive ==
    /\ call.pc = "asked"
    /\ \E answer \in {"ok", "refused"} :
          /\ Serve(call.message, answer)
          /\ call' = [call EXCEPT !.pc = answer]
    /\ UNCHANGED <<page, form, token, stray, believed>>

ReceiveStray ==
    \E left \in stray :
        /\ \E answer \in {"ok", "refused"} : Serve(left.message, answer)
        /\ stray' = stray \ {left}
        /\ UNCHANGED <<page, form, token, call, believed>>

\* The call does not get to the server, or its answer does not get back.
Fail ==
    /\ call.pc \in {"asked", "ok", "refused"}
    /\ call' = [call EXCEPT !.pc = IF call.pc = "asked" THEN "failed" ELSE "lost"]
    /\ UNCHANGED <<page, form, token, stray, server, believed>>

Next ==
    \/ ForgotPassword \/ BackToLogin \/ CutLink
    \/ \E link \in Link : FollowLink(link)
    \/ \E value \in Email : TypeEmail(value)
    \/ \E input \in {"password", "confirmPassword"}, value \in Password : TypePassword(input, value)
    \/ SubmitForgot \/ SubmitReset \/ ForgotAnswered \/ ResetAnswered
    \/ Receive \/ ReceiveStray \/ Fail

Spec == Init /\ [][Next]_vars

-----------------------------------------------------------------------------
\* What stood in both inputs when the toast said that the password was changed is what
\* the account has, and long enough, until the user asks for another change: with answers
\* that are lost, pages left with their call under way, links followed twice.
ChangedIsStored ==
    believed # None => /\ {believed.password, believed.confirmPassword} = {stored}
                       /\ stored \notin Short

\* ChangedIsStored, inductive.  What the reset page has sent is what its inputs hold; a call
\* that was left behind carries an old link, which the server no longer takes once an answer
\* is on its way to the user or has been believed.
Field == [email : Email \cup {None}, password : Password \cup {None}, confirmPassword : Password \cup {None}]
Request == [email : Email]
Change == [token : Link, password : Password]
Message == Request \cup Change
Reaches(message) == message \in Change /\ message.token = good

TypeOK ==
    /\ page \in {"login", "forgot", "sent", "reset", "no link"}
    /\ field \in Field /\ token \in Link \cup {None}
    /\ call \in {NoCall} \cup [pc : {"asked", "ok", "refused", "failed", "lost"}, message : Message]
    /\ stray \subseteq [pc : {"asked"}, message : Message]
    /\ mail \subseteq Link /\ good \in mail \cup {None}
    /\ stored \in Password \cup {None} /\ believed \in Field \cup {None}

LinksAreOld ==
    /\ page = "reset" => token \in mail
    /\ \A left \in stray : left.message \in Change => left.message.token \in mail

CallIsOfPage ==
    loading => \/ page = "forgot" /\ call.message \in Request
               \/ /\ page = "reset" /\ believed = None
                  /\ call.message = [token |-> token, password |-> field.password]
                  /\ field.password = field.confirmPassword /\ field.password \in Password \ Short

Settled == (page = "reset" /\ call.pc = "ok") \/ believed # None

IInv ==
    /\ TypeOK /\ LinksAreOld /\ CallIsOfPage
    /\ page = "reset" /\ call.pc = "ok" => stored = field.password
    /\ Settled => \A left \in stray : ~Reaches(left.message)
    /\ ChangedIsStored
=============================================================================
