----------------------------- MODULE Onboarding -----------------------------
(***************************************************************************)
(* Registration of a tenant and its owner: the form                         *)
(* (app/(auth)/registro/page.tsx), POST /api/v1/tenants                     *)
(* (internal/tenant/handler.go, service.go, repository.go) and the pool of  *)
(* connections (pkg/database/database.go).  A request begins a transaction, *)
(* which holds a connection, and then inserts the tenant on a second one,   *)
(* outside of the transaction; the owner is inserted in it.                 *)
(***************************************************************************)
EXTENDS Naturals, FiniteSets

CONSTANTS
    Person,     \* who registers
    Request,
    Slug,       \* the valid ones
    None,
    MaxConns

OnboardingAssumption ==
    /\ IsFiniteSet(Request)
    /\ MaxConns \in Nat \ {0}
    /\ None \notin Slug \cup Request \cup Person

VARIABLES
    form,       \* each person's form: slug, the other fields, the call it waits for, the alert
    req,        \* the runs of Register
    free,       \* connections the pool has left
    tenants,    \* rows: their slug and the request that inserted them
    owners      \* users: the request that inserted them

vars == <<form, req, free, tenants, owners>>

Invalid == None     \* a slug the schema refuses
Empty == [page |-> "registro", slug |-> Invalid, rest |-> FALSE, call |-> None, error |-> None]
Idle == [pc |-> "idle"]
New(p, s) == [pc |-> "sent", by |-> p, slug |-> s]

TypeOK ==
    /\ form \in [Person -> [page : {"registro", "login"}, slug : Slug \cup {Invalid}, rest : BOOLEAN,
                            call : Request \cup {None}, error : {None, "taken", "server", "connection"}]]
    /\ req \in [Request -> {Idle} \cup
                  [pc : {"sent", "begun", "inserted", "owned", "created", "conflict", "failed", "done"},
                   by : Person, slug : Slug]]
    /\ free \in 0..MaxConns
    /\ tenants \subseteq [slug : Slug, id : Request]
    /\ owners \subseteq Request

Init ==
    /\ form = [p \in Person |-> Empty]
    /\ req = [q \in Request |-> Idle]
    /\ free = MaxConns
    /\ tenants = {} /\ owners = {}

-----------------------------------------------------------------------------
(***************************************************************************)
(* The form.                                                                *)
(***************************************************************************)
Loading(p) == form[p].call # None
Editable(p) == form[p].page = "registro" /\ ~Loading(p)

\* handleBusinessNameChange: the slug follows the name, whatever it was.
HandleBusinessNameChange(p) ==
    /\ Editable(p)
    /\ \E s \in Slug \cup {Invalid}, ok \in BOOLEAN :
          form' = [form EXCEPT ![p].slug = s, ![p].rest = ok]
    /\ UNCHANGED <<req, free, tenants, owners>>

EditSlug(p) ==
    /\ Editable(p)
    /\ \E s \in Slug \cup {Invalid} : form' = [form EXCEPT ![p].slug = s]
    /\ UNCHANGED <<req, free, tenants, owners>>

\* The owner's name, the email and the passwords.
EditField(p) ==
    /\ Editable(p)
    /\ form' = [form EXCEPT ![p].rest = ~form[p].rest]
    /\ UNCHANGED <<req, free, tenants, owners>>

\* registroSchema.
Valid(p) == form[p].slug # Invalid /\ form[p].rest

\* handleSubmit, as far as the call.
HandleSubmit(p) ==
    /\ Editable(p)
    /\ \/ /\ ~Valid(p)
          /\ form' = [form EXCEPT ![p].error = None]
          /\ UNCHANGED req
       \/ /\ Valid(p)
          /\ \E q \in Request :
                /\ req[q] = Idle
                /\ req' = [req EXCEPT ![q] = New(p, form[p].slug)]
                /\ form' = [form EXCEPT ![p].error = None, ![p].call = q]
    /\ UNCHANGED <<free, tenants, owners>>

\* The answer, and the rest of handleSubmit.
Answer(p) ==
    LET q == form[p].call IN
    /\ Loading(p)
    /\ \/ /\ req[q].pc = "created"
          /\ form' = [form EXCEPT ![p].page = "login", ![p].call = None]
       \/ /\ req[q].pc = "conflict"
          /\ form' = [form EXCEPT ![p].error = "taken", ![p].call = None]
       \/ /\ req[q].pc = "failed"
          /\ form' = [form EXCEPT ![p].error = "server", ![p].call = None]
    /\ req' = [req EXCEPT ![q].pc = "done"]
    /\ UNCHANGED <<free, tenants, owners>>

\* fetch throws: the connection is lost and the call goes on without a reader.
LoseConnection(p) ==
    /\ Loading(p)
    /\ form' = [form EXCEPT ![p].error = "connection", ![p].call = None]
    /\ UNCHANGED <<req, free, tenants, owners>>

\* A reload, or another page and back.
Leave(p) ==
    /\ form[p] # Empty
    /\ form' = [form EXCEPT ![p] = Empty]
    /\ UNCHANGED <<req, free, tenants, owners>>

-----------------------------------------------------------------------------
(***************************************************************************)
(* CreateTenantWithOwner.  Every return rolls the transaction back, or      *)
(* finds it committed, and gives its connection back.                       *)
(***************************************************************************)
Holds(q) == req[q].pc \in {"begun", "inserted", "owned"}
Waits(q) == req[q].pc = "begun"
Active(q) == req[q].pc = "sent" \/ Holds(q)

At(q, pc) == req' = [req EXCEPT ![q].pc = pc]

\* A mutant: a connection of its own for the first statement, which is not given back.
BeginTwo(q) ==
    /\ req[q].pc = "sent" /\ free > 1
    /\ At(q, "begun") /\ free' = free - 2
    /\ UNCHANGED <<form, tenants, owners>>

Begin(q) ==
    /\ req[q].pc = "sent" /\ free > 0
    /\ At(q, "begun") /\ free' = free - 1
    /\ UNCHANGED <<form, tenants, owners>>

\* repo.Create takes another connection from the pool for the statement.
InsertTenant(q) ==
    /\ Waits(q) /\ free > 0
    /\ \A t \in tenants : t.slug # req[q].slug
    /\ tenants' = tenants \cup {[slug |-> req[q].slug, id |-> q]}
    /\ At(q, "inserted")
    /\ UNCHANGED <<form, free, owners>>

\* A mutant: the transaction is left open.
SlugTakenLeaks(q) ==
    /\ Waits(q) /\ free > 0
    /\ \E t \in tenants : t.slug = req[q].slug
    /\ At(q, "conflict")
    /\ UNCHANGED <<form, free, tenants, owners>>

SlugTaken(q) ==
    /\ Waits(q) /\ free > 0
    /\ \E t \in tenants : t.slug = req[q].slug
    /\ At(q, "conflict") /\ free' = free + 1
    /\ UNCHANGED <<form, tenants, owners>>

InsertOwner(q) ==
    /\ req[q].pc = "inserted"
    /\ At(q, "owned")
    /\ UNCHANGED <<form, free, tenants, owners>>

\* A mutant: the transaction is rolled back at the end.
CommitNot(q) ==
    /\ req[q].pc = "owned"
    /\ At(q, "created") /\ free' = free + 1
    /\ UNCHANGED <<form, tenants, owners>>

Commit(q) ==
    /\ req[q].pc = "owned"
    /\ owners' = owners \cup {q}
    /\ At(q, "created") /\ free' = free + 1
    /\ UNCHANGED <<form, tenants>>

\* An error of the database, a password bcrypt refuses, or a client that has gone, which
\* ends the request's context; of a failed commit nobody knows whether it was carried out.
Fail(q) ==
    /\ Active(q)
    /\ At(q, "failed")
    /\ free' = IF Holds(q) THEN free + 1 ELSE free
    /\ owners' \in {owners, IF req[q].pc = "owned" THEN owners \cup {q} ELSE owners}
    /\ UNCHANGED <<form, tenants>>

\* The process ends and starts again.
Crash ==
    /\ req' = [q \in Request |-> IF Active(q) THEN [req[q] EXCEPT !.pc = "done"] ELSE req[q]]
    /\ form' = [p \in Person |->
                  IF Loading(p) /\ Active(form[p].call)
                  THEN [form[p] EXCEPT !.error = "connection", !.call = None] ELSE form[p]]
    /\ free' = MaxConns
    /\ UNCHANGED <<tenants, owners>>

Next ==
    \/ \E p \in Person : \/ HandleBusinessNameChange(p) \/ EditSlug(p) \/ EditField(p)
                         \/ HandleSubmit(p) \/ Answer(p) \/ LoseConnection(p) \/ Leave(p)
    \/ \E q \in Request : \/ Begin(q) \/ InsertTenant(q) \/ SlugTaken(q)
                          \/ InsertOwner(q) \/ Commit(q) \/ Fail(q)
    \/ Crash

Spec == Init /\ [][Next]_vars

\* A request takes its next step when there is a connection for it; no error is owed.
FairSpec ==
    /\ Spec
    /\ \A q \in Request : /\ WF_vars(Begin(q))
                          /\ WF_vars(InsertTenant(q) \/ SlugTaken(q))
                          /\ WF_vars(InsertOwner(q)) /\ WF_vars(Commit(q))

-----------------------------------------------------------------------------
\* Whoever is sent to the login page after registering has a tenant under the slug the
\* form shows, and is its owner.
RegisteredHasOwner ==
    \A p \in Person : form[p].page = "login" =>
        \E t \in tenants : t.slug = form[p].slug /\ t.id \in owners /\ req[t.id].by = p

\* Requests that all wait for a second connection, with none left, wait until a client
\* gives up.  It takes as many of them as the pool has connections: none leaks.
StuckOnlyWhenFull ==
    (free = 0 /\ \A q \in Request : Holds(q) => Waits(q))
        => Cardinality({q \in Request : Waits(q)}) >= MaxConns

\* With fewer requests than connections, every request ends.
RequestsEnd == \A q \in Request : Active(q) ~> ~Active(q)

\* RegisteredHasOwner and StuckOnlyWhenFull, inductive.  The form a person waits with is the
\* one the request was made of; a request that got past the insertion has its row, and one
\* that was committed its owner; the connections are counted.
CallIsOurs ==
    \A p \in Person : Loading(p) => LET q == form[p].call IN
        form[p].page = "registro" /\ req[q] # Idle /\ req[q].by = p /\ req[q].slug = form[p].slug
RowsAreMade ==
    /\ \A t \in tenants : req[t.id] # Idle
    /\ \A q \in Request : req[q].pc \in {"inserted", "owned", "created"} =>
          [slug |-> req[q].slug, id |-> q] \in tenants
    /\ \A q \in Request : req[q].pc = "created" => q \in owners
Counted == free + Cardinality({q \in Request : Holds(q)}) = MaxConns

IInv == TypeOK /\ CallIsOurs /\ RowsAreMade /\ Counted /\ RegisteredHasOwner

(***************************************************************************)
(* A claim of the repository that does not hold.                            *)
(***************************************************************************)
\* roadmap-backend.md: tenant and owner are created in one transaction, so that no
\* request leaves one without the other.
TenantHasOwner == \A t \in tenants : Active(t.id) \/ t.id \in owners
=============================================================================
