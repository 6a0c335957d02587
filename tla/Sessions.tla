------------------------------ MODULE Sessions ------------------------------
(***************************************************************************)
(* The refresh tokens of one user on several devices: Login, Refresh and    *)
(* Logout (internal/auth/handler.go), the tokens (internal/auth/jwt.go) and *)
(* the key refresh:<user> in Redis, which holds one token whatever the      *)
(* number of devices.  Users do not meet: each has a key of its own.        *)
(* A token is told from another by the second it was issued in: nothing     *)
(* else in the claims of a user's tokens differs.                           *)
(***************************************************************************)
EXTENDS Naturals

CONSTANTS
    Device,
    TTL,        \* refreshTTL, 7 days
    AccessTTL,  \* accessTTL, 15 minutes
    MaxTime,    \* bound on the clock
    None

SessionsAssumption ==
    /\ TTL \in Nat /\ AccessTTL \in Nat /\ AccessTTL < TTL
    /\ MaxTime \in Nat
    /\ None \notin Nat \cup [token : Nat, until : Nat]

VARIABLES
    now,        \* seconds
    stored,     \* the key in Redis: a token, and until when it is kept; None when there is none
    held,       \* by device: the refresh token it keeps
    run,        \* by device: the handler run of its request
    own         \* by device: the key was last written for it; nothing reads it

vars == <<now, stored, held, run, own>>

Token == 0..MaxTime
Idle == [pc |-> "idle"]

TypeOK ==
    /\ now \in 0..MaxTime
    /\ stored \in {None} \cup [token : Token, until : Nat]
    /\ held \in [Device -> Token \cup {None}]
    /\ run \in [Device -> {Idle} \cup [pc : {"login", "logout"}]
                   \cup [pc : {"refresh", "kept", "accepted"}, token : Token]
                   \cup [pc : {"store", "answer"}, token : Token, login : BOOLEAN]
                   \cup [pc : {"refused"}, token : Token, outside : BOOLEAN]]
    /\ own \in [Device -> BOOLEAN]

Init ==
    /\ now = 0
    /\ stored = None
    /\ held = [d \in Device |-> None]
    /\ run = [d \in Device |-> Idle]
    /\ own = [d \in Device |-> FALSE]

Goes(d, r) == run' = [run EXCEPT ![d] = r]

\* ValidateToken, and Redis: at the second a token ends it is not taken any more.
Expired(t) == t + TTL <= now
InRedis == stored # None /\ now < stored.until

Tick ==
    /\ now < MaxTime
    /\ now' = now + 1
    /\ UNCHANGED <<stored, held, run, own>>

-----------------------------------------------------------------------------
\* The password has been checked: a wrong one changes nothing.
Login(d) ==
    /\ run[d] = Idle
    /\ Goes(d, [pc |-> "login"])
    /\ UNCHANGED <<now, stored, held, own>>

Refresh(d) ==
    /\ run[d] = Idle /\ held[d] # None
    /\ Goes(d, [pc |-> "refresh", token |-> held[d]])
    /\ UNCHANGED <<now, stored, held, own>>

Logout(d) ==
    /\ run[d] = Idle /\ held[d] # None
    /\ Goes(d, [pc |-> "logout"])
    /\ held' = [held EXCEPT ![d] = None]
    /\ UNCHANGED <<now, stored, own>>

Taken(t) == ~Expired(t) /\ InRedis /\ stored.token = t

\* A 401.  outside: not for the token; nothing reads it.
Refuse(d, why) == Goes(d, [pc |-> "refused", token |-> run[d].token, outside |-> why])

\* ValidateToken, redis.Get and the comparison.  An error of Redis reads as a revoked token.
Check(d) ==
    /\ run[d].pc = "refresh"
    /\ \/ /\ Taken(run[d].token)
          /\ Goes(d, [pc |-> "kept", token |-> run[d].token])
       \/ ~Taken(run[d].token) /\ Refuse(d, FALSE)
       \/ Refuse(d, TRUE)
    /\ UNCHANGED <<now, stored, held, own>>

\* SELECT active: an error of the query reads as a user who is not active, and nothing in
\* the code makes one inactive.
CheckUser(d) ==
    /\ run[d].pc = "kept"
    /\ Goes(d, [pc |-> "accepted", token |-> run[d].token]) \/ Refuse(d, TRUE)
    /\ UNCHANGED <<now, stored, held, own>>

\* GenerateTokenPair.
Generate(d) ==
    /\ run[d].pc \in {"login", "accepted"}
    /\ Goes(d, [pc |-> "store", token |-> now, login |-> run[d].pc = "login"])
    /\ UNCHANGED <<now, stored, held, own>>

\* A mutant: kept for as long as an access token.
UntilShort == now + AccessTTL

Until == now + TTL

\* redis.Set; its error is ignored.
Store(d) ==
    /\ run[d].pc = "store"
    /\ \/ /\ stored' = [token |-> run[d].token, until |-> Until]
          /\ own' = [e \in Device |-> e = d]
       \/ /\ own' = [own EXCEPT ![d] = FALSE]
          /\ UNCHANGED stored
    /\ Goes(d, [run[d] EXCEPT !.pc = "answer"])
    /\ UNCHANGED <<now, held>>

\* redis.Del; its error is ignored, and a failed one is as if nobody had logged out.
Delete(d) ==
    /\ run[d].pc = "logout"
    /\ stored' = None
    /\ own' = [e \in Device |-> FALSE]
    /\ Goes(d, Idle)
    /\ UNCHANGED <<now, held>>

\* The device learns its new token, or that it is logged out.
Answer(d) ==
    /\ \/ run[d].pc = "answer" /\ held' = [held EXCEPT ![d] = run[d].token]
       \/ run[d].pc = "refused" /\ held' = [held EXCEPT ![d] = None]
    /\ Goes(d, Idle)
    /\ UNCHANGED <<now, stored, own>>

\* The request or its answer is lost, the server stops, or a login's query or
\* GenerateTokenPair fails: the device is told nothing of its token and keeps what it has.
Fail(d) ==
    /\ run[d].pc \in {"login", "refresh", "logout", "kept", "accepted", "store", "answer", "refused"}
    /\ own' = IF run[d].pc = "answer" THEN [own EXCEPT ![d] = FALSE] ELSE own
    /\ Goes(d, Idle)
    /\ UNCHANGED <<now, stored, held>>

Next ==
    \/ Tick
    \/ \E d \in Device :
          \/ Login(d) \/ Refresh(d) \/ Logout(d)
          \/ Check(d) \/ CheckUser(d) \/ Generate(d) \/ Store(d) \/ Delete(d)
          \/ Answer(d) \/ Fail(d)

Spec == Init /\ [][Next]_vars

-----------------------------------------------------------------------------
\* A device for which the key was last written, and whose answers all came, is refused for
\* its token only when that token has run out: whatever else it is refused for is a call to
\* Redis or the database that failed, or a user who is not active.
RefusedForAReason ==
    \A d \in Device : own[d] /\ run[d].pc = "refused" /\ ~run[d].outside
                      => Expired(run[d].token)

\* RefusedForAReason, inductive: the key that was last written for a device has the token it
\* holds, or is about to, and is kept at least as long as that token is good.
KeyHas(t) == stored # None /\ stored.token = t /\ stored.until >= t + TTL

IInv ==
    /\ TypeOK /\ RefusedForAReason
    /\ \A d \in Device : run[d].pc = "store" => run[d].token <= now
    /\ \A d \in Device : run[d].pc \in {"refresh", "kept", "accepted"} => held[d] = run[d].token
    /\ \A d \in Device : own[d] => IF run[d].pc = "answer" THEN KeyHas(run[d].token)
                                  ELSE held[d] # None => KeyHas(held[d])
=============================================================================
