---------------------------- MODULE Backend_proofs ----------------------------
(***************************************************************************)
(* Proofs about the backend's parts beside billing and the shop, for any    *)
(* people, requests, slugs, devices, pool and lifetimes: first about        *)
(* Sessions and Onboarding, by the inductive invariant each states, and     *)
(* then about MCBackend, whose runs are those of one part each.             *)
(***************************************************************************)
EXTENDS MCBackend, FiniteSetTheorems, TLAPS

-----------------------------------------------------------------------------
(***************************************************************************)
(* Sessions.                                                                *)
(***************************************************************************)
\* No run, and no key written for anybody.
LEMMA SessionsInit == ASSUME Sessions!SessionsAssumption, Sessions!Init PROVE Sessions!IInv
<1>. USE DEF Sessions!SessionsAssumption, Sessions!Init, Sessions!Idle
<1>1. Sessions!TypeOK
  <2>1. \A d \in Device : run[d] \in {Sessions!Idle}
    BY DEF Sessions!Idle
  <2>2. 0 \in 0..MaxTime
    OBVIOUS
  <2>. QED BY <2>1, <2>2 DEF Sessions!TypeOK
<1>. QED BY <1>1 DEF Sessions!IInv, Sessions!RefusedForAReason

\* The record of a run in each state that has one.
LEMMA RunToken ==
    ASSUME Sessions!TypeOK, NEW d \in Device
    PROVE  /\ run[d].pc \in {"refresh", "kept", "accepted", "store", "answer", "refused"} =>
                 run[d].token \in Sessions!Token
           /\ run[d].pc = "store" => run[d].login \in BOOLEAN
                 /\ [run[d] EXCEPT !.pc = "answer"]
                      = [pc |-> "answer", token |-> run[d].token, login |-> run[d].login]
BY DEF Sessions!TypeOK, Sessions!Idle

\* A device's run goes into one of the states it may be in; the others' stay.
LEMMA GoesTyped ==
    ASSUME Sessions!TypeOK, NEW d \in Device, NEW r, Sessions!Goes(d, r),
           r \in {Sessions!Idle} \cup [pc : {"login", "logout"}]
                   \cup [pc : {"refresh", "kept", "accepted"}, token : Sessions!Token]
                   \cup [pc : {"store", "answer"}, token : Sessions!Token, login : BOOLEAN]
                   \cup [pc : {"refused"}, token : Sessions!Token, outside : BOOLEAN]
    PROVE  /\ run' \in [Device -> {Sessions!Idle} \cup [pc : {"login", "logout"}]
                   \cup [pc : {"refresh", "kept", "accepted"}, token : Sessions!Token]
                   \cup [pc : {"store", "answer"}, token : Sessions!Token, login : BOOLEAN]
                   \cup [pc : {"refused"}, token : Sessions!Token, outside : BOOLEAN]]
           /\ run'[d] = r /\ \A e \in Device \ {d} : run'[e] = run[e]
BY DEF Sessions!TypeOK, Sessions!Goes

\* A step that leaves the key alone keeps what it must have, if the device it is about
\* holds no other token after it than before, answers no other one and is not refused for
\* a token that still counts.
LEMMA KeyKept ==
    ASSUME Sessions!IInv, NEW d \in Device, UNCHANGED stored, now' = now,
           \A e \in Device \ {d} : run'[e] = run[e] /\ held'[e] = held[e] /\ (own'[e] => own[e]),
           run'[d].pc = "store" => run'[d].token <= now,
           run'[d].pc \in {"refresh", "kept", "accepted"} => held'[d] = run'[d].token,
           own'[d] /\ run'[d].pc = "refused" /\ ~run'[d].outside => Sessions!Expired(run'[d].token),
           own'[d] => IF run'[d].pc = "answer" THEN Sessions!KeyHas(run'[d].token)
                      ELSE held'[d] # None => Sessions!KeyHas(held'[d]),
           Sessions!TypeOK'
    PROVE  Sessions!IInv'
BY DEF Sessions!IInv, Sessions!KeyHas, Sessions!RefusedForAReason, Sessions!Expired

\* A token the key has for a device is taken until it ends.
LEMMA KeyTaken ==
    ASSUME Sessions!SessionsAssumption, Sessions!TypeOK, NEW t \in Sessions!Token,
           Sessions!KeyHas(t), ~Sessions!Taken(t)
    PROVE  Sessions!Expired(t)
<1>1. now \in Nat /\ t \in Nat /\ TTL \in Nat
  BY DEF Sessions!TypeOK, Sessions!Token, Sessions!SessionsAssumption
<1>2. stored.until \in Nat /\ stored # None /\ stored.token = t /\ stored.until >= t + TTL
  BY DEF Sessions!TypeOK, Sessions!KeyHas
<1>. QED BY <1>1, <1>2 DEF Sessions!Taken, Sessions!InRedis, Sessions!Expired

\* A step of one device takes the key from the others only by writing or deleting it, which
\* takes from them what own says.
LEMMA SessionsStep ==
    ASSUME Sessions!SessionsAssumption, Sessions!IInv, [Sessions!Next]_sessionsVars
    PROVE  Sessions!IInv'
<1>. USE DEF Sessions!SessionsAssumption
<1>0. Sessions!TypeOK /\ now \in 0..MaxTime /\ run = [d \in Device |-> run[d]]
  BY DEF Sessions!IInv, Sessions!TypeOK
<1>1. CASE Sessions!Tick
  <2>1. now' \in 0..MaxTime /\ now' = now + 1 /\ UNCHANGED <<stored, held, run, own>>
    BY <1>0, <1>1 DEF Sessions!Tick
  <2>2. \A d \in Device : run[d].pc \in {"store", "refused"} => run[d].token \in 0..MaxTime
    BY <1>0, RunToken DEF Sessions!Token
  <2>3. Sessions!TypeOK'
    BY <2>1 DEF Sessions!IInv, Sessions!TypeOK
  <2>4. Sessions!RefusedForAReason'
    BY <1>0, <2>1, <2>2 DEF Sessions!IInv, Sessions!RefusedForAReason, Sessions!Expired
  <2>. QED BY <1>0, <2>1, <2>2, <2>3, <2>4 DEF Sessions!IInv, Sessions!KeyHas
<1>2. ASSUME NEW d \in Device, Sessions!Login(d) PROVE Sessions!IInv'
  <2>1. run'[d] = [pc |-> "login"] /\ (\A e \in Device \ {d} : run'[e] = run[e]) /\ Sessions!TypeOK'
    BY <1>0, <1>2, GoesTyped DEF Sessions!Login, Sessions!TypeOK
  <2>. QED BY <1>2, <2>1, KeyKept DEF Sessions!Login, Sessions!Idle, Sessions!IInv
<1>3. ASSUME NEW d \in Device, Sessions!Refresh(d) PROVE Sessions!IInv'
  <2>1. held[d] \in Sessions!Token
    BY <1>0, <1>3 DEF Sessions!Refresh, Sessions!TypeOK
  <2>2. run'[d] = [pc |-> "refresh", token |-> held[d]] /\ (\A e \in Device \ {d} : run'[e] = run[e])
        /\ Sessions!TypeOK'
    BY <1>0, <1>3, <2>1, GoesTyped DEF Sessions!Refresh, Sessions!TypeOK
  <2>. QED BY <1>3, <2>2, KeyKept DEF Sessions!Refresh, Sessions!Idle, Sessions!IInv
<1>4. ASSUME NEW d \in Device, Sessions!Logout(d) PROVE Sessions!IInv'
  <2>1. run'[d] = [pc |-> "logout"] /\ (\A e \in Device \ {d} : run'[e] = run[e]) /\ Sessions!TypeOK'
    BY <1>0, <1>4, GoesTyped DEF Sessions!Logout, Sessions!TypeOK
  <2>2. held'[d] = None /\ \A e \in Device \ {d} : held'[e] = held[e]
    BY <1>0, <1>4 DEF Sessions!Logout, Sessions!TypeOK
  <2>. QED BY <1>4, <2>1, <2>2, KeyKept DEF Sessions!Logout
<1>5. ASSUME NEW d \in Device, Sessions!Check(d) PROVE Sessions!IInv'
  <2>. DEFINE t == run[d].token
  <2>1. t \in Sessions!Token /\ run[d].pc = "refresh" /\ held[d] = t /\ held[d] # None
    <3>1. t \in Sessions!Token /\ run[d].pc = "refresh"
      BY <1>0, <1>5, RunToken DEF Sessions!Check
    <3>2. held[d] = t
      BY <3>1 DEF Sessions!IInv
    <3>3. t \in Nat /\ None \notin Nat
      BY <3>1 DEF Sessions!Token
    <3>. QED BY <3>1, <3>2, <3>3
  <2>2. UNCHANGED <<now, stored, held, own>>
    BY <1>5 DEF Sessions!Check
  <2>3. CASE Sessions!Goes(d, [pc |-> "kept", token |-> t])
    <3>1. run'[d] = [pc |-> "kept", token |-> t] /\ (\A e \in Device \ {d} : run'[e] = run[e])
          /\ Sessions!TypeOK'
      BY <1>0, <2>1, <2>2, <2>3, GoesTyped DEF Sessions!TypeOK
    <3>. QED BY <2>1, <2>2, <3>1, KeyKept DEF Sessions!IInv
  <2>4. ASSUME NEW why \in BOOLEAN, ~why => ~Sessions!Taken(t), Sessions!Refuse(d, why)
        PROVE  Sessions!IInv'
    <3>1. run'[d] = [pc |-> "refused", token |-> t, outside |-> why]
          /\ (\A e \in Device \ {d} : run'[e] = run[e]) /\ Sessions!TypeOK'
      BY <1>0, <2>1, <2>2, <2>4, GoesTyped DEF Sessions!TypeOK, Sessions!Refuse
    <3>2. own[d] => Sessions!KeyHas(t)
      BY <2>1 DEF Sessions!IInv
    <3>3. own[d] /\ ~why => Sessions!Expired(t)
      BY <1>0, <2>1, <2>4, <3>2, KeyTaken
    <3>. QED BY <2>1, <2>2, <3>1, <3>2, <3>3, KeyKept
  <2>. QED BY <1>5, <2>3, <2>4 DEF Sessions!Check
<1>12. ASSUME NEW d \in Device, Sessions!CheckUser(d) PROVE Sessions!IInv'
  <2>. DEFINE t == run[d].token
  <2>1. t \in Sessions!Token /\ run[d].pc = "kept" /\ held[d] = t
    BY <1>0, <1>12, RunToken DEF Sessions!CheckUser, Sessions!IInv
  <2>2. UNCHANGED <<now, stored, held, own>>
    BY <1>12 DEF Sessions!CheckUser
  <2>3. CASE Sessions!Goes(d, [pc |-> "accepted", token |-> t])
    <3>1. run'[d] = [pc |-> "accepted", token |-> t] /\ (\A e \in Device \ {d} : run'[e] = run[e])
          /\ Sessions!TypeOK'
      BY <1>0, <2>1, <2>2, <2>3, GoesTyped DEF Sessions!TypeOK
    <3>. QED BY <2>1, <2>2, <3>1, KeyKept DEF Sessions!IInv
  <2>4. CASE Sessions!Refuse(d, TRUE)
    <3>1. run'[d] = [pc |-> "refused", token |-> t, outside |-> TRUE]
          /\ (\A e \in Device \ {d} : run'[e] = run[e]) /\ Sessions!TypeOK'
      BY <1>0, <2>1, <2>2, <2>4, GoesTyped DEF Sessions!TypeOK, Sessions!Refuse
    <3>. QED BY <2>1, <2>2, <3>1, KeyKept DEF Sessions!IInv
  <2>. QED BY <1>12, <2>3, <2>4 DEF Sessions!CheckUser
<1>6. ASSUME NEW d \in Device, Sessions!Generate(d) PROVE Sessions!IInv'
  <2>1. PICK l \in BOOLEAN : Sessions!Goes(d, [pc |-> "store", token |-> now, login |-> l])
    BY <1>6 DEF Sessions!Generate
  <2>2. run[d].pc # "answer" /\ UNCHANGED <<now, stored, held, own>>
    BY <1>6 DEF Sessions!Generate
  <2>3. run'[d] = [pc |-> "store", token |-> now, login |-> l] /\ (\A e \in Device \ {d} : run'[e] = run[e])
        /\ Sessions!TypeOK'
    BY <1>0, <2>1, <2>2, GoesTyped DEF Sessions!TypeOK, Sessions!Token
  <2>. QED BY <1>0, <2>2, <2>3, KeyKept DEF Sessions!IInv
<1>7. ASSUME NEW d \in Device, Sessions!Store(d) PROVE Sessions!IInv'
  <2>. DEFINE r == [pc |-> "answer", token |-> run[d].token, login |-> run[d].login]
  <2>1. /\ run[d].token \in Sessions!Token /\ run[d].login \in BOOLEAN /\ run[d].token <= now
        /\ [run[d] EXCEPT !.pc = "answer"] = r
    BY <1>0, <1>7, RunToken DEF Sessions!Store, Sessions!IInv
  <2>2. Sessions!Goes(d, r) /\ UNCHANGED <<now, held>>
    BY <1>7, <2>1 DEF Sessions!Store
  <2>3. /\ run' \in [Device -> {Sessions!Idle} \cup [pc : {"login", "logout"}]
                   \cup [pc : {"refresh", "kept", "accepted"}, token : Sessions!Token]
                   \cup [pc : {"store", "answer"}, token : Sessions!Token, login : BOOLEAN]
                   \cup [pc : {"refused"}, token : Sessions!Token, outside : BOOLEAN]]
        /\ run'[d] = r /\ \A e \in Device \ {d} : run'[e] = run[e]
    BY <1>0, <2>1, <2>2, GoesTyped
  <2>4. CASE stored' = [token |-> run[d].token, until |-> Sessions!Until] /\ own' = [e \in Device |-> e = d]
    <3>1. now + TTL \in Nat /\ now + TTL >= run[d].token + TTL
      BY <1>0, <2>1 DEF Sessions!Token
    <3>2. stored' \in [token : Sessions!Token, until : Nat] /\ stored' # None
      BY <2>1, <2>4, <3>1 DEF Sessions!Until, Sessions!Token
    <3>3. Sessions!TypeOK'
      BY <1>0, <2>2, <2>3, <2>4, <3>2 DEF Sessions!TypeOK
    <3>4. stored'.token = run[d].token /\ stored'.until = now + TTL
      BY <2>4 DEF Sessions!Until
    <3>5. run'[d].pc = "answer" /\ run'[d].token = run[d].token
      BY <2>3
    <3>6. \A e \in Device : own'[e] => e = d
      BY <2>4
    <3>7. \A e \in Device : run'[e].pc = "store" => run'[e].token <= now'
      BY <2>2, <2>3, <3>5 DEF Sessions!IInv
    <3>8. Sessions!RefusedForAReason'
      BY <3>5, <3>6 DEF Sessions!RefusedForAReason
    <3>9. \A e \in Device : run'[e].pc \in {"refresh", "kept", "accepted"} => held'[e] = run'[e].token
      BY <2>2, <2>3, <3>5 DEF Sessions!IInv
    <3>. QED BY <3>1, <3>2, <3>3, <3>4, <3>5, <3>6, <3>7, <3>8, <3>9 DEF Sessions!IInv, Sessions!KeyHas
  <2>5. CASE own' = [own EXCEPT ![d] = FALSE] /\ UNCHANGED stored
    <3>1. Sessions!TypeOK'
      BY <1>0, <2>2, <2>3, <2>5 DEF Sessions!TypeOK
    <3>2. ~own'[d] /\ \A e \in Device \ {d} : own'[e] = own[e]
      BY <1>0, <2>5 DEF Sessions!TypeOK
    <3>. QED BY <2>2, <2>3, <2>5, <3>1, <3>2, KeyKept
  <2>. QED BY <1>7, <2>4, <2>5 DEF Sessions!Store
<1>8. ASSUME NEW d \in Device, Sessions!Delete(d) PROVE Sessions!IInv'
  <2>1. /\ run'[d] = Sessions!Idle /\ (\A e \in Device \ {d} : run'[e] = run[e])
        /\ Sessions!TypeOK'
    BY <1>0, <1>8, GoesTyped DEF Sessions!Delete, Sessions!TypeOK
  <2>2. \A e \in Device : ~own'[e]
    BY <1>8 DEF Sessions!Delete
  <2>3. \A e \in Device : run'[e].pc = "store" => run'[e].token <= now'
    BY <1>8, <2>1 DEF Sessions!Delete, Sessions!IInv, Sessions!Idle
  <2>4. \A e \in Device : run'[e].pc \in {"refresh", "kept", "accepted"} => held'[e] = run'[e].token
    BY <1>8, <2>1 DEF Sessions!Delete, Sessions!IInv, Sessions!Idle
  <2>. QED BY <2>1, <2>2, <2>3, <2>4 DEF Sessions!IInv, Sessions!RefusedForAReason
<1>9. ASSUME NEW d \in Device, Sessions!Answer(d) PROVE Sessions!IInv'
  <2>1. run[d].token \in Sessions!Token /\ UNCHANGED <<now, stored, own>>
    BY <1>0, <1>9, RunToken DEF Sessions!Answer
  <2>2. held' \in [Device -> Sessions!Token \cup {None}] /\ \A e \in Device \ {d} : held'[e] = held[e]
    BY <1>0, <1>9, <2>1 DEF Sessions!Answer, Sessions!TypeOK
  <2>3. /\ run'[d] = Sessions!Idle /\ (\A e \in Device \ {d} : run'[e] = run[e])
        /\ Sessions!TypeOK'
    BY <1>0, <1>9, <2>1, <2>2, GoesTyped DEF Sessions!Answer, Sessions!TypeOK
  <2>4. (run[d].pc = "answer" /\ held'[d] = run[d].token) \/ held'[d] = None
    BY <1>0, <1>9 DEF Sessions!Answer, Sessions!TypeOK
  <2>5. own'[d] => (held'[d] # None => Sessions!KeyHas(held'[d]))
    BY <2>1, <2>4 DEF Sessions!IInv
  <2>. QED BY <2>1, <2>2, <2>3, <2>5, KeyKept DEF Sessions!Idle
<1>10. ASSUME NEW d \in Device, Sessions!Fail(d) PROVE Sessions!IInv'
  <2>1. /\ run'[d] = Sessions!Idle /\ (\A e \in Device \ {d} : run'[e] = run[e])
        /\ UNCHANGED <<now, stored, held>>
    BY <1>0, <1>10, GoesTyped DEF Sessions!Fail
  <2>2. own' \in [Device -> BOOLEAN] /\ (run[d].pc = "answer" => ~own'[d])
        /\ \A e \in Device : own'[e] => own[e]
    BY <1>0, <1>10 DEF Sessions!Fail, Sessions!TypeOK
  <2>3. Sessions!TypeOK'
    BY <1>0, <1>10, <2>1, <2>2, GoesTyped DEF Sessions!Fail, Sessions!TypeOK
  <2>4. own'[d] => (held'[d] # None => Sessions!KeyHas(held'[d]))
    BY <2>1, <2>2 DEF Sessions!IInv
  <2>. QED BY <2>1, <2>2, <2>3, <2>4, KeyKept DEF Sessions!Idle
<1>11. CASE UNCHANGED sessionsVars
  BY <1>11 DEF sessionsVars, Sessions!IInv, Sessions!TypeOK, Sessions!KeyHas,
               Sessions!RefusedForAReason, Sessions!Expired
<1>. QED BY <1>1, <1>2, <1>3, <1>4, <1>5, <1>6, <1>7, <1>8, <1>9, <1>10, <1>11, <1>12 DEF Sessions!Next

-----------------------------------------------------------------------------
(***************************************************************************)
(* Onboarding.                                                              *)
(***************************************************************************)
Pc == {"sent", "begun", "inserted", "owned", "created", "conflict", "failed", "done"}
Form == [page : {"registro", "login"}, slug : Slug \cup {None}, rest : BOOLEAN,
         call : Registration \cup {None}, error : {None, "taken", "server", "connection"}]
Run == {Onboarding!Idle} \cup [pc : Pc, by : Person, slug : Slug]

\* The requests that hold a connection.
Holders == {q \in Registration : Onboarding!Holds(q)}

\* The instance has the operators of FiniteSets under names of its own.
LEMMA SameCardinality == ASSUME NEW S PROVE Onboarding!Cardinality(S) = Cardinality(S)
BY DEF Onboarding!Cardinality, Cardinality

\* The library's operator and the instance's copy of it are one.
LEMMA SameFinite == ASSUME NEW S PROVE Onboarding!IsFiniteSet(S) <=> IsFiniteSet(S)
BY DEF Onboarding!IsFiniteSet, IsFiniteSet

\* The count, with the cardinality the library's theorems are about.
LEMMA CountedHolders == Onboarding!Counted <=> free + Cardinality(Holders) = MaxConns
BY SameCardinality DEF Onboarding!Counted, Holders

\* Empty forms, no request, the whole pool.
LEMMA OnboardingInit == ASSUME Onboarding!OnboardingAssumption, Onboarding!Init PROVE Onboarding!IInv
<1>. USE DEF Onboarding!OnboardingAssumption, Onboarding!Init
<1>1. \A p \in Person : form[p].page = "registro" /\ form[p].call = None
  BY DEF Onboarding!Empty
<1>2. Onboarding!TypeOK
  <2>1. Onboarding!Empty \in Form
    BY DEF Onboarding!Empty, Onboarding!Invalid, Form
  <2>2. form \in [Person -> Form]
    BY <2>1
  <2>. QED BY <2>2 DEF Onboarding!TypeOK, Onboarding!Invalid, Form
<1>3. Holders = {} /\ Cardinality(Holders) = 0
  <2>1. \A q \in Registration : registration[q].pc = "idle"
    BY DEF Onboarding!Idle
  <2>2. Holders = {}
    BY <2>1 DEF Holders, Onboarding!Holds
  <2>. QED BY <2>2, FS_EmptySet
<1>4. Onboarding!Counted
  BY <1>3, CountedHolders
<1>5. Onboarding!CallIsOurs /\ Onboarding!RegisteredHasOwner
  BY <1>1 DEF Onboarding!CallIsOurs, Onboarding!Loading, Onboarding!RegisteredHasOwner
<1>6. Onboarding!RowsAreMade
  BY DEF Onboarding!RowsAreMade, Onboarding!Idle
<1>. QED BY <1>2, <1>4, <1>5, <1>6 DEF Onboarding!IInv

\* Requests are kept: one that has been made stays, with its maker and its slug.
Kept ==
    \A q \in Registration : registration[q] # Onboarding!Idle =>
        /\ registration'[q] # Onboarding!Idle
        /\ registration'[q].by = registration[q].by /\ registration'[q].slug = registration[q].slug

\* Another state for a request that has been made.
LEMMA AtTyped ==
    ASSUME Onboarding!TypeOK, NEW q \in Registration, NEW pc \in Pc,
           registration[q].pc # "idle", Onboarding!At(q, pc)
    PROVE  /\ registration' \in [Registration -> Run]
           /\ registration'[q] = [pc |-> pc, by |-> registration[q].by, slug |-> registration[q].slug]
           /\ registration[q].by \in Person /\ registration[q].slug \in Slug
           /\ \A r \in Registration \ {q} : registration'[r] = registration[r]
           /\ Kept
<1>1. registration[q] \in [pc : Pc, by : Person, slug : Slug] /\ registration \in [Registration -> Run]
  BY DEF Onboarding!TypeOK, Onboarding!Idle, Pc, Run
<1>2. [registration[q] EXCEPT !.pc = pc]
        = [pc |-> pc, by |-> registration[q].by, slug |-> registration[q].slug]
  BY <1>1
<1>3. registration' =
        [registration EXCEPT ![q] = [pc |-> pc, by |-> registration[q].by, slug |-> registration[q].slug]]
  BY <1>2 DEF Onboarding!At
<1>4. [pc |-> pc, by |-> registration[q].by, slug |-> registration[q].slug] \in Run
  BY <1>1 DEF Run
<1>5. /\ registration' \in [Registration -> Run]
      /\ registration'[q] = [pc |-> pc, by |-> registration[q].by, slug |-> registration[q].slug]
      /\ \A r \in Registration \ {q} : registration'[r] = registration[r]
  BY <1>1, <1>3, <1>4
<1>6. Kept
  BY <1>5 DEF Kept, Onboarding!Idle, Pc
<1>. QED BY <1>1, <1>5, <1>6

\* The count of connections when one request takes or gives back one.
LEMMA Recounted ==
    ASSUME IsFiniteSet(Registration), Onboarding!TypeOK, Onboarding!Counted, MaxConns \in Nat, NEW q \in Registration,
           \A r \in Registration \ {q} : registration'[r] = registration[r],
           free' = free + (IF q \in Holders THEN 1 ELSE 0) - (IF q \in Holders' THEN 1 ELSE 0)
    PROVE  Onboarding!Counted' /\ free' <= MaxConns
<1>1. IsFiniteSet(Holders) /\ IsFiniteSet(Holders')
  <2>1. Holders \subseteq Registration /\ Holders' \subseteq Registration
    BY DEF Holders
  <2>. QED BY <2>1, FS_Subset
<1>2. free + Cardinality(Holders) = MaxConns
  BY CountedHolders
<1>3. Cardinality(Holders) \in Nat /\ Cardinality(Holders') \in Nat /\ free \in Nat
  BY <1>1, FS_CardinalityType DEF Onboarding!TypeOK
<1>4. Holders' \ {q} = Holders \ {q}
  BY DEF Holders, Onboarding!Holds
<1>. DEFINE Goal == free' + Cardinality(Holders') = MaxConns /\ free' <= MaxConns
<1>5. ASSUME q \in Holders, q \in Holders' PROVE Goal
  <2>1. Holders' = Holders
    BY <1>4, <1>5
  <2>. QED BY <1>2, <1>3, <1>5, <2>1
<1>6. ASSUME q \notin Holders, q \notin Holders' PROVE Goal
  <2>1. Holders' = Holders
    BY <1>4, <1>6
  <2>. QED BY <1>2, <1>3, <1>6, <2>1
<1>7. ASSUME q \notin Holders, q \in Holders' PROVE Goal
  <2>1. Holders' = Holders \cup {q}
    BY <1>4, <1>7
  <2>2. Cardinality(Holders') = Cardinality(Holders) + 1
    BY <1>1, <1>7, <2>1, FS_AddElement
  <2>. QED BY <1>2, <1>3, <1>7, <2>2
<1>8. ASSUME q \in Holders, q \notin Holders' PROVE Goal
  <2>1. Holders' = Holders \ {q}
    BY <1>4, <1>8
  <2>2. Cardinality(Holders') = Cardinality(Holders) - 1
    BY <1>1, <1>8, <2>1, FS_RemoveElement
  <2>. QED BY <1>2, <1>3, <1>8, <2>2
<1>9. Goal
  BY <1>5, <1>6, <1>7, <1>8
<1>10. Onboarding!Counted' <=> free' + Cardinality(Holders') = MaxConns
  BY SameCardinality DEF Onboarding!Counted, Holders
<1>. QED BY <1>9, <1>10

\* What the invariant says of forms and of people who have registered survives every step
\* that keeps requests, rows and owners and whose forms show and await nothing else.
FormsKept ==
    \A p \in Person :
        /\ form'[p].call # None =>
              form'[p].call = form[p].call /\ form'[p].page = form[p].page /\ form'[p].slug = form[p].slug
        /\ form'[p].page = "login" => form[p].page = "login" /\ form'[p].slug = form[p].slug

\* What the forms and the requests keep, and rows that are only added, keep what a person waits for.
LEMMA FormsStep ==
    ASSUME Onboarding!IInv, Kept, FormsKept, tenants \subseteq tenants', owners \subseteq owners'
    PROVE  Onboarding!CallIsOurs' /\ Onboarding!RegisteredHasOwner'
<1>1. \A p \in Person : form[p].call # None => form[p].call \in Registration
  BY DEF Onboarding!IInv, Onboarding!TypeOK
<1>2. Onboarding!CallIsOurs'
  BY <1>1 DEF Onboarding!IInv, Onboarding!CallIsOurs, Onboarding!Loading, Kept, FormsKept
<1>3. ASSUME NEW p \in Person, form'[p].page = "login"
      PROVE  \E t \in tenants' : t.slug = form'[p].slug /\ t.id \in owners' /\ registration'[t.id].by = p
  <2>1. form[p].page = "login" /\ form'[p].slug = form[p].slug
    BY <1>3 DEF FormsKept
  <2>2. PICK t \in tenants : t.slug = form[p].slug /\ t.id \in owners /\ registration[t.id].by = p
    BY <2>1 DEF Onboarding!IInv, Onboarding!RegisteredHasOwner
  <2>3. t.id \in Registration /\ registration[t.id] # Onboarding!Idle
    BY DEF Onboarding!IInv, Onboarding!TypeOK, Onboarding!RowsAreMade
  <2>. QED BY <2>1, <2>2, <2>3 DEF Kept
<1>. QED BY <1>2, <1>3 DEF Onboarding!RegisteredHasOwner

\* The forms' own steps leave the requests alone.
LEMMA FormsOnly ==
    ASSUME Onboarding!IInv, form' \in [Person -> Form], FormsKept,
           UNCHANGED <<registration, free, tenants, owners>>
    PROVE  Onboarding!IInv'
<1>1. Kept
  BY DEF Kept
<1>2. Onboarding!CallIsOurs' /\ Onboarding!RegisteredHasOwner'
  BY <1>1, FormsStep
<1>3. Onboarding!TypeOK'
  BY DEF Onboarding!IInv, Onboarding!TypeOK, Onboarding!Invalid, Form
<1>4. Onboarding!RowsAreMade' /\ Onboarding!Counted'
  BY DEF Onboarding!IInv, Onboarding!RowsAreMade, Onboarding!Counted, Onboarding!Holds
<1>. QED BY <1>2, <1>3, <1>4 DEF Onboarding!IInv

\* A step of one request, which has been made: its state, its row, its owner, its connection.
RequestMoves(q, pc) ==
    /\ q \in Registration /\ registration[q].pc # "idle" /\ pc \in Pc
    /\ Onboarding!At(q, pc)
    /\ tenants' \in {tenants, tenants \cup {[slug |-> registration[q].slug, id |-> q]}}
    /\ owners' \in {owners, owners \cup {q}}
    /\ pc \in {"inserted", "owned", "created"} => [slug |-> registration[q].slug, id |-> q] \in tenants'
    /\ pc = "created" => q \in owners'
    /\ free' = free + (IF Onboarding!Holds(q) THEN 1 ELSE 0)
                    - (IF pc \in {"begun", "inserted", "owned"} THEN 1 ELSE 0)
    /\ free' >= 0

\* A request goes on: what it gives back or takes is counted, what it inserts is there.
LEMMA RequestStep ==
    ASSUME Onboarding!OnboardingAssumption, Onboarding!IInv, NEW q, NEW pc, RequestMoves(q, pc)
    PROVE  /\ registration' \in [Registration -> Run] /\ free' \in 0..MaxConns
           /\ tenants' \subseteq [slug : Slug, id : Registration] /\ owners' \subseteq Registration
           /\ tenants \subseteq tenants' /\ owners \subseteq owners' /\ Kept
           /\ Onboarding!RowsAreMade' /\ Onboarding!Counted'
<1>. USE DEF RequestMoves
<1>1. Onboarding!TypeOK /\ Onboarding!RowsAreMade /\ Onboarding!Counted
      /\ IsFiniteSet(Registration) /\ MaxConns \in Nat
  BY SameFinite DEF Onboarding!IInv, Onboarding!OnboardingAssumption
<1>2. /\ registration' \in [Registration -> Run]
      /\ registration'[q] = [pc |-> pc, by |-> registration[q].by, slug |-> registration[q].slug]
      /\ registration[q].by \in Person /\ registration[q].slug \in Slug
      /\ \A r \in Registration \ {q} : registration'[r] = registration[r]
      /\ Kept
  BY <1>1, AtTyped
<1>3. free' = free + (IF q \in Holders THEN 1 ELSE 0) - (IF q \in Holders' THEN 1 ELSE 0)
  BY <1>2 DEF Holders, Onboarding!Holds
<1>4. Onboarding!Counted' /\ free' <= MaxConns
  BY <1>1, <1>2, <1>3, Recounted
<1>5. free' \in 0..MaxConns
  BY <1>1, <1>4 DEF Onboarding!TypeOK
<1>6. tenants' \subseteq [slug : Slug, id : Registration] /\ owners' \subseteq Registration
      /\ tenants \subseteq tenants' /\ owners \subseteq owners'
  BY <1>1, <1>2 DEF Onboarding!TypeOK
<1>7. \A t \in tenants' : registration'[t.id] # Onboarding!Idle
  BY <1>1, <1>2, <1>6 DEF Onboarding!RowsAreMade, Onboarding!TypeOK, Kept, Onboarding!Idle, Pc
<1>8. \A r \in Registration : registration'[r].pc \in {"inserted", "owned", "created"} =>
         [slug |-> registration'[r].slug, id |-> r] \in tenants'
  BY <1>1, <1>2, <1>6 DEF Onboarding!RowsAreMade
<1>9. \A r \in Registration : registration'[r].pc = "created" => r \in owners'
  BY <1>1, <1>2, <1>6 DEF Onboarding!RowsAreMade
<1>10. Onboarding!RowsAreMade'
  BY <1>7, <1>8, <1>9 DEF Onboarding!RowsAreMade
<1>. QED BY <1>2, <1>4, <1>5, <1>6, <1>10

\* Such a step with no form in it.
LEMMA RequestOnly ==
    ASSUME Onboarding!OnboardingAssumption, Onboarding!IInv, NEW q, NEW pc, RequestMoves(q, pc), UNCHANGED form
    PROVE  Onboarding!IInv'
<1>1. FormsKept
  BY DEF FormsKept
<1>2. Onboarding!CallIsOurs' /\ Onboarding!RegisteredHasOwner' /\ Onboarding!RowsAreMade' /\ Onboarding!Counted'
  BY <1>1, RequestStep, FormsStep
<1>3. Onboarding!TypeOK'
  BY RequestStep DEF Onboarding!IInv, Onboarding!TypeOK, Run, Pc
<1>. QED BY <1>2, <1>3 DEF Onboarding!IInv

\* Edits, a refused form, a lost connection and leaving.
LEMMA FormActions ==
    ASSUME Onboarding!IInv, NEW p \in Person,
           \/ Onboarding!HandleBusinessNameChange(p) \/ Onboarding!EditSlug(p) \/ Onboarding!EditField(p)
           \/ Onboarding!LoseConnection(p) \/ Onboarding!Leave(p)
    PROVE  Onboarding!IInv'
<1>1. form \in [Person -> Form]
  BY DEF Onboarding!IInv, Onboarding!TypeOK, Onboarding!Invalid, Form
<1>2. form[p] \in Form
  BY <1>1
<1>3. UNCHANGED <<registration, free, tenants, owners>>
  BY DEF Onboarding!HandleBusinessNameChange, Onboarding!EditSlug, Onboarding!EditField,
         Onboarding!LoseConnection, Onboarding!Leave
<1>4. ASSUME NEW f \in Form, form' = [form EXCEPT ![p] = f],
             f.call # None => f.call = form[p].call /\ f.page = form[p].page /\ f.slug = form[p].slug,
             f.page = "login" => form[p].page = "login" /\ f.slug = form[p].slug
      PROVE  Onboarding!IInv'
  <2>1. form' \in [Person -> Form] /\ form'[p] = f /\ \A r \in Person \ {p} : form'[r] = form[r]
    BY <1>1, <1>4
  <2>2. FormsKept
    BY <1>4, <2>1 DEF FormsKept
  <2>. QED BY <1>3, <2>1, <2>2, FormsOnly
<1>5. CASE Onboarding!HandleBusinessNameChange(p)
  <2>1. PICK s \in Slug \cup {None}, ok \in BOOLEAN : form' = [form EXCEPT ![p].slug = s, ![p].rest = ok]
    BY <1>5 DEF Onboarding!HandleBusinessNameChange, Onboarding!Invalid
  <2>. DEFINE f == [form[p] EXCEPT !.slug = s, !.rest = ok]
  <2>2. form' = [form EXCEPT ![p] = f]
    BY <1>1, <2>1
  <2>3. f \in Form /\ f.call = None /\ f.page = "registro"
    BY <1>2, <1>5 DEF Onboarding!HandleBusinessNameChange, Onboarding!Editable, Onboarding!Loading, Form
  <2>. HIDE DEF f
  <2>. QED BY <1>4, <2>2, <2>3
<1>6. CASE Onboarding!EditSlug(p)
  <2>1. PICK s \in Slug \cup {None} : form' = [form EXCEPT ![p].slug = s]
    BY <1>6 DEF Onboarding!EditSlug, Onboarding!Invalid
  <2>. DEFINE f == [form[p] EXCEPT !.slug = s]
  <2>2. form' = [form EXCEPT ![p] = f]
    BY <2>1
  <2>3. f \in Form /\ f.call = None /\ f.page = "registro"
    BY <1>2, <1>6 DEF Onboarding!EditSlug, Onboarding!Editable, Onboarding!Loading, Form
  <2>. HIDE DEF f
  <2>. QED BY <1>4, <2>2, <2>3
<1>7. CASE Onboarding!EditField(p)
  <2>. DEFINE f == [form[p] EXCEPT !.rest = ~form[p].rest]
  <2>2. form' = [form EXCEPT ![p] = f]
    BY <1>7 DEF Onboarding!EditField
  <2>3. f \in Form /\ f.call = None /\ f.page = "registro"
    BY <1>2, <1>7 DEF Onboarding!EditField, Onboarding!Editable, Onboarding!Loading, Form
  <2>. HIDE DEF f
  <2>. QED BY <1>4, <2>2, <2>3
<1>8. CASE Onboarding!LoseConnection(p)
  <2>. DEFINE f == [form[p] EXCEPT !.error = "connection", !.call = None]
  <2>2. form' = [form EXCEPT ![p] = f]
    BY <1>1, <1>8 DEF Onboarding!LoseConnection
  <2>3. f \in Form /\ f.call = None /\ f.page = form[p].page /\ f.slug = form[p].slug
    BY <1>2 DEF Form
  <2>. HIDE DEF f
  <2>. QED BY <1>4, <2>2, <2>3
<1>9. CASE Onboarding!Leave(p)
  <2>1. Onboarding!Empty \in Form /\ Onboarding!Empty.call = None /\ Onboarding!Empty.page = "registro"
    BY DEF Onboarding!Empty, Onboarding!Invalid, Form
  <2>. QED BY <1>4, <1>9, <2>1 DEF Onboarding!Leave
<1>. QED BY <1>5, <1>6, <1>7, <1>8, <1>9

\* A form is sent: the new request is of the person and the slug of the form.
LEMMA SubmitStep ==
    ASSUME Onboarding!OnboardingAssumption, Onboarding!IInv, NEW p \in Person, Onboarding!HandleSubmit(p)
    PROVE  Onboarding!IInv'
<1>1. form \in [Person -> Form] /\ form[p] \in Form /\ registration \in [Registration -> Run]
      /\ tenants \subseteq [slug : Slug, id : Registration]
      /\ form[p].page = "registro" /\ form[p].call = None
  BY DEF Onboarding!HandleSubmit, Onboarding!Editable, Onboarding!Loading,
         Onboarding!IInv, Onboarding!TypeOK, Onboarding!Invalid, Form, Run, Pc
<1>2. CASE ~Onboarding!Valid(p)
  <2>. DEFINE f == [form[p] EXCEPT !.error = None]
  <2>1. form' = [form EXCEPT ![p] = f] /\ UNCHANGED <<registration, free, tenants, owners>>
    BY <1>2 DEF Onboarding!HandleSubmit
  <2>2. f \in Form /\ f.call = None /\ f.page = "registro"
    BY <1>1 DEF Form
  <2>. HIDE DEF f
  <2>3. form' \in [Person -> Form] /\ form'[p] = f /\ \A r \in Person \ {p} : form'[r] = form[r]
    BY <1>1, <2>1, <2>2
  <2>4. FormsKept
    BY <2>2, <2>3 DEF FormsKept
  <2>. QED BY <2>1, <2>3, <2>4, FormsOnly
<1>3. CASE Onboarding!Valid(p)
  <2>1. PICK q \in Registration :
           /\ registration[q] = Onboarding!Idle
           /\ registration' = [registration EXCEPT ![q] = Onboarding!New(p, form[p].slug)]
           /\ form' = [form EXCEPT ![p].error = None, ![p].call = q]
    BY <1>3 DEF Onboarding!HandleSubmit
  <2>2. UNCHANGED <<free, tenants, owners>>
    BY DEF Onboarding!HandleSubmit
  <2>3. form[p].slug \in Slug
    BY <1>1, <1>3 DEF Onboarding!Valid, Onboarding!Invalid, Form
  <2>. DEFINE n == [pc |-> "sent", by |-> p, slug |-> form[p].slug]
              f == [form[p] EXCEPT !.error = None, !.call = q]
  <2>4. n \in Run /\ n # Onboarding!Idle /\ n.pc = "sent" /\ n.by = p /\ n.slug = form[p].slug
    BY <2>3 DEF Run, Pc, Onboarding!Idle
  <2>5. f \in Form /\ f.call = q /\ f.page = "registro" /\ f.slug = form[p].slug
    BY <1>1 DEF Form
  <2>6. registration' = [registration EXCEPT ![q] = n] /\ form' = [form EXCEPT ![p] = f]
    BY <1>1, <2>1 DEF Onboarding!New
  <2>. HIDE DEF n, f
  <2>7. /\ registration' \in [Registration -> Run] /\ registration'[q] = n
        /\ \A r \in Registration \ {q} : registration'[r] = registration[r]
    BY <1>1, <2>4, <2>6
  <2>8. form' \in [Person -> Form] /\ form'[p] = f /\ \A r \in Person \ {p} : form'[r] = form[r]
    BY <1>1, <2>5, <2>6
  <2>9. Onboarding!TypeOK'
    BY <2>2, <2>7, <2>8 DEF Onboarding!IInv, Onboarding!TypeOK, Onboarding!Invalid, Form, Run, Pc
  <2>10. Onboarding!CallIsOurs'
    <3>1. \A r \in Person \ {p} : form[r].call # None => form[r].call \in Registration \ {q}
      BY <2>1 DEF Onboarding!IInv, Onboarding!TypeOK, Onboarding!CallIsOurs, Onboarding!Loading
    <3>2. \A r \in Person \ {p} : form[r].call # None =>
             /\ form[r].page = "registro" /\ registration[form[r].call] # Onboarding!Idle
             /\ registration[form[r].call].by = r /\ registration[form[r].call].slug = form[r].slug
      BY DEF Onboarding!IInv, Onboarding!CallIsOurs, Onboarding!Loading
    <3>. QED BY <2>4, <2>5, <2>7, <2>8, <3>1, <3>2 DEF Onboarding!CallIsOurs, Onboarding!Loading
  <2>11. Onboarding!RowsAreMade'
    BY <1>1, <2>1, <2>2, <2>4, <2>7 DEF Onboarding!IInv, Onboarding!RowsAreMade
  <2>12. Onboarding!RegisteredHasOwner'
    <3>1. \A t \in tenants : t.id \in Registration \ {q}
      BY <1>1, <2>1 DEF Onboarding!IInv, Onboarding!RowsAreMade
    <3>. QED BY <2>2, <2>5, <2>7, <2>8, <3>1 DEF Onboarding!IInv, Onboarding!RegisteredHasOwner
  <2>13. Onboarding!Counted'
    <3>1. q \notin Holders /\ q \notin Holders'
      BY <2>1, <2>4, <2>7 DEF Holders, Onboarding!Holds, Onboarding!Idle
    <3>2. free' = free + (IF q \in Holders THEN 1 ELSE 0) - (IF q \in Holders' THEN 1 ELSE 0)
      BY <2>2, <3>1 DEF Onboarding!IInv, Onboarding!TypeOK
    <3>. QED BY <2>7, <3>2, Recounted, SameFinite DEF Onboarding!IInv, Onboarding!OnboardingAssumption
  <2>. QED BY <2>9, <2>10, <2>11, <2>12, <2>13 DEF Onboarding!IInv
<1>. QED BY <1>2, <1>3

\* The steps of a request.
LEMMA RequestActions ==
    ASSUME Onboarding!OnboardingAssumption, Onboarding!IInv, NEW q \in Registration,
           \/ Onboarding!Begin(q) \/ Onboarding!InsertTenant(q) \/ Onboarding!SlugTaken(q)
           \/ Onboarding!InsertOwner(q) \/ Onboarding!Commit(q) \/ Onboarding!Fail(q)
    PROVE  Onboarding!IInv'
<1>. USE DEF Onboarding!Holds, Onboarding!Waits, Onboarding!Active, RequestMoves, Pc
<1>1. free \in Nat /\ registration \in [Registration -> Run]
  BY DEF Onboarding!IInv, Onboarding!TypeOK, Onboarding!OnboardingAssumption, Run
<1>2. registration[q].pc \in {"inserted", "owned", "created"}
        => [slug |-> registration[q].slug, id |-> q] \in tenants
  BY DEF Onboarding!IInv, Onboarding!RowsAreMade
<1>3. CASE Onboarding!Begin(q)
  <2>1. RequestMoves(q, "begun") /\ UNCHANGED form
    BY <1>1, <1>3 DEF Onboarding!Begin
  <2>. QED BY <2>1, RequestOnly
<1>4. CASE Onboarding!InsertTenant(q)
  <2>1. RequestMoves(q, "inserted") /\ UNCHANGED form
    BY <1>1, <1>4 DEF Onboarding!InsertTenant
  <2>. QED BY <2>1, RequestOnly
<1>5. CASE Onboarding!SlugTaken(q)
  <2>1. RequestMoves(q, "conflict") /\ UNCHANGED form
    BY <1>1, <1>5 DEF Onboarding!SlugTaken
  <2>. QED BY <2>1, RequestOnly
<1>6. CASE Onboarding!InsertOwner(q)
  <2>1. RequestMoves(q, "owned") /\ UNCHANGED form
    BY <1>1, <1>2, <1>6 DEF Onboarding!InsertOwner
  <2>. QED BY <2>1, RequestOnly
<1>7. CASE Onboarding!Commit(q)
  <2>1. RequestMoves(q, "created") /\ UNCHANGED form
    BY <1>1, <1>2, <1>7 DEF Onboarding!Commit
  <2>. QED BY <2>1, RequestOnly
<1>8. CASE Onboarding!Fail(q)
  <2>1. registration[q].pc # "idle" /\ Onboarding!At(q, "failed") /\ UNCHANGED <<form, tenants>>
    BY <1>8 DEF Onboarding!Fail
  <2>2. owners' \in {owners, owners \cup {q}}
    BY <1>8 DEF Onboarding!Fail
  <2>3. free' = free + (IF Onboarding!Holds(q) THEN 1 ELSE 0) /\ free' >= 0
    BY <1>1, <1>8 DEF Onboarding!Fail
  <2>4. free' = free + (IF Onboarding!Holds(q) THEN 1 ELSE 0)
                  - (IF "failed" \in {"begun", "inserted", "owned"} THEN 1 ELSE 0)
    BY <1>1, <2>3
  <2>5. RequestMoves(q, "failed")
    BY <2>1, <2>2, <2>3, <2>4
  <2>. QED BY <2>1, <2>5, RequestOnly
<1>. QED BY <1>3, <1>4, <1>5, <1>6, <1>7, <1>8

\* The answer: a person goes to the login page only when the request has its row and its owner.
LEMMA AnswerStep ==
    ASSUME Onboarding!OnboardingAssumption, Onboarding!IInv, NEW p \in Person, Onboarding!Answer(p)
    PROVE  Onboarding!IInv'
<1>. DEFINE q == form[p].call
<1>1. /\ form \in [Person -> Form] /\ form[p] \in Form /\ q \in Registration
      /\ free \in Nat /\ form[p].page = "registro"
      /\ registration[q].by = p /\ registration[q].slug = form[p].slug
  BY DEF Onboarding!Answer, Onboarding!Loading, Onboarding!IInv, Onboarding!TypeOK, Onboarding!CallIsOurs,
         Onboarding!OnboardingAssumption, Onboarding!Invalid, Form
<1>2. RequestMoves(q, "done")
  <2>1. /\ registration[q].pc \in {"created", "conflict", "failed"}
        /\ Onboarding!At(q, "done") /\ UNCHANGED <<free, tenants, owners>>
    BY DEF Onboarding!Answer, Onboarding!At
  <2>2. ~Onboarding!Holds(q) /\ registration[q].pc # "idle"
    BY <2>1 DEF Onboarding!Holds
  <2>3. free' = free + (IF Onboarding!Holds(q) THEN 1 ELSE 0)
                  - (IF "done" \in {"begun", "inserted", "owned"} THEN 1 ELSE 0)
        /\ free' >= 0
    BY <1>1, <2>1, <2>2
  <2>. HIDE DEF q
  <2>. QED BY <1>1, <2>1, <2>2, <2>3 DEF RequestMoves, Pc
<1>3. PICK f \in Form :
        /\ form' = [form EXCEPT ![p] = f] /\ f.call = None /\ f.slug = form[p].slug
        /\ f.page = "registro" \/ registration[q].pc = "created"
  <2>1. CASE registration[q].pc = "created"
    <3>. DEFINE f == [form[p] EXCEPT !.page = "login", !.call = None]
    <3>1. f \in Form /\ f.call = None /\ f.slug = form[p].slug
      BY <1>1 DEF Form
    <3>2. form' = [form EXCEPT ![p] = f]
      BY <1>1, <2>1 DEF Onboarding!Answer
    <3>. HIDE DEF f
    <3>. QED BY <2>1, <3>1, <3>2
  <2>2. ASSUME NEW e \in {"taken", "server"}, form' = [form EXCEPT ![p].error = e, ![p].call = None]
        PROVE  \E f \in Form : /\ form' = [form EXCEPT ![p] = f] /\ f.call = None /\ f.slug = form[p].slug
                               /\ f.page = "registro"
    <3>. DEFINE f == [form[p] EXCEPT !.error = e, !.call = None]
    <3>1. f \in Form /\ f.call = None /\ f.slug = form[p].slug /\ f.page = "registro"
      BY <1>1 DEF Form
    <3>2. form' = [form EXCEPT ![p] = f]
      BY <1>1, <2>2
    <3>. HIDE DEF f
    <3>. QED BY <3>1, <3>2
  <2>3. CASE registration[q].pc \in {"conflict", "failed"}
    <3>1. \E e \in {"taken", "server"} : form' = [form EXCEPT ![p].error = e, ![p].call = None]
      BY <2>3 DEF Onboarding!Answer
    <3>. QED BY <2>2, <3>1
  <2>. QED BY <2>1, <2>3 DEF Onboarding!Answer
<1>4. form' \in [Person -> Form] /\ form'[p] = f /\ \A r \in Person \ {p} : form'[r] = form[r]
  BY <1>1, <1>3
<1>5. /\ registration' \in [Registration -> Run] /\ free' \in 0..MaxConns
      /\ tenants' \subseteq [slug : Slug, id : Registration] /\ owners' \subseteq Registration
      /\ Kept /\ Onboarding!RowsAreMade' /\ Onboarding!Counted'
  BY <1>2, RequestStep
<1>6. UNCHANGED <<tenants, owners>>
  BY DEF Onboarding!Answer
<1>7. Onboarding!TypeOK'
  BY <1>4, <1>5 DEF Onboarding!TypeOK, Onboarding!Invalid, Form, Run, Pc
<1>8. Onboarding!CallIsOurs'
  <2>1. \A r \in Person : form[r].call # None => form[r].call \in Registration
    BY DEF Onboarding!IInv, Onboarding!TypeOK
  <2>. QED BY <1>3, <1>4, <1>5, <2>1 DEF Onboarding!IInv, Onboarding!CallIsOurs, Onboarding!Loading, Kept
<1>9. ASSUME NEW r \in Person, form'[r].page = "login"
      PROVE  \E t \in tenants' : t.slug = form'[r].slug /\ t.id \in owners' /\ registration'[t.id].by = r
  <2>1. CASE r # p
    <3>1. form'[r] = form[r]
      BY <1>4, <2>1
    <3>2. PICK t \in tenants : t.slug = form[r].slug /\ t.id \in owners /\ registration[t.id].by = r
      BY <1>9, <3>1 DEF Onboarding!IInv, Onboarding!RegisteredHasOwner
    <3>3. t.id \in Registration /\ registration[t.id] # Onboarding!Idle
      BY DEF Onboarding!IInv, Onboarding!TypeOK, Onboarding!RowsAreMade
    <3>. QED BY <1>5, <1>6, <3>1, <3>2, <3>3 DEF Kept
  <2>2. CASE r = p
    <3>1. registration[q].pc = "created"
      BY <1>3, <1>4, <1>9, <2>2
    <3>2. [slug |-> registration[q].slug, id |-> q] \in tenants /\ q \in owners
      BY <1>1, <3>1 DEF Onboarding!IInv, Onboarding!RowsAreMade
    <3>3. registration[q] # Onboarding!Idle
      BY <3>1 DEF Onboarding!Idle
    <3>4. registration'[q].by = p
      BY <1>1, <1>5, <3>3 DEF Kept
    <3>5. form'[r].slug = registration[q].slug
      BY <1>1, <1>3, <1>4, <2>2
    <3>. QED BY <1>6, <2>2, <3>2, <3>4, <3>5
  <2>. QED BY <2>1, <2>2
<1>. QED BY <1>5, <1>7, <1>8, <1>9 DEF Onboarding!IInv, Onboarding!RegisteredHasOwner

\* The process starts again: nobody holds a connection, and the pool is whole.
LEMMA CrashStep ==
    ASSUME Onboarding!OnboardingAssumption, Onboarding!IInv, Onboarding!Crash
    PROVE  Onboarding!IInv'
<1>1. /\ form \in [Person -> Form] /\ registration \in [Registration -> Run]
      /\ MaxConns \in Nat /\ tenants \subseteq [slug : Slug, id : Registration]
      /\ free' = MaxConns /\ UNCHANGED <<tenants, owners>>
  BY DEF Onboarding!Crash, Onboarding!IInv, Onboarding!TypeOK, Onboarding!Invalid, Form, Run, Pc,
         Onboarding!OnboardingAssumption
<1>2. ASSUME NEW q \in Registration
      PROVE  /\ registration'[q] \in Run
             /\ Onboarding!Active(q) => registration'[q].pc = "done"
             /\ ~Onboarding!Active(q) => registration'[q] = registration[q]
             /\ registration[q] # Onboarding!Idle =>
                   /\ registration'[q] # Onboarding!Idle
                   /\ registration'[q].by = registration[q].by /\ registration'[q].slug = registration[q].slug
  <2>1. registration'[q] = IF Onboarding!Active(q) THEN [registration[q] EXCEPT !.pc = "done"] ELSE registration[q]
    BY DEF Onboarding!Crash
  <2>2. CASE Onboarding!Active(q)
    <3>1. registration[q] \in [pc : Pc, by : Person, slug : Slug]
      BY <1>1, <2>2 DEF Onboarding!Active, Onboarding!Holds, Onboarding!Idle, Run
    <3>2. [registration[q] EXCEPT !.pc = "done"]
            = [pc |-> "done", by |-> registration[q].by, slug |-> registration[q].slug]
      BY <3>1
    <3>3. [pc |-> "done", by |-> registration[q].by, slug |-> registration[q].slug] \in Run
      BY <3>1 DEF Run, Pc
    <3>. QED BY <2>1, <2>2, <3>2, <3>3 DEF Onboarding!Idle
  <2>3. CASE ~Onboarding!Active(q)
    BY <1>1, <2>1, <2>3
  <2>. QED BY <2>2, <2>3
<1>3. Kept /\ registration' \in [Registration -> Run]
  BY <1>2 DEF Kept, Onboarding!Crash
<1>4. ASSUME NEW p \in Person
      PROVE  /\ form'[p] \in Form
             /\ form'[p].page = form[p].page /\ form'[p].slug = form[p].slug
             /\ form'[p].call # None => form'[p].call = form[p].call
  <2>. DEFINE f == [form[p] EXCEPT !.error = "connection", !.call = None]
  <2>1. form'[p] \in {f, form[p]}
    BY DEF Onboarding!Crash
  <2>2. form[p] \in Form
    BY <1>1
  <2>3. f \in Form /\ f.page = form[p].page /\ f.slug = form[p].slug /\ f.call = None
    BY <2>2 DEF Form
  <2>. HIDE DEF f
  <2>. QED BY <2>1, <2>2, <2>3
<1>5. form' \in [Person -> Form]
  BY <1>4 DEF Onboarding!Crash
<1>6. FormsKept
  BY <1>4 DEF FormsKept
<1>7. Onboarding!CallIsOurs' /\ Onboarding!RegisteredHasOwner'
  BY <1>1, <1>3, <1>6, FormsStep
<1>8. Onboarding!TypeOK'
  BY <1>1, <1>3, <1>5 DEF Onboarding!IInv, Onboarding!TypeOK, Onboarding!Invalid, Form, Run, Pc
<1>9. Onboarding!RowsAreMade'
  <2>1. \A t \in tenants : registration'[t.id] # Onboarding!Idle
    BY <1>1, <1>3 DEF Kept, Onboarding!IInv, Onboarding!RowsAreMade
  <2>2. \A q \in Registration : registration'[q].pc \in {"inserted", "owned", "created"} =>
           registration'[q] = registration[q]
    BY <1>2
  <2>. QED BY <1>1, <2>1, <2>2 DEF Onboarding!IInv, Onboarding!RowsAreMade
<1>10. Onboarding!Counted'
  <2>1. \A q \in Registration : registration'[q].pc \notin {"begun", "inserted", "owned"}
    BY <1>2 DEF Onboarding!Active, Onboarding!Holds
  <2>2. Holders' = {}
    BY <2>1 DEF Holders, Onboarding!Holds
  <2>3. free' + Cardinality(Holders') = MaxConns
    BY <1>1, <2>2, FS_EmptySet
  <2>. QED BY <2>3, SameCardinality DEF Onboarding!Counted, Holders
<1>. QED BY <1>7, <1>8, <1>9, <1>10 DEF Onboarding!IInv

\* Every step of a form, a request or the network is of one of the kinds above.
LEMMA OnboardingStep ==
    ASSUME Onboarding!OnboardingAssumption, Onboarding!IInv, [Onboarding!Next]_onboardingVars
    PROVE  Onboarding!IInv'
<1>1. CASE UNCHANGED onboardingVars
  <2>1. FormsKept /\ form' \in [Person -> Form]
    BY <1>1 DEF onboardingVars, FormsKept, Onboarding!IInv, Onboarding!TypeOK, Onboarding!Invalid, Form
  <2>. QED BY <1>1, <2>1, FormsOnly DEF onboardingVars
<1>2. CASE Onboarding!Next
  BY <1>2, FormActions, SubmitStep, AnswerStep, RequestActions, CrashStep DEF Onboarding!Next
<1>. QED BY <1>1, <1>2

\* With no connection left, the requests that hold one are as many as the pool has.
LEMMA FullWhenStuck ==
    ASSUME Onboarding!OnboardingAssumption, Onboarding!IInv PROVE Onboarding!StuckOnlyWhenFull
<1>1. SUFFICES ASSUME free = 0, \A q \in Registration : Onboarding!Holds(q) => Onboarding!Waits(q)
               PROVE  Onboarding!Cardinality({q \in Registration : Onboarding!Waits(q)}) >= MaxConns
  BY DEF Onboarding!StuckOnlyWhenFull
<1>2. {q \in Registration : Onboarding!Waits(q)} = Holders
  BY <1>1 DEF Holders, Onboarding!Holds, Onboarding!Waits
<1>3. free + Onboarding!Cardinality(Holders) = MaxConns
  BY DEF Onboarding!IInv, Onboarding!Counted, Holders
<1>4. IsFiniteSet(Registration) /\ MaxConns \in Nat
  BY SameFinite DEF Onboarding!OnboardingAssumption
<1>5. Cardinality(Holders) \in Nat
  <2>1. Holders \subseteq Registration
    BY DEF Holders
  <2>. QED BY <1>4, <2>1, FS_Subset, FS_CardinalityType
<1>6. free + Cardinality(Holders) = MaxConns
  BY <1>3, SameCardinality
<1>7. Cardinality(Holders) >= MaxConns
  BY <1>1, <1>4, <1>5, <1>6
<1>. QED BY <1>2, <1>7, SameCardinality

-----------------------------------------------------------------------------
(***************************************************************************)
(* The runs of MCBackend.                                                   *)
(***************************************************************************)
PartsIInv ==
    /\ part = "onboarding" => Onboarding!IInv
    /\ part = "sessions" => Sessions!IInv

\* A run is that of the part chosen at the start, from that part's initial state.
LEMMA PartsInit == MCInit => PartsIInv
BY PartsAssumption, OnboardingInit, SessionsInit DEF MCInit, PartsIInv

\* The other parts' variables stay as they are.
LEMMA PartsStep ==
    PartsIInv /\ [MCNext]_<<part, shopVars, onboardingVars, sessionsVars>> => PartsIInv'
<1>. SUFFICES ASSUME PartsIInv, [MCNext]_<<part, shopVars, onboardingVars, sessionsVars>> PROVE PartsIInv'
  OBVIOUS
<1>1. part' = part
  BY DEF MCNext
<1>2. part = "onboarding" => [Onboarding!Next]_onboardingVars
  BY DEF MCNext, PlansNext, ShopNext, OnboardingNext, SessionsNext
<1>3. part = "sessions" => [Sessions!Next]_sessionsVars
  BY DEF MCNext, PlansNext, ShopNext, OnboardingNext, SessionsNext
<1>4. ASSUME part = "onboarding" PROVE Onboarding!IInv'
  BY <1>2, <1>4, PartsAssumption, OnboardingStep DEF PartsIInv
<1>5. ASSUME part = "sessions" PROVE Sessions!IInv'
  BY <1>3, <1>5, PartsAssumption, SessionsStep DEF PartsIInv
<1>. QED BY <1>1, <1>4, <1>5 DEF PartsIInv

\* In every run the part's own inductive invariant holds: whom an answered call belongs to,
\* which rows a request has made, the connections counted, the key of Redis that was last
\* written for a device.
THEOREM PartsInvariant == MCSpec => []PartsIInv
BY PartsInit, PartsStep, PTL DEF MCSpec

\* CreateTenantWithOwner with handleSubmit: whoever reaches the login page by registering is
\* the owner of the tenant under the slug the form shows, whatever fails in between.
THEOREM RegisteredAreOwners == MCSpec => []RegisteredHasOwner
<1>1. PartsIInv => RegisteredHasOwner
  BY DEF PartsIInv, RegisteredHasOwner, Onboarding!IInv
<1>. QED BY <1>1, PartsInvariant, PTL

\* The pool of connections: registrations wait for each other only when as many wait as
\* the pool has connections, for every size of it. No path leaks one.
THEOREM NoConnectionLeaks == MCSpec => []StuckOnlyWhenFull
<1>1. PartsIInv => StuckOnlyWhenFull
  BY PartsAssumption, FullWhenStuck DEF PartsIInv, StuckOnlyWhenFull
<1>. QED BY <1>1, PartsInvariant, PTL

\* Refresh: a device whose token the key was last written with is refused for it only when
\* it has run out; the other refusals are failed calls to Redis or the database, or a user
\* who is not active.
THEOREM RefusalsHaveReasons == MCSpec => []RefusedForAReason
<1>1. PartsIInv => RefusedForAReason
  BY DEF PartsIInv, RefusedForAReason, Sessions!IInv
<1>. QED BY <1>1, PartsInvariant, PTL
=============================================================================
