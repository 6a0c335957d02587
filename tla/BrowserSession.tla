--------------------------- MODULE BrowserSession ---------------------------
(***************************************************************************)
(* Sessions in the browser: the login page and useAuth (hooks/use-auth.ts), *)
(* the cookies all tabs share, the middleware that guards each page it is   *)
(* asked for (middleware.ts), the pages there are (app/), and the API       *)
(* client, which leaves for the login page on a 401 (lib/api.ts).           *)
(*                                                                         *)
(* A load of a page is two steps: the middleware answers by the cookie of   *)
(* then, and the page mounts and reads the cookie of now.  A soft load      *)
(* keeps the tab's script, so calls under way are answered after it.  The   *)
(* server answers with the fields AuthResponse names; the Go backend wraps  *)
(* them, and the client does not look inside.                               *)
(***************************************************************************)
CONSTANT Tab

VARIABLES
    accessToken,    \* a cookie: the role in the token, or "none"
    expired,        \* the token's exp has passed
    refreshToken,   \* that cookie holds a token that is good
    page,           \* what each tab shows
    load,           \* the load each tab waits for
    user,           \* what useAuth made of the cookie when the page was mounted
    login,          \* the login page's call: the role of who logs in, or "idle"
    request,        \* a call of a page to the API is under way
    changed         \* history: a login of some tab was answered since the page was mounted

cookies == <<accessToken, expired, refreshToken>>
vars == <<cookies, page, load, user, login, request, changed>>

UserRole == {"owner", "manager", "employee"}
Path == {"/", "/landing", "/login", "/admin", "/operario", "/suscriptores", "/suscriptores/id"}

\* app/: the groups in parentheses are no part of a path; / sends on to /landing, and at
\* /admin, the home of owners and managers, there is no page but Next's own for a 404.
AdminLayout == {"/suscriptores", "/suscriptores/id"}

\* The pages that name the user.
Named == AdminLayout \cup {"/operario"}

\* The public paths, and a single segment that no role's area has: a tenant's landing page.
Public == {"/", "/login"} \cup {"/landing", "/suscriptores"}

routeRoles == [p \in {"/admin", "/operario"} |->
                  IF p = "/admin" THEN {"owner", "manager"} ELSE UserRole]
Allowed(path) == IF path \in DOMAIN routeRoles THEN routeRoles[path] ELSE UserRole

NoLoad == [pc |-> "none"]
Asked(path, soft) == [pc |-> "asked", path |-> path, soft |-> soft]

\* decodeJWT: a role, or nothing.
Payload == accessToken
Live == Payload # "none" /\ ~expired

RedirectPath(role) == IF role = "employee" THEN "/operario" ELSE "/admin"

Init ==
    /\ accessToken = "none" /\ expired = FALSE /\ refreshToken = FALSE
    /\ page = [t \in Tab |-> "/landing"]
    /\ load = [t \in Tab |-> NoLoad]
    /\ user = [t \in Tab |-> "none"]
    /\ login = [t \in Tab |-> "idle"]
    /\ request = [t \in Tab |-> FALSE]
    /\ changed = [t \in Tab |-> FALSE]

-----------------------------------------------------------------------------
(***************************************************************************)
(* Loads.                                                                   *)
(***************************************************************************)
\* A hard load ends whatever the tab was doing.
Leave(t, path, soft) ==
    /\ load' = [load EXCEPT ![t] = Asked(path, soft)]
    /\ login' = IF soft THEN login ELSE [login EXCEPT ![t] = "idle"]
    /\ request' = IF soft THEN request ELSE [request EXCEPT ![t] = FALSE]

\* A link of the sidebar or of a page, the address bar or the back button.
Navigate(t, path, soft) ==
    /\ load[t] = NoLoad
    /\ Leave(t, path, soft)
    /\ UNCHANGED <<cookies, page, user, changed>>

\* middleware: a public page, or one the token's role may see.
Serve(t) ==
    /\ load[t].pc = "asked"
    /\ \/ load[t].path \in Public
       \/ load[t].path \notin Public /\ Live /\ Payload \in Allowed(load[t].path)
    /\ load' = [load EXCEPT ![t].pc = "served"]
    /\ UNCHANGED <<cookies, page, user, login, request, changed>>

\* No token, one that cannot be read, or one that has expired: the cookie goes.
RedirectToLogin(t) ==
    /\ load[t].pc = "asked" /\ load[t].path \notin Public
    /\ ~Live
    /\ load' = [load EXCEPT ![t] = Asked("/login", load[t].soft)]
    /\ accessToken' = "none" /\ expired' = FALSE
    /\ UNCHANGED <<refreshToken, page, user, login, request, changed>>

\* To the home of the role.
RedirectToHome(t) ==
    /\ load[t].pc = "asked" /\ load[t].path \notin Public
    /\ Live /\ Payload \notin Allowed(load[t].path)
    /\ load' = [load EXCEPT ![t] = Asked(RedirectPath(Payload), load[t].soft)]
    /\ UNCHANGED <<cookies, page, user, login, request, changed>>

\* Home: the root has no page of its own.
RedirectToLanding(t) ==
    /\ load[t].pc = "served" /\ load[t].path = "/"
    /\ load' = [load EXCEPT ![t] = Asked("/landing", load[t].soft)]
    /\ UNCHANGED <<cookies, page, user, login, request, changed>>

\* A mutant: a soft load mounts nothing again.
KeptAlways(t) == load[t].soft

\* A soft load within the layout keeps the sidebar, and a link to the page one is on the page.
Kept(t) ==
    /\ load[t].soft
    /\ load[t].path = page[t] \/ {load[t].path, page[t]} \subseteq AdminLayout

\* useAuth's memo is made when the component that calls it mounts.
Mount(t) ==
    /\ load[t].pc = "served" /\ load[t].path # "/"
    /\ page' = [page EXCEPT ![t] = load[t].path]
    /\ user' = IF Kept(t) THEN user ELSE [user EXCEPT ![t] = Payload]
    /\ changed' = IF Kept(t) THEN changed ELSE [changed EXCEPT ![t] = FALSE]
    /\ load' = [load EXCEPT ![t] = NoLoad]
    /\ UNCHANGED <<cookies, login, request>>

-----------------------------------------------------------------------------
(***************************************************************************)
(* Logging in and out.                                                      *)
(***************************************************************************)
\* The form's inputs and its button are disabled while a call is under way.
FormReady(t) == page[t] = "/login" /\ login[t] = "idle"

\* A form that is filled in; any other gets no further than its message.  The tab may be
\* sent elsewhere before the answer, but is on its way nowhere when the form is sent.
HandleSubmit(t, role) ==
    /\ FormReady(t)
    /\ load[t] = NoLoad
    /\ login' = [login EXCEPT ![t] = role]
    /\ UNCHANGED <<cookies, page, load, user, request, changed>>

\* The server accepts: the cookies are set, and the role leads home.
LoginOk(t) ==
    /\ login[t] # "idle"
    /\ login' = [login EXCEPT ![t] = "idle"]
    /\ accessToken' = login[t] /\ expired' = FALSE /\ refreshToken' = TRUE
    /\ load' = [load EXCEPT ![t] = Asked(RedirectPath(login[t]), TRUE)]
    /\ changed' = [u \in Tab |-> changed[u] \/ page[u] \in Named]
    /\ UNCHANGED <<page, user, request>>

\* Wrong credentials, a locked account or too many attempts.
LoginFails(t) ==
    /\ login[t] # "idle"
    /\ login' = [login EXCEPT ![t] = "idle"]
    /\ UNCHANGED <<cookies, page, load, user, request, changed>>

\* The sidebar's button.  The server is not told.
Logout(t) ==
    /\ page[t] \in AdminLayout /\ load[t] = NoLoad
    /\ accessToken' = "none" /\ expired' = FALSE /\ refreshToken' = FALSE
    /\ load' = [load EXCEPT ![t] = Asked("/login", TRUE)]
    /\ UNCHANGED <<page, user, login, request, changed>>

\* 15 minutes pass; nothing calls useAuth's refreshToken.
Expire ==
    /\ Payload # "none" /\ ~expired
    /\ expired' = TRUE
    /\ UNCHANGED <<accessToken, refreshToken, page, load, user, login, request, changed>>

-----------------------------------------------------------------------------
(***************************************************************************)
(* Calls of the pages to the API.                                           *)
(***************************************************************************)
\* A query of the page, or the sidebar's prefetch.
Call(t) ==
    /\ page[t] \in Named /\ load[t] = NoLoad
    /\ ~request[t]
    /\ request' = [request EXCEPT ![t] = TRUE]
    /\ UNCHANGED <<cookies, page, load, user, login, changed>>

\* Success, or an error other than 401.
Answer(t) ==
    /\ request[t]
    /\ request' = [request EXCEPT ![t] = FALSE]
    /\ UNCHANGED <<cookies, page, load, user, login, changed>>

\* The client sends no token, so a 401 says nothing about the session.
Unauthorized(t) ==
    /\ request[t]
    /\ Leave(t, "/login", FALSE)
    /\ UNCHANGED <<cookies, page, user, changed>>

Next ==
    \/ \E t \in Tab, path \in Path, soft \in BOOLEAN : Navigate(t, path, soft)
    \/ \E t \in Tab, role \in UserRole : HandleSubmit(t, role)
    \/ \E t \in Tab : \/ Serve(t) \/ RedirectToLogin(t) \/ RedirectToHome(t)
                      \/ RedirectToLanding(t) \/ Mount(t)
                      \/ LoginOk(t) \/ LoginFails(t) \/ Logout(t)
                      \/ Call(t) \/ Answer(t) \/ Unauthorized(t)
    \/ Expire

Spec == Init /\ [][Next]_vars

\* The server answers each request for a page, and the browser shows it.
FairSpec ==
    /\ Spec
    /\ \A t \in Tab : /\ WF_vars(Serve(t) \/ RedirectToLogin(t) \/ RedirectToHome(t))
                      /\ WF_vars(Mount(t) \/ RedirectToLanding(t))

-----------------------------------------------------------------------------
\* Whom a page names, and books its washes on, is who is logged in, however pages were
\* left and returned to, unless a login was answered while it was shown: the memo is made
\* once, and the login of another tab, or a late one of this tab, changes the cookie under
\* it.  Nothing else does, and no page keeps the memo of a user of before.
UserIsLoggedIn ==
    \A t \in Tab : page[t] \in Named /\ Payload # "none" /\ ~changed[t] => user[t] = Payload

TypeOK ==
    /\ accessToken \in UserRole \cup {"none"}
    /\ expired \in BOOLEAN /\ refreshToken \in BOOLEAN
    /\ page \in [Tab -> Path]
    /\ load \in [Tab -> {NoLoad} \cup [pc : {"asked", "served"}, path : Path, soft : BOOLEAN]]
    /\ user \in [Tab -> UserRole \cup {"none"}]
    /\ login \in [Tab -> UserRole \cup {"idle"}]
    /\ request \in [Tab -> BOOLEAN] /\ changed \in [Tab -> BOOLEAN]

IInv == TypeOK /\ UserIsLoggedIn

\* Every load ends in a page, though redirects follow redirects and the token expires
\* meanwhile; an endless chain would be a blank tab.
LoadsEnd == \A t \in Tab : load[t] # NoLoad ~> load[t] = NoLoad
=============================================================================
