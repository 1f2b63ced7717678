------------------------------- MODULE Portal -------------------------------
(***************************************************************************)
(* The way into the client, in one browser tab: the router with its guard, *)
(* the login and registration form, the two sessions in localStorage, and  *)
(* the accounts on the server.  A login goes on after its form has gone:    *)
(* another form may be open by then, or a page of another session.         *)
(***************************************************************************)
EXTENDS Naturals

CONSTANTS Names,      \* user names somebody may type
          Admins,     \* those of the administrators
          Seeded,     \* the accounts of the seed
          Calls,      \* bound: form submissions on their way at once
          None

ASSUME AccountsAssumption == Admins \subseteq Seeded /\ Seeded \subseteq Names

(* A submission on its way, and whether its form is still there. *)
CallRow == [op : {"login", "adminLogin", "register", "enter"}, name : Names,
            step : {"ask", "granted", "refused", "timer"}, form : BOOLEAN]

ASSUME NoneAssumption == None \notin Names \cup CallRow

VARIABLES
    users,                    \* the server: accounts
    userToken, adminToken,    \* localStorage: who the tokens were signed for
    page,                     \* the route, and the state of the component there
    calls                     \* submissions that wait for an answer or a timer

session == <<userToken, adminToken>>
vars == <<users, session, page, calls>>

Auth == {"userAuth", "adminAuth"}     \* /auth with its ?mode=
Routes == Auth \cup {"user", "admin"}

RoleOf(name) == IF name \in Admins THEN "ADMIN" ELSE "USER"

-----------------------------------------------------------------------------
(* The router *)

(* Mutant of Guard: any session opens any page. *)
GuardAny(to, user, admin) ==
    [userAuth |-> IF user # None THEN "user" ELSE "userAuth",
     adminAuth |-> IF admin # None THEN "admin" ELSE "adminAuth",
     user |-> IF user # None \/ admin # None THEN "user" ELSE "userAuth",
     admin |-> IF user # None \/ admin # None THEN "admin" ELSE "adminAuth"][to]

(* beforeEach, for the tokens there are *)
Guard(to, user, admin) ==
    [userAuth |-> IF user # None THEN "user" ELSE "userAuth",
     adminAuth |-> IF admin # None THEN "admin" ELSE "adminAuth",
     user |-> IF user # None THEN "user" ELSE "userAuth",
     admin |-> IF admin # None THEN "admin" ELSE "adminAuth"][to]

(* Mutant of DriverOf: the page opens before its session is saved. *)
DriverOfBefore(route, user) == IF route = "user" THEN userToken ELSE None

(* UserDashboard reads user_id once. *)
DriverOf(route, user) == IF route = "user" THEN user ELSE None

Mounted(route, user) ==
    [at |-> route, tab |-> "login", loading |-> FALSE, driver |-> DriverOf(route, user)]

(* A change of mode keeps the form; a push to where one is does nothing. *)
Arrive(route, user) ==
    IF page.at = route THEN page
    ELSE IF {page.at, route} \subseteq Auth THEN [page EXCEPT !.at = route, !.tab = "login"]
    ELSE Mounted(route, user)

(* What a form has asked for goes on without it. *)
Orphaned(route) ==
    [c \in Calls |-> IF calls[c] # None /\ page.at \in Auth /\ route \notin Auth
                     THEN [calls[c] EXCEPT !.form = FALSE] ELSE calls[c]]

GoTo(to) ==
    LET route == Guard(to, userToken, adminToken)
    IN  page' = Arrive(route, userToken) /\ calls' = Orphaned(route)

-----------------------------------------------------------------------------
(* What the person in front of it does *)

SelectTab(tab) ==
    /\ page.at = "userAuth"
    /\ page' = [page EXCEPT !.tab = tab]
    /\ UNCHANGED <<users, session, calls>>

(* switchMode *)
SwitchMode(mode) ==
    /\ page.at \in Auth \ {mode}
    /\ GoTo(mode)
    /\ UNCHANGED <<users, session>>

(* Back and forward. *)
Visit(to) ==
    /\ GoTo(to)
    /\ UNCHANGED <<users, session>>

(* Another URL typed, or the page loaded again. *)
Reload(to) ==
    /\ page' = Mounted(Guard(to, userToken, adminToken), userToken)
    /\ calls' = [c \in Calls |-> None]
    /\ UNCHANGED <<users, session>>

(* Mutant of MaySubmitForm: the button stays enabled. *)
MaySubmitFormAgain == page.at \in Auth

MaySubmitForm == page.at \in Auth /\ ~page.loading

FormOp ==
    IF page.at = "adminAuth" THEN "adminLogin"
    ELSE IF page.tab = "register" THEN "register" ELSE "login"

(* handleFormSubmit *)
SubmitForm(c, name) ==
    /\ MaySubmitForm
    /\ calls[c] = None
    /\ calls' = [calls EXCEPT
          ![c] = [op |-> FormOp, name |-> name, step |-> "ask", form |-> TRUE]]
    /\ page' = [page EXCEPT !.loading = TRUE]
    /\ UNCHANGED <<users, session>>

(* logout of UserLayout, onLogout of AdminLayout *)
Logout ==
    /\ \/ /\ page.at = "user"
          /\ userToken' = None
          /\ UNCHANGED adminToken
          /\ page' = Arrive("userAuth", None)
       \/ /\ page.at = "admin"
          /\ adminToken' = None
          /\ UNCHANGED userToken
          /\ page' = Arrive("adminAuth", None)
    /\ UNCHANGED <<users, calls>>

-----------------------------------------------------------------------------
(* The server.  Whoever types a name may also mistype the password. *)

(* Mutant of Entitled: the administrator's login does not look at the role. *)
EntitledAll(op) == [login |-> users, enter |-> users, adminLogin |-> users,
                    register |-> Names \ users][op]

(* Whose request is granted: login, adminLogin, and a name not taken. *)
Entitled(op) == [login |-> users, enter |-> users, adminLogin |-> users \cap Admins,
                 register |-> Names \ users][op]

Handle(c) ==
    /\ calls[c] # None
    /\ calls[c].step = "ask"
    /\ \/ /\ calls[c].name \in Entitled(calls[c].op)
          /\ users' = users \cup {calls[c].name}
          /\ calls' = [calls EXCEPT ![c].step = "granted"]
       \/ /\ calls' = [calls EXCEPT ![c].step = "refused"]
          /\ UNCHANGED users
    /\ UNCHANGED <<session, page>>

-----------------------------------------------------------------------------
(* The answers *)

(* Mutant of Finally: only a success enables the button again. *)
FinallyOnSuccess(call) == page

(* isLoading = false, in the form that asked *)
Finally(call) == IF call.form THEN [page EXCEPT !.loading = FALSE] ELSE page

(* Mutant of SavesAdmin: by the mode that is shown when the answer comes. *)
SavesAdminNow(call) == page.at = "adminAuth"

(* handleLogin looks at the mode before it asks. *)
SavesAdmin(call) == call.op = "adminLogin"

Granted(c) == calls[c] # None /\ calls[c].step = "granted"

EnterAdmin(c) ==
    /\ Granted(c)
    /\ calls[c].op \in {"login", "adminLogin"} /\ SavesAdmin(calls[c])
    /\ adminToken' = calls[c].name
    /\ page' = Arrive("admin", userToken)
    /\ calls' = [Orphaned("admin") EXCEPT ![c] = None]
    /\ UNCHANGED <<users, userToken>>

EnterUser(c) ==
    /\ Granted(c)
    /\ calls[c].op \in {"login", "adminLogin"} /\ ~SavesAdmin(calls[c])
    /\ userToken' = calls[c].name
    /\ page' = Arrive("user", calls[c].name)
    /\ calls' = [Orphaned("user") EXCEPT ![c] = None]
    /\ UNCHANGED <<users, adminToken>>

(* handleRegister goes on with a login, by the name and password that the   *)
(* fields hold now: they stay open to typing, and switchMode refills them.  *)
LogInRegistered(c) ==
    /\ Granted(c)
    /\ calls[c].op = "register"
    /\ \E name \in Names :
          calls' = [calls EXCEPT ![c].op = "enter", ![c].step = "ask", ![c].name = name]
    /\ UNCHANGED <<users, session, page>>

(* saves its session, *)
SaveRegistered(c) ==
    /\ Granted(c)
    /\ calls[c].op = "enter"
    /\ userToken' = calls[c].name
    /\ page' = Finally(calls[c])
    /\ calls' = [calls EXCEPT ![c].step = "timer"]
    /\ UNCHANGED <<users, adminToken>>

(* and 600 ms later enters, wherever the tab is by then. *)
EnterLater(c) ==
    /\ calls[c] # None
    /\ calls[c].step = "timer"
    /\ LET route == Guard("user", userToken, adminToken)
       IN  /\ page' = Arrive(route, userToken)
           /\ calls' = [Orphaned(route) EXCEPT ![c] = None]
    /\ UNCHANGED <<users, session>>

(* The catch: a refusal, or a request that failed. *)
ShowFailure(c) ==
    /\ calls[c] # None
    /\ calls[c].step = "refused"
    /\ page' = Finally(calls[c])
    /\ calls' = [calls EXCEPT ![c] = None]
    /\ UNCHANGED <<users, session>>

(* The network loses a request or its answer. *)
Lose(c) ==
    /\ calls[c] # None
    /\ calls[c].step \in {"ask", "granted"}
    /\ calls' = [calls EXCEPT ![c].step = "refused"]
    /\ UNCHANGED <<users, session, page>>

-----------------------------------------------------------------------------

(* The tab is opened at any URL, with the sessions earlier visits left. *)
Init ==
    /\ users = Seeded
    /\ userToken \in {None} \cup Seeded
    /\ adminToken \in {None} \cup Admins
    /\ \E to \in Routes : page = Mounted(Guard(to, userToken, adminToken), userToken)
    /\ calls = [c \in Calls |-> None]

Respond(c) ==
    \/ EnterAdmin(c) \/ EnterUser(c) \/ LogInRegistered(c) \/ SaveRegistered(c)
    \/ EnterLater(c) \/ ShowFailure(c)

Next ==
    \/ \E to \in Routes : Visit(to) \/ Reload(to)
    \/ \E tab \in {"login", "register"} : SelectTab(tab)
    \/ \E mode \in Auth : SwitchMode(mode)
    \/ Logout
    \/ \E c \in Calls :
          \/ \E name \in Names : SubmitForm(c, name)
          \/ Handle(c) \/ Respond(c) \/ Lose(c)

Spec == Init /\ [][Next]_vars

(* Requests are handled, and answers and timers arrive; nobody has to act. *)
FairSpec == Spec /\ \A c \in Calls : WF_vars(Handle(c)) /\ WF_vars(Respond(c))

-----------------------------------------------------------------------------
(* Properties *)

\* Types of the tab's state; the administrator's token is one (adminLogin).
TypeOK ==
    /\ users \in SUBSET Names
    /\ userToken \in Names \cup {None}
    /\ adminToken \in Admins \cup {None}
    /\ page \in [at : Routes, tab : {"login", "register"}, loading : BOOLEAN,
                 driver : Names \cup {None}]
    /\ calls \in [Calls -> CallRow \cup {None}]

\* JwtAuthGuard and RolesGuard, for a request with a token.
Authorized(token, role) == token # None /\ token \in users /\ RoleOf(token) = role

\* Every request of the console is served: whatever forms are filled in and
\* whichever answers come late, the console is never left open without a token, nor
\* with one that RolesGuard turns away.
ConsoleServed == page.at = "admin" => Authorized(adminToken, "ADMIN")

\* The driver's page always has a session of an account that exists.
DriverHasSession == page.at = "user" => userToken \in users

\* The driver the page was opened for is the one its requests act for, until an
\* answer to a form that is gone brings another session.
Waiting(c) == calls[c] # None /\ calls[c].step # "timer"

PageActsForItsDriver ==
    [][page'.at = "user" /\ page'.driver # userToken' =>
          \/ page = page' /\ userToken = userToken'
          \/ \E c \in Calls : Waiting(c) /\ ~calls[c].form /\ userToken' = calls[c].name]_vars

\* The button is disabled exactly while the one request of this form is on its way.
LoadingIsOwn ==
    LET own == {c \in Calls : Waiting(c) /\ calls[c].form}
    IN  /\ page.loading <=> own # {}
        /\ \A c, other \in own : c = other

\* The form can be used again, however its request ends.
ButtonComesBack == page.loading ~> ~page.loading
=============================================================================
