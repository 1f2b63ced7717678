---------------------------- MODULE PortalProofs ----------------------------
(***************************************************************************)
(* Proofs about Portal, for any accounts and any number of submissions on  *)
(* their way at once.                                                      *)
(***************************************************************************)
EXTENDS Portal, TLAPS

(* What the server granted is an account's, and the sessions are those of  *)
(* accounts.                                                               *)
Accounts ==
    /\ userToken \in users \cup {None}
    /\ adminToken \in users \cup {None}
    /\ \A c \in Calls :
          calls[c] # None /\ calls[c].step = "granted" =>
             /\ calls[c].op # "register" => calls[c].name \in users
             /\ calls[c].op = "adminLogin" => calls[c].name \in Admins

PagesOpen ==
    /\ page.at = "user" => userToken # None
    /\ page.at = "admin" => adminToken # None

(* Only a form that is there counts as one. *)
FormsThere == \A c \in Calls : calls[c] # None /\ calls[c].form => page.at \in Auth

Inv == TypeOK /\ Accounts /\ PagesOpen /\ FormsThere

(* The guard lets nobody through without the token of the page, and where  *)
(* it sends one, it leaves one.                                            *)
LEMMA GuardSettles ==
    ASSUME NEW to \in Routes, NEW user, NEW admin
    PROVE  LET route == Guard(to, user, admin)
           IN  /\ route \in Routes
               /\ Guard(route, user, admin) = route
               /\ route = "user" => user # None
               /\ route = "admin" => admin # None
  <1>1. CASE to = "userAuth" BY <1>1 DEF Guard, Routes, Auth
  <1>2. CASE to = "adminAuth" BY <1>2 DEF Guard, Routes, Auth
  <1>3. CASE to = "user" BY <1>3 DEF Guard, Routes, Auth
  <1>4. CASE to = "admin" BY <1>4 DEF Guard, Routes, Auth
  <1> QED BY <1>1, <1>2, <1>3, <1>4 DEF Routes, Auth

-----------------------------------------------------------------------------
(* What a move of the page keeps *)

\* A request on its way has the fields of one.
LEMMA RowOfCall ==
    ASSUME TypeOK, NEW c \in Calls, calls[c] # None
    PROVE  calls[c] \in CallRow
  BY DEF TypeOK

\* Where the router puts the page, there is a page.
LEMMA ArriveTypes ==
    ASSUME TypeOK, NEW route \in Routes, NEW user \in Names \cup {None}
    PROVE  /\ Arrive(route, user) \in [at : Routes, tab : {"login", "register"},
                                      loading : BOOLEAN, driver : Names \cup {None}]
           /\ Mounted(route, user) \in [at : Routes, tab : {"login", "register"},
                                       loading : BOOLEAN, driver : Names \cup {None}]
           /\ Arrive(route, user).at = route
           /\ Mounted(route, user).at = route
  <1>1. page \in [at : Routes, tab : {"login", "register"}, loading : BOOLEAN,
                  driver : Names \cup {None}]
    BY DEF TypeOK
  <1>2. DriverOf(route, user) \in Names \cup {None}
    BY DEF DriverOf
  <1> QED BY <1>1, <1>2 DEF Arrive, Mounted

\* Leaving the forms only takes the form from a request, never the request.
LEMMA OrphanedCalls ==
    ASSUME TypeOK, NEW route \in Routes
    PROVE  /\ Orphaned(route) \in [Calls -> CallRow \cup {None}]
           /\ \A c \in Calls :
                 /\ Orphaned(route)[c] # None => calls[c] # None
                 /\ calls[c] = None => Orphaned(route)[c] = None
                 /\ Orphaned(route)[c] # None =>
                       /\ Orphaned(route)[c].op = calls[c].op
                       /\ Orphaned(route)[c].name = calls[c].name
                       /\ Orphaned(route)[c].step = calls[c].step
                       /\ Orphaned(route)[c].form =>
                             calls[c].form /\ ~(page.at \in Auth /\ route \notin Auth)
                       /\ calls[c].form /\ ~(page.at \in Auth /\ route \notin Auth) =>
                             Orphaned(route)[c].form
  <1> SUFFICES ASSUME NEW c \in Calls
               PROVE  /\ Orphaned(route)[c] \in CallRow \cup {None}
                      /\ Orphaned(route)[c] # None => calls[c] # None
                      /\ calls[c] = None => Orphaned(route)[c] = None
                      /\ Orphaned(route)[c] # None =>
                            /\ Orphaned(route)[c].op = calls[c].op
                            /\ Orphaned(route)[c].name = calls[c].name
                            /\ Orphaned(route)[c].step = calls[c].step
                            /\ Orphaned(route)[c].form =>
                                  calls[c].form /\ ~(page.at \in Auth /\ route \notin Auth)
                            /\ calls[c].form /\ ~(page.at \in Auth /\ route \notin Auth) =>
                                  Orphaned(route)[c].form
    BY DEF Orphaned
  <1>1. CASE calls[c] = None
    BY <1>1 DEF Orphaned
  <1>2. CASE calls[c] # None
    <2>1. calls[c] \in CallRow
      BY <1>2, RowOfCall
    <2>2. CASE page.at \in Auth /\ route \notin Auth
      BY <1>2, <2>1, <2>2 DEF Orphaned, CallRow
    <2>3. CASE ~(page.at \in Auth /\ route \notin Auth)
      BY <1>2, <2>1, <2>3 DEF Orphaned, CallRow
    <2> QED BY <2>2, <2>3
  <1> QED BY <1>1, <1>2

-----------------------------------------------------------------------------
(* The induction *)

LEMMA InitInv == Init => Inv
  <1> SUFFICES ASSUME Init PROVE Inv
    OBVIOUS
  <1>1. PICK to \in Routes : page = Mounted(Guard(to, userToken, adminToken), userToken)
    BY DEF Init
  <1> DEFINE route == Guard(to, userToken, adminToken)
  <1>2. /\ route \in Routes
        /\ route = "user" => userToken # None
        /\ route = "admin" => adminToken # None
    BY GuardSettles
  <1>3. userToken \in Names \cup {None} /\ adminToken \in Admins \cup {None}
    BY AccountsAssumption DEF Init
  <1>4. TypeOK
    BY <1>1, <1>2, <1>3, AccountsAssumption DEF Init, TypeOK, Mounted, DriverOf
  <1>5. Accounts
    BY AccountsAssumption DEF Init, Accounts
  <1>6. PagesOpen
    BY <1>1, <1>2 DEF PagesOpen, Mounted
  <1>7. FormsThere
    BY DEF Init, FormsThere
  <1> QED BY <1>4, <1>5, <1>6, <1>7 DEF Inv

(* A move through the guard. *)
LEMMA MoveKeeps ==
    ASSUME Inv, NEW to \in Routes, GoTo(to), UNCHANGED <<users, session>>
    PROVE  Inv'
  <1> DEFINE route == Guard(to, userToken, adminToken)
  <1>1. /\ route \in Routes
        /\ route = "user" => userToken # None
        /\ route = "admin" => adminToken # None
    BY GuardSettles
  <1>2. page' = Arrive(route, userToken) /\ calls' = Orphaned(route)
    BY DEF GoTo
  <1>3. TypeOK
    BY DEF Inv
  <1> HIDE DEF route
  <1>4. page'.at = route /\ TypeOK'
    BY <1>1, <1>2, <1>3, ArriveTypes, OrphanedCalls DEF TypeOK, session
  <1>5. Accounts'
    BY <1>1, <1>2, <1>3, OrphanedCalls DEF Inv, Accounts, session
  <1>6. PagesOpen'
    BY <1>1, <1>4 DEF PagesOpen, session
  <1>7. FormsThere'
    BY <1>1, <1>2, <1>3, <1>4, OrphanedCalls DEF Inv, FormsThere
  <1> QED BY <1>4, <1>5, <1>6, <1>7 DEF Inv

(* A submission that moves on, while page and sessions stay. *)
LEMMA CallKeeps ==
    ASSUME Inv, NEW c \in Calls, NEW row \in CallRow \cup {None},
           calls' = [calls EXCEPT ![c] = row],
           row # None => /\ calls[c] # None
                         /\ row.form => calls[c].form
                         /\ row.step = "granted" =>
                               /\ row.op # "register" => row.name \in users'
                               /\ row.op = "adminLogin" => row.name \in Admins,
           users' \in SUBSET Names, users \subseteq users',
           UNCHANGED session,
           page' \in {page, [page EXCEPT !.loading = FALSE]}
    PROVE  Inv'
  <1>1. calls \in [Calls -> CallRow \cup {None}]
    BY DEF Inv, TypeOK
  <1>2. page'.at = page.at /\ TypeOK'
    BY <1>1 DEF Inv, TypeOK, session
  <1>3. \A d \in Calls : calls'[d] = IF d = c THEN row ELSE calls[d]
    BY <1>1
  <1>4. Accounts'
    BY <1>3 DEF Inv, Accounts, session
  <1>5. PagesOpen'
    BY <1>2 DEF Inv, PagesOpen, session
  <1>6. FormsThere'
    BY <1>2, <1>3 DEF Inv, FormsThere
  <1> QED BY <1>2, <1>4, <1>5, <1>6 DEF Inv

(* A granted login: its session is saved, and its page opens. *)
LEMMA EntryKeeps ==
    ASSUME Inv, NEW c \in Calls, EnterAdmin(c) \/ EnterUser(c)
    PROVE  Inv'
  <1>1. TypeOK /\ calls[c] \in CallRow /\ calls[c].step = "granted"
    BY RowOfCall DEF Inv, EnterAdmin, EnterUser, Granted
  <1>2. ASSUME NEW route \in {"user", "admin"}, page' = Arrive(route, userToken'),
               calls' = [Orphaned(route) EXCEPT ![c] = None],
               userToken' \in users \cup {None}, adminToken' \in (users \cap Admins) \cup {None},
               route = "user" => userToken' # None, route = "admin" => adminToken' # None,
               users' = users
        PROVE  Inv'
    <2>1. users \subseteq Names /\ route \in Routes /\ route \notin Auth
      BY <1>1, <1>2 DEF TypeOK, Routes, Auth
    <2>2. /\ page'.at = route
          /\ page' \in [at : Routes, tab : {"login", "register"}, loading : BOOLEAN,
                        driver : Names \cup {None}]
      BY <1>1, <1>2, <2>1, ArriveTypes
    <2>3. calls' \in [Calls -> CallRow \cup {None}]
      BY <1>1, <1>2, <2>1, OrphanedCalls
    <2>4. \A d \in Calls : calls'[d] # None =>
             /\ d # c /\ calls'[d] = Orphaned(route)[d]
      BY <1>1, <1>2, <2>1, OrphanedCalls
    <2>5. TypeOK'
      BY <1>1, <1>2, <2>1, <2>2, <2>3 DEF TypeOK
    <2>6. Accounts'
      BY <1>1, <1>2, <2>1, <2>4, OrphanedCalls DEF Inv, Accounts
    <2>7. PagesOpen'
      BY <1>2, <2>2 DEF PagesOpen
    <2>8. FormsThere'
      <3> SUFFICES ASSUME NEW d \in Calls, calls'[d] # None, calls'[d].form
                   PROVE  FALSE
        BY DEF FormsThere
      <3>1. Orphaned(route)[d] # None /\ Orphaned(route)[d].form
        BY <2>4
      <3>2. calls[d] # None /\ calls[d].form /\ page.at \notin Auth
        BY <1>1, <2>1, <3>1, OrphanedCalls
      <3> QED BY <3>2 DEF Inv, FormsThere
    <2> QED BY <2>5, <2>6, <2>7, <2>8 DEF Inv
  <1>3. CASE EnterAdmin(c)
    <2>1. calls[c].op # "register"
      BY <1>3 DEF EnterAdmin
    <2>2. calls[c].name \in users \cap Admins
      BY <1>1, <1>3, <2>1, NoneAssumption DEF Inv, Accounts, EnterAdmin, SavesAdmin, Granted
    <2>3. calls[c].name # None
      BY <1>1, NoneAssumption DEF CallRow
    <2>4. userToken \in users \cup {None}
      BY DEF Inv, Accounts
    <2> QED BY <1>2, <1>3, <2>2, <2>3, <2>4 DEF EnterAdmin
  <1>4. CASE EnterUser(c)
    <2>1. calls[c].op # "register"
      BY <1>4 DEF EnterUser
    <2>2. calls[c].name \in users
      BY <1>1, <1>4, <2>1 DEF Inv, Accounts, EnterUser, Granted
    <2>3. calls[c].name # None
      BY <1>1, NoneAssumption DEF CallRow
    <2>4. adminToken \in (users \cap Admins) \cup {None}
      BY DEF Inv, Accounts, TypeOK
    <2> QED BY <1>2, <1>4, <2>2, <2>3, <2>4 DEF EnterUser
  <1> QED BY <1>3, <1>4

\* Every step of the portal keeps the invariant.
LEMMA NextKeeps == Inv /\ [Next]_vars => Inv'
  <1> SUFFICES ASSUME Inv, [Next]_vars PROVE Inv'
    OBVIOUS
  <1> USE DEF session
  <1>1. TypeOK /\ users \in SUBSET Names
    BY DEF Inv, TypeOK
  <1>2. ASSUME NEW to \in Routes, Visit(to) PROVE Inv'
    BY <1>2, MoveKeeps DEF Visit
  <1>3. ASSUME NEW mode \in Auth, SwitchMode(mode) PROVE Inv'
    BY <1>3, MoveKeeps DEF SwitchMode, Routes
  <1>4. ASSUME NEW to \in Routes, Reload(to) PROVE Inv'
    <2> DEFINE route == Guard(to, userToken, adminToken)
    <2>1. /\ route \in Routes
          /\ route = "user" => userToken # None
          /\ route = "admin" => adminToken # None
      BY GuardSettles
    <2>2. page' = Mounted(route, userToken) /\ calls' = [d \in Calls |-> None]
      BY <1>4 DEF Reload
    <2>3. UNCHANGED <<users, session>>
      BY <1>4 DEF Reload
    <2> HIDE DEF route
    <2>4. page'.at = route /\ TypeOK'
      BY <1>1, <2>1, <2>2, <2>3, ArriveTypes DEF TypeOK
    <2>5. Accounts' /\ PagesOpen' /\ FormsThere'
      BY <2>1, <2>2, <2>3, <2>4 DEF Inv, Accounts, PagesOpen, FormsThere
    <2> QED BY <2>4, <2>5 DEF Inv
  <1>5. ASSUME NEW tab \in {"login", "register"}, SelectTab(tab) PROVE Inv'
    <2>1. page'.at = page.at /\ TypeOK'
      BY <1>1, <1>5 DEF SelectTab, TypeOK
    <2>2. Accounts' /\ PagesOpen' /\ FormsThere'
      BY <1>5, <2>1 DEF SelectTab, Inv, Accounts, PagesOpen, FormsThere
    <2> QED BY <2>1, <2>2 DEF Inv
  <1>6. CASE Logout
    <2>1. PICK route \in Auth :
             /\ page' = Arrive(route, None)
             /\ calls' = calls /\ users' = users /\ page.at \notin Auth
             /\ userToken' \in {userToken, None} /\ adminToken' \in {adminToken, None}
      BY <1>6 DEF Logout, Auth
    <2>2. page'.at = route /\ TypeOK'
      BY <1>1, <2>1, ArriveTypes DEF TypeOK, Routes
    <2>3. Accounts' /\ PagesOpen' /\ FormsThere'
      BY <2>1, <2>2 DEF Inv, Accounts, PagesOpen, FormsThere, Auth
    <2> QED BY <2>2, <2>3 DEF Inv
  <1>7. ASSUME NEW c \in Calls, NEW name \in Names, SubmitForm(c, name) PROVE Inv'
    <2> DEFINE row == [op |-> FormOp, name |-> name, step |-> "ask", form |-> TRUE]
    <2>1. row \in CallRow /\ page.at \in Auth
      BY <1>7 DEF CallRow, FormOp, SubmitForm, MaySubmitForm
    <2>2. \A d \in Calls : calls'[d] = IF d = c THEN row ELSE calls[d]
      BY <1>1, <1>7 DEF SubmitForm, TypeOK
    <2>3. page'.at = page.at /\ TypeOK'
      BY <1>1, <1>7, <2>1 DEF SubmitForm, TypeOK
    <2>4. Accounts' /\ PagesOpen' /\ FormsThere'
      BY <1>7, <2>1, <2>2, <2>3 DEF SubmitForm, Inv, Accounts, PagesOpen, FormsThere
    <2> QED BY <2>3, <2>4 DEF Inv
  <1>8. ASSUME NEW c \in Calls, Handle(c) PROVE Inv'
    <2>1. calls[c] # None /\ calls[c] \in CallRow
      BY <1>1, <1>8, RowOfCall DEF Handle
    <2>2. calls[c].op = "adminLogin" /\ calls[c].name \in Entitled(calls[c].op)
             => calls[c].name \in Admins
      BY DEF Entitled
    <2>3. CASE calls' = [calls EXCEPT ![c].step = "granted"]
               /\ users' = users \cup {calls[c].name}
               /\ calls[c].name \in Entitled(calls[c].op)
      <3>1. [calls[c] EXCEPT !.step = "granted"] \in CallRow
        BY <2>1 DEF CallRow
      <3>2. users' \in SUBSET Names
        BY <1>1, <2>1, <2>3 DEF CallRow
      <3> QED BY <1>8, <2>1, <2>2, <2>3, <3>1, <3>2, CallKeeps DEF Handle, CallRow
    <2>4. CASE calls' = [calls EXCEPT ![c].step = "refused"] /\ users' = users
      <3>1. [calls[c] EXCEPT !.step = "refused"] \in CallRow
        BY <2>1 DEF CallRow
      <3> QED BY <1>1, <1>8, <2>1, <2>4, <3>1, CallKeeps DEF Handle, CallRow
    <2> QED BY <1>8, <2>3, <2>4 DEF Handle
  <1>9. ASSUME NEW c \in Calls, EnterAdmin(c) \/ EnterUser(c) PROVE Inv'
    BY <1>9, EntryKeeps
  <1>10. ASSUME NEW c \in Calls, LogInRegistered(c) PROVE Inv'
    <2>1. calls[c] # None /\ calls[c] \in CallRow
      BY <1>1, <1>10, RowOfCall DEF LogInRegistered, Granted
    <2>2. PICK name \in Names :
             calls' = [calls EXCEPT ![c].op = "enter", ![c].step = "ask", ![c].name = name]
      BY <1>10 DEF LogInRegistered
    <2>3. [calls[c] EXCEPT !.op = "enter", !.step = "ask", !.name = name] \in CallRow
      BY <2>1 DEF CallRow
    <2>4. calls' = [calls EXCEPT
                      ![c] = [calls[c] EXCEPT !.op = "enter", !.step = "ask", !.name = name]]
      BY <1>1, <1>10, <2>2 DEF TypeOK
    <2> QED BY <1>1, <1>10, <2>1, <2>3, <2>4, CallKeeps DEF LogInRegistered, CallRow
  <1>11. ASSUME NEW c \in Calls, SaveRegistered(c) PROVE Inv'
    <2>1. calls[c] # None /\ calls[c] \in CallRow /\ calls[c].name \in users
      BY <1>1, <1>11, RowOfCall DEF SaveRegistered, Granted, Inv, Accounts
    <2>2. \A d \in Calls : calls'[d] = IF d = c THEN [calls[c] EXCEPT !.step = "timer"]
                                      ELSE calls[d]
      BY <1>1, <1>11 DEF SaveRegistered, TypeOK
    <2>3. [calls[c] EXCEPT !.step = "timer"] \in CallRow
      BY <2>1 DEF CallRow
    <2>4. page'.at = page.at /\ TypeOK'
      BY <1>1, <1>11, <2>1, <2>3 DEF SaveRegistered, Finally, TypeOK
    <2>5. Accounts'
      BY <1>11, <2>1, <2>2, <2>3 DEF SaveRegistered, Inv, Accounts, CallRow
    <2>6. PagesOpen'
      BY <1>11, <2>1, <2>4, NoneAssumption DEF SaveRegistered, Inv, PagesOpen, CallRow
    <2>7. FormsThere'
      BY <2>1, <2>2, <2>4 DEF Inv, FormsThere, CallRow
    <2> QED BY <2>4, <2>5, <2>6, <2>7 DEF Inv
  <1>12. ASSUME NEW c \in Calls, EnterLater(c) PROVE Inv'
    <2> DEFINE route == Guard("user", userToken, adminToken)
    <2>1. /\ route \in Routes
          /\ route = "user" => userToken # None
          /\ route = "admin" => adminToken # None
      BY GuardSettles DEF Routes
    <2>2. page' = Arrive(route, userToken) /\ calls' = [Orphaned(route) EXCEPT ![c] = None]
      BY <1>12 DEF EnterLater
    <2>3. UNCHANGED <<users, session>>
      BY <1>12 DEF EnterLater
    <2> HIDE DEF route
    <2>4. \A d \in Calls : calls'[d] # None => d # c /\ calls'[d] = Orphaned(route)[d]
      BY <1>1, <2>1, <2>2, OrphanedCalls
    <2>5. page'.at = route /\ TypeOK'
      BY <1>1, <2>1, <2>2, <2>3, ArriveTypes, OrphanedCalls DEF TypeOK
    <2>6. Accounts'
      BY <1>1, <2>1, <2>3, <2>4, OrphanedCalls DEF Inv, Accounts
    <2>7. PagesOpen'
      BY <2>1, <2>3, <2>5 DEF PagesOpen
    <2>8. FormsThere'
      BY <1>1, <2>1, <2>4, <2>5, OrphanedCalls DEF Inv, FormsThere
    <2> QED BY <2>5, <2>6, <2>7, <2>8 DEF Inv
  <1>13. ASSUME NEW c \in Calls, ShowFailure(c) PROVE Inv'
    BY <1>1, <1>13, CallKeeps DEF ShowFailure, Finally
  <1>14. ASSUME NEW c \in Calls, Lose(c) PROVE Inv'
    <2>1. calls[c] # None /\ calls[c] \in CallRow
      BY <1>1, <1>14, RowOfCall DEF Lose
    <2>2. [calls[c] EXCEPT !.step = "refused"] \in CallRow
      BY <2>1 DEF CallRow
    <2> QED BY <1>1, <1>14, <2>1, <2>2, CallKeeps DEF Lose, CallRow
  <1>15. CASE UNCHANGED vars
    BY <1>15 DEF vars, Inv, TypeOK, Accounts, PagesOpen, FormsThere
  <1> QED BY <1>2, <1>3, <1>4, <1>5, <1>6, <1>7, <1>8, <1>9, <1>10, <1>11, <1>12, <1>13,
             <1>14, <1>15 DEF Next, Respond

\* The invariant of the portal holds.
LEMMA InvHolds == Spec => []Inv
  BY InitInv, NextKeeps, PTL DEF Spec

-----------------------------------------------------------------------------
(* The results *)

\* Types, and the administrator's token in the administrator's slot.
THEOREM TypeHolds == Spec => []TypeOK
  BY InvHolds, PTL DEF Inv

\* The console is never open without a token that RolesGuard accepts.
THEOREM ConsoleServedHolds == Spec => []ConsoleServed
  <1>1. Inv => ConsoleServed
    BY NoneAssumption DEF Inv, TypeOK, Accounts, PagesOpen, ConsoleServed, Authorized, RoleOf
  <1> QED BY <1>1, InvHolds, PTL

\* The driver's page is never open without the session of an account.
THEOREM DriverSessionHolds == Spec => []DriverHasSession
  <1>1. Inv => DriverHasSession
    BY DEF Inv, Accounts, PagesOpen, DriverHasSession
  <1> QED BY <1>1, InvHolds, PTL

(* One step of PageActsForItsDriver. *)
ActsForItsDriver ==
    page'.at = "user" /\ page'.driver # userToken' =>
        \/ page = page' /\ userToken = userToken'
        \/ \E c \in Calls : Waiting(c) /\ ~calls[c].form /\ userToken' = calls[c].name

(* Wherever a page opens, it opens for the session there is. *)
LEMMA ArriveActs ==
    ASSUME TypeOK, NEW route \in Routes, NEW user,
           page' \in {Arrive(route, user), Mounted(route, user)},
           page'.at = "user", page'.driver # user
    PROVE  page' = page
  <1>1. Mounted(route, user).driver # user => Mounted(route, user).at # "user"
    BY DEF Mounted, DriverOf
  <1>2. \/ Arrive(route, user) = page
        \/ Arrive(route, user) = Mounted(route, user)
        \/ /\ Arrive(route, user) = [page EXCEPT !.at = route, !.tab = "login"]
           /\ route \in Auth
    BY DEF Arrive
  <1>3. route \in Auth => [page EXCEPT !.at = route, !.tab = "login"].at # "user"
    BY DEF Auth, TypeOK
  <1> QED BY <1>1, <1>2, <1>3

\* A driver's page acts for the driver it was opened for, until a late answer to a
\* form that is gone brings another session.
THEOREM PageActsHolds == Spec => PageActsForItsDriver
  <1>1. ASSUME Inv, [Next]_vars PROVE [ActsForItsDriver]_vars
    <2> SUFFICES ASSUME page'.at = "user", page'.driver # userToken'
                 PROVE  \/ page = page' /\ userToken = userToken'
                        \/ \E c \in Calls : Waiting(c) /\ ~calls[c].form
                                             /\ userToken' = calls[c].name
      BY DEF ActsForItsDriver
    <2> USE <1>1 DEF session
    <2>1. TypeOK
      BY DEF Inv
    <2>2. ASSUME NEW to \in Routes, GoTo(to) \/ Reload(to), UNCHANGED userToken
          PROVE  page = page'
      BY <2>1, <2>2, GuardSettles, ArriveActs DEF GoTo, Reload
    <2>3. ASSUME NEW c \in Calls, EnterLater(c) PROVE page = page' /\ userToken = userToken'
      BY <2>1, <2>3, GuardSettles, ArriveActs DEF EnterLater, Routes
    <2>4. ASSUME NEW c \in Calls, EnterUser(c)
          PROVE  Waiting(c) /\ ~calls[c].form /\ userToken' = calls[c].name
      <3>1. page' = page /\ userToken' = calls[c].name /\ calls[c] # None /\ calls[c].step = "granted"
        BY <2>1, <2>4, ArriveActs DEF EnterUser, Routes, Granted
      <3>2. calls[c] \in CallRow /\ page.at \notin Auth
        BY <2>1, <3>1, RowOfCall DEF Auth
      <3> QED BY <3>1, <3>2 DEF Inv, FormsThere, Waiting, CallRow
    <2>5. ASSUME NEW c \in Calls, SaveRegistered(c)
          PROVE  Waiting(c) /\ ~calls[c].form /\ userToken' = calls[c].name
      <3>1. calls[c] # None /\ calls[c].step = "granted" /\ calls[c] \in CallRow
        BY <2>1, <2>5, RowOfCall DEF SaveRegistered, Granted
      <3>2. page.at = "user"
        BY <2>1, <2>5 DEF SaveRegistered, Finally, TypeOK
      <3> QED BY <2>5, <3>1, <3>2 DEF Inv, FormsThere, Waiting, CallRow, Auth, SaveRegistered
    <2>6. ASSUME NEW c \in Calls, EnterAdmin(c) PROVE FALSE
      BY <2>1, <2>6, ArriveTypes DEF EnterAdmin, Routes, TypeOK
    <2>7. CASE Logout
      BY <2>1, <2>7, ArriveTypes DEF Logout, Routes, Auth
    <2>8. ASSUME NEW tab \in {"login", "register"}, SelectTab(tab) PROVE FALSE
      BY <2>1, <2>8 DEF SelectTab, TypeOK
    <2>9. ASSUME NEW c \in Calls, NEW name \in Names, SubmitForm(c, name) PROVE FALSE
      BY <2>1, <2>9 DEF SubmitForm, MaySubmitForm, TypeOK, Auth
    <2>10. ASSUME NEW c \in Calls, Handle(c) \/ LogInRegistered(c) \/ Lose(c)
           PROVE  page = page' /\ userToken = userToken'
      BY <2>10 DEF Handle, LogInRegistered, Lose
    <2>11. ASSUME NEW c \in Calls, ShowFailure(c) PROVE page = page' /\ userToken = userToken'
      <3>1. calls[c] # None /\ page.at = "user"
        BY <2>1, <2>11 DEF ShowFailure, Finally, TypeOK
      <3> QED BY <2>11, <3>1 DEF Inv, FormsThere, ShowFailure, Finally, Auth
    <2>12. CASE UNCHANGED vars
      BY <2>12 DEF vars
    <2> QED BY <2>2, <2>3, <2>4, <2>5, <2>6, <2>7, <2>8, <2>9, <2>10, <2>11, <2>12
            DEF Next, Respond, Visit, SwitchMode, Reload, Routes
  <1> QED BY <1>1, InvHolds, PTL DEF Spec, PageActsForItsDriver, ActsForItsDriver

-----------------------------------------------------------------------------
(* The button of the form *)

(* The request that the form on the page waits for. *)
Own(c) == Waiting(c) /\ calls[c].form

\* LoadingIsOwn, of single calls.
LEMMA LoadingByCalls ==
    LoadingIsOwn <=> /\ page.loading <=> \E c \in Calls : Own(c)
                     /\ \A c, other \in Calls : Own(c) /\ Own(other) => c = other
  <1>1. {c \in Calls : Waiting(c) /\ calls[c].form} = {c \in Calls : Own(c)}
    BY DEF Own
  <1> QED BY <1>1 DEF LoadingIsOwn

\* The same of the state after a step.
LEMMA LoadingByCallsNext ==
    ASSUME page'.loading <=> \E c \in Calls : Own(c)',
           \A c, other \in Calls : Own(c)' /\ Own(other)' => c = other
    PROVE  LoadingIsOwn'
  <1>1. {c \in Calls : Waiting(c)' /\ calls'[c].form} = {c \in Calls : Own(c)'}
    BY DEF Own
  <1> QED BY <1>1 DEF LoadingIsOwn

\* A step that neither begins nor ends a request of a form leaves the button alone.
LEMMA ButtonStays ==
    ASSUME LoadingIsOwn, page'.loading = page.loading, \A d \in Calls : Own(d)' <=> Own(d)
    PROVE  LoadingIsOwn'
  <1>1. /\ page'.loading <=> \E c \in Calls : Own(c)'
        /\ \A c, other \in Calls : Own(c)' /\ Own(other)' => c = other
    BY LoadingByCalls
  <1> QED BY <1>1, LoadingByCallsNext

\* Where no form waits the button is enabled.
LEMMA ButtonEnabled ==
    ASSUME page'.loading = FALSE, \A d \in Calls : ~Own(d)'
    PROVE  LoadingIsOwn'
  <1>1. /\ page'.loading <=> \E c \in Calls : Own(c)'
        /\ \A c, other \in Calls : Own(c)' /\ Own(other)' => c = other
    OBVIOUS
  <1> QED BY <1>1, LoadingByCallsNext

\* A move of the page keeps the form and its request, or ends with a page on which
\* no form waits.
LEMMA ButtonMoves ==
    ASSUME Inv, LoadingIsOwn, NEW route \in Routes, NEW user, NEW gone,
           gone \in Calls => \/ ~Own(gone)
                             \/ route \notin Auth,
           page' = Arrive(route, user),
           \A d \in Calls : calls'[d] = IF d = gone THEN None ELSE Orphaned(route)[d]
    PROVE  LoadingIsOwn'
  <1>1. TypeOK /\ FormsThere
    BY DEF Inv
  <1>2. \A d \in Calls : Orphaned(route)[d] # None /\ Orphaned(route)[d].form =>
           calls[d] # None /\ calls[d].form /\ page.at \in Auth /\ route \in Auth
    BY <1>1, OrphanedCalls DEF FormsThere
  <1>3. CASE page.at \in Auth /\ route \in Auth
    <2>1. page'.loading = page.loading
      BY <1>1, <1>3 DEF Arrive, TypeOK, Auth
    <2>2. Orphaned(route) = calls
      BY <1>1, <1>3 DEF Orphaned, TypeOK
    <2>3. \A d \in Calls : Own(d)' <=> Own(d)
      BY <1>3, <2>2 DEF Own, Waiting
    <2> QED BY <2>1, <2>3, ButtonStays
  <1>4. CASE ~(page.at \in Auth /\ route \in Auth)
    <2>1. \A d \in Calls : ~Own(d)'
      BY <1>2, <1>4 DEF Own, Waiting
    <2>2. page'.loading = FALSE
      <3>1. CASE page.at = route
        <4>1. \A d \in Calls : ~Own(d)
          BY <1>1, <1>4, <3>1 DEF FormsThere, Own, Waiting
        <4>2. page.loading \in BOOLEAN /\ page' = page
          BY <1>1, <3>1 DEF TypeOK, Arrive
        <4> QED BY <4>1, <4>2, LoadingByCalls
      <3>2. CASE page.at # route
        BY <1>4, <3>2 DEF Arrive, Mounted
      <3> QED BY <3>1, <3>2
    <2> QED BY <2>1, <2>2, ButtonEnabled
  <1> QED BY <1>3, <1>4

\* The answer that ends a form's request enables the button of that form.
LEMMA ButtonReleased ==
    ASSUME Inv, LoadingIsOwn, NEW c \in Calls, Waiting(c),
           page' = Finally(calls[c]),
           \A d \in Calls \ {c} : calls'[d] = calls[d],
           ~Waiting(c)'
    PROVE  LoadingIsOwn'
  <1>1. TypeOK /\ calls[c] \in CallRow
    BY RowOfCall DEF Inv, Waiting
  <1>2. ~Own(c)' /\ \A d \in Calls \ {c} : Own(d)' <=> Own(d)
    BY DEF Own, Waiting
  <1>3. CASE calls[c].form
    <2>1. \A d \in Calls \ {c} : ~Own(d)
      BY <1>3, LoadingByCalls DEF Own
    <2>2. page'.loading = FALSE
      BY <1>1, <1>3 DEF Finally, TypeOK
    <2> QED BY <1>2, <2>1, <2>2, ButtonEnabled
  <1>4. CASE ~calls[c].form
    <2>1. page' = page /\ ~Own(c)
      BY <1>4 DEF Finally, Own
    <2> QED BY <1>2, <2>1, ButtonStays
  <1> QED BY <1>3, <1>4

\* A request that goes on, with or without an answer, is still the form's.
LEMMA ButtonWaits ==
    ASSUME Inv, LoadingIsOwn, NEW c \in Calls, Waiting(c), page' = page,
           \A d \in Calls \ {c} : calls'[d] = calls[d],
           Waiting(c)', calls'[c].form = calls[c].form
    PROVE  LoadingIsOwn'
  <1>1. \A d \in Calls : Own(d)' <=> Own(d)
    BY DEF Own, Waiting
  <1> QED BY <1>1, ButtonStays

\* Every step of the portal keeps the button with the form's own requests.
LEMMA ButtonStep == Inv /\ LoadingIsOwn /\ [Next]_vars => LoadingIsOwn'
  <1> SUFFICES ASSUME Inv, LoadingIsOwn, [Next]_vars PROVE LoadingIsOwn'
    OBVIOUS
  <1> USE DEF session
  <1>1. TypeOK /\ FormsThere
    BY DEF Inv
  <1>2. ASSUME NEW to \in Routes, Visit(to) \/ SwitchMode(to) PROVE LoadingIsOwn'
    <2> DEFINE route == Guard(to, userToken, adminToken)
    <2>1. route \in Routes
      BY GuardSettles
    <2>2. page' = Arrive(route, userToken) /\ calls' = Orphaned(route)
      BY <1>2 DEF Visit, SwitchMode, GoTo
    <2> HIDE DEF route
    <2>3. PICK gone : gone \notin Calls
      BY NoSetContainsEverything
    <2> QED BY <2>1, <2>2, <2>3, ButtonMoves
  <1>3. ASSUME NEW to \in Routes, Reload(to) PROVE LoadingIsOwn'
    <2>1. page'.loading = FALSE /\ \A d \in Calls : ~Own(d)'
      BY <1>3 DEF Reload, Mounted, Own, Waiting
    <2> QED BY <2>1, ButtonEnabled
  <1>4. ASSUME NEW tab \in {"login", "register"}, SelectTab(tab) PROVE LoadingIsOwn'
    <2>1. page'.loading = page.loading /\ \A d \in Calls : Own(d)' <=> Own(d)
      BY <1>1, <1>4 DEF SelectTab, TypeOK, Own, Waiting
    <2> QED BY <2>1, ButtonStays
  <1>5. CASE Logout
    <2>1. page.at \notin Auth /\ calls' = calls
      BY <1>5 DEF Logout, Auth
    <2>2. \A d \in Calls : ~Own(d)'
      BY <1>1, <2>1 DEF FormsThere, Own, Waiting
    <2>3. page'.loading = FALSE
      BY <1>5 DEF Logout, Arrive, Mounted, Auth
    <2> QED BY <2>2, <2>3, ButtonEnabled
  <1>6. ASSUME NEW c \in Calls, NEW name \in Names, SubmitForm(c, name) PROVE LoadingIsOwn'
    <2>1. ~page.loading /\ page'.loading = TRUE
      BY <1>1, <1>6 DEF SubmitForm, MaySubmitForm, TypeOK
    <2>2. \A d \in Calls : ~Own(d)
      BY <2>1, LoadingByCalls
    <2>3. \A d \in Calls : calls'[d] = IF d = c
             THEN [op |-> FormOp, name |-> name, step |-> "ask", form |-> TRUE] ELSE calls[d]
      BY <1>1, <1>6 DEF SubmitForm, TypeOK
    <2>4. calls'[c] # None
      <3>1. [op |-> FormOp, name |-> name, step |-> "ask", form |-> TRUE] \in CallRow
        BY DEF CallRow, FormOp
      <3> QED BY <2>3, <3>1, NoneAssumption
    <2>5. \A d \in Calls : Own(d)' <=> d = c
      BY <2>2, <2>3, <2>4 DEF Own, Waiting
    <2>6. /\ page'.loading <=> \E d \in Calls : Own(d)'
          /\ \A d, other \in Calls : Own(d)' /\ Own(other)' => d = other
      BY <2>1, <2>5
    <2> QED BY <2>6, LoadingByCallsNext
  <1>7. ASSUME NEW c \in Calls, Handle(c) \/ LogInRegistered(c) \/ Lose(c) PROVE LoadingIsOwn'
    <2>1. calls[c] \in CallRow /\ Waiting(c) /\ page' = page
      BY <1>1, <1>7, RowOfCall DEF Handle, LogInRegistered, Lose, Granted, Waiting
    <2>2. PICK row \in CallRow :
             /\ calls' = [calls EXCEPT ![c] = row]
             /\ row.step # "timer" /\ row.form = calls[c].form
      <3>1. ASSUME NEW step \in {"granted", "refused"}, calls' = [calls EXCEPT ![c].step = step]
            PROVE  \E row \in CallRow : /\ calls' = [calls EXCEPT ![c] = row]
                                        /\ row.step # "timer" /\ row.form = calls[c].form
        <4>1. [calls[c] EXCEPT !.step = step] \in CallRow
          BY <2>1 DEF CallRow
        <4>2. [calls[c] EXCEPT !.step = step].step = step
          BY <2>1 DEF CallRow
        <4>3. [calls[c] EXCEPT !.step = step].form = calls[c].form
          BY <2>1 DEF CallRow
        <4> QED BY <1>1, <3>1, <4>1, <4>2, <4>3
      <3>2. ASSUME NEW name \in Names,
                   calls' = [calls EXCEPT ![c].op = "enter", ![c].step = "ask", ![c].name = name]
            PROVE  \E row \in CallRow : /\ calls' = [calls EXCEPT ![c] = row]
                                        /\ row.step # "timer" /\ row.form = calls[c].form
        <4> DEFINE row == [calls[c] EXCEPT !.op = "enter", !.step = "ask", !.name = name]
        <4>1. row \in CallRow /\ row.step = "ask" /\ row.form = calls[c].form
          BY <2>1 DEF CallRow
        <4>2. calls' = [calls EXCEPT ![c] = row]
          BY <1>1, <3>2 DEF TypeOK
        <4> QED BY <4>1, <4>2
      <3> QED BY <1>7, <3>1, <3>2 DEF Handle, LogInRegistered, Lose
    <2>3. /\ \A d \in Calls \ {c} : calls'[d] = calls[d]
          /\ calls'[c] = row
      BY <1>1, <2>2 DEF TypeOK
    <2>4. Waiting(c)'
      BY <2>2, <2>3, NoneAssumption DEF Waiting
    <2> QED BY <2>1, <2>2, <2>3, <2>4, ButtonWaits
  <1>8. ASSUME NEW c \in Calls, EnterAdmin(c) \/ EnterUser(c) PROVE LoadingIsOwn'
    <2>0. PICK route \in {"user", "admin"} :
             /\ \E user : page' = Arrive(route, user)
             /\ calls' = [Orphaned(route) EXCEPT ![c] = None]
      BY <1>8 DEF EnterAdmin, EnterUser
    <2>1. PICK user : /\ page' = Arrive(route, user)
                      /\ calls' = [Orphaned(route) EXCEPT ![c] = None]
      BY <2>0
    <2>2. route \in Routes /\ route \notin Auth
      BY DEF Routes, Auth
    <2>3. \A d \in Calls : calls'[d] = IF d = c THEN None ELSE Orphaned(route)[d]
      BY <1>1, <2>1, <2>2, OrphanedCalls
    <2>4. page' = Arrive(route, user)
      BY <2>1
    <2> QED BY <2>2, <2>3, <2>4, ButtonMoves
  <1>9. ASSUME NEW c \in Calls, SaveRegistered(c) \/ ShowFailure(c) PROVE LoadingIsOwn'
    <2>1. calls[c] \in CallRow /\ Waiting(c) /\ page' = Finally(calls[c])
      BY <1>1, <1>9, RowOfCall DEF SaveRegistered, ShowFailure, Granted, Waiting
    <2>2. \A d \in Calls \ {c} : calls'[d] = calls[d]
      BY <1>1, <1>9 DEF SaveRegistered, ShowFailure, TypeOK
    <2>3. ~Waiting(c)'
      <3>1. CASE SaveRegistered(c)
        <4>1. calls'[c] = [calls[c] EXCEPT !.step = "timer"]
          BY <1>1, <3>1 DEF SaveRegistered, TypeOK
        <4> QED BY <2>1, <4>1 DEF Waiting, CallRow
      <3>2. CASE ShowFailure(c)
        BY <1>1, <3>2 DEF ShowFailure, Waiting, TypeOK
      <3> QED BY <1>9, <3>1, <3>2
    <2> QED BY <2>1, <2>2, <2>3, ButtonReleased
  <1>10. ASSUME NEW c \in Calls, EnterLater(c) PROVE LoadingIsOwn'
    <2> DEFINE route == Guard("user", userToken, adminToken)
    <2>1. route \in Routes
      BY GuardSettles DEF Routes
    <2>2. page' = Arrive(route, userToken) /\ calls' = [Orphaned(route) EXCEPT ![c] = None]
      BY <1>10 DEF EnterLater
    <2> HIDE DEF route
    <2>3. \A d \in Calls : calls'[d] = IF d = c THEN None ELSE Orphaned(route)[d]
      BY <1>1, <2>1, <2>2, OrphanedCalls
    <2>4. ~Own(c)
      BY <1>10 DEF EnterLater, Own, Waiting
    <2> QED BY <2>1, <2>2, <2>3, <2>4, ButtonMoves
  <1>11. CASE UNCHANGED vars
    <2>1. page'.loading = page.loading /\ \A d \in Calls : Own(d)' <=> Own(d)
      BY <1>11 DEF vars, Own, Waiting
    <2> QED BY <2>1, ButtonStays
  <1> QED BY <1>2, <1>3, <1>4, <1>5, <1>6, <1>7, <1>8, <1>9, <1>10, <1>11
          DEF Next, Respond, Routes, Auth

\* The button is disabled exactly while the one request of its form is on its way:
\* handleFormSubmit, its finally, and every way to leave the form.
THEOREM LoadingIsOwnHolds == Spec => []LoadingIsOwn
  <1>1. Init => LoadingIsOwn
    <2> SUFFICES ASSUME Init PROVE LoadingIsOwn
      OBVIOUS
    <2>1. page.loading = FALSE /\ \A c \in Calls : ~Own(c)
      BY DEF Init, Mounted, Own, Waiting
    <2> QED BY <2>1, LoadingByCalls
  <1> QED BY <1>1, ButtonStep, InvHolds, PTL DEF Spec
=============================================================================
