--------------------------- MODULE ConsoleSession ---------------------------
(***************************************************************************)
(* The sign-in state of the web console (src/frontend/src/App.tsx,         *)
(* pages/Login.tsx, services/api.ts): browser tabs that each keep an       *)
(* account in React state, one localStorage that they share, and requests  *)
(* that carry whatever token localStorage holds when they leave.           *)
(*                                                                         *)
(* A handler runs to completion between two awaits, so each is one action. *)
(* Of a page only its calls and whose data it shows are modelled here.     *)
(***************************************************************************)
EXTENDS Naturals, FiniteSets

CONSTANTS
    Tabs,      \* browser tabs of one browser profile
    Users,     \* accounts
    Tokens,    \* the JWTs the server may issue
    Quiet,     \* the views whose pages ask the server nothing when they are mounted
    MaxCalls,  \* bound: a tab's page calls in flight, those of gone pages included
    None

ASSUME NoneIsNew == None \notin Users \cup Tokens
ASSUME QuietViews ==
    Quiet \subseteq {"connect", "configs", "deployments", "alerts", "settings"}

VARIABLES
    storage,   \* localStorage: the keys niseva_token, token and xnet_rms_user
    tab,       \* per tab: currentUser, currentView, Login's loading flag, and the
               \* account whose data the mounted page shows
    requests,  \* HTTP requests in flight
    owner,     \* the account a token was issued to; None: not issued yet
    expired,   \* tokens whose time is over
    picked,    \* selectedDeviceId, by the account that chose it; None: ''
    foreign    \* history: another tab has signed in as somebody else since

vars == <<storage, tab, requests, owner, expired, picked, foreign>>

\* The pages that read from the server when they are mounted, and all pages.
Calling == {"dashboard", "devices", "detail"}
Views   == Calling \cup Quiet

NoSession == [niseva_token |-> None, token |-> None, xnet_rms_user |-> None]

FreshTab == [user |-> None, view |-> "dashboard",
             loading |-> FALSE, data |-> None]

Request == [tab : Tabs, call : {"login", "page"}, user : Users \cup {None},
            token : Tokens \cup {None}, answer : {"pending", "ok", "refused"},
            mounted : BOOLEAN]

TypeOK ==
    /\ storage \in [niseva_token : Tokens \cup {None}, token : Tokens \cup {None},
                    xnet_rms_user : Users \cup {None}]
    /\ tab \in [Tabs -> [user : Users \cup {None}, view : Views,
                         loading : BOOLEAN, data : Users \cup {None}]]
    /\ requests \subseteq Request
    /\ owner \in [Tokens -> Users \cup {None}]
    /\ expired \subseteq Tokens
    /\ picked \in [Tabs -> Users \cup {None}]
    /\ foreign \in [Tabs -> BOOLEAN]

-----------------------------------------------------------------------------
\* localStorage.getItem('niseva_token') || localStorage.getItem('token')
BearerToken(s) == IF s.niseva_token # None THEN s.niseva_token ELSE s.token

\* The account a new document starts with.
SavedUser(s) == IF BearerToken(s) # None THEN s.xnet_rms_user ELSE None

\* What the 401 interceptor leaves of localStorage.
AfterRefusal(s) == NoSession

\* Mutant of AfterLogout: one of the two copies of the token is forgotten.
AfterLogoutForgetful(s) == [NoSession EXCEPT !.token = s.token]

\* What handleLogout leaves of localStorage.
AfterLogout(s) == NoSession

\* What login() and handleLogin leave of localStorage.
AfterLogin(s, u, k) ==
    [s EXCEPT !.niseva_token = k, !.token = k, !.xnet_rms_user = u]

\* A view change unmounts the page: its calls go on, its state is gone.
Unmount(t) ==
    {IF r.tab = t /\ r.call = "page" THEN [r EXCEPT !.mounted = FALSE] ELSE r :
        r \in requests}

Init ==
    /\ storage = NoSession
    /\ tab = [t \in Tabs |-> FreshTab]
    /\ requests = {}
    /\ owner = [k \in Tokens |-> None]
    /\ expired = {}
    /\ picked = [t \in Tabs |-> None]
    /\ foreign = [t \in Tabs |-> FALSE]

-----------------------------------------------------------------------------
\* Login's form is submitted; while it is loading its button is inert.
Submit(t, u) ==
    /\ tab[t].user = None /\ ~tab[t].loading
    /\ tab' = [tab EXCEPT ![t].loading = TRUE]
    /\ requests' = requests \cup
           {[tab |-> t, call |-> "login", user |-> u, token |-> None,
             answer |-> "pending", mounted |-> TRUE]}
    /\ UNCHANGED <<storage, owner, expired, picked, foreign>>

\* The mounted page asks the server, with the token of this moment.
CallServer(t) ==
    /\ tab[t].user # None /\ tab[t].view \in Calling
    /\ \A r \in requests : ~(r.tab = t /\ r.mounted)
    /\ Cardinality({r \in requests : r.tab = t}) < MaxCalls
    /\ requests' = requests \cup
           {[tab |-> t, call |-> "page", user |-> None,
             token |-> BearerToken(storage), answer |-> "pending", mounted |-> TRUE]}
    /\ UNCHANGED <<storage, tab, owner, expired, picked, foreign>>

Answered(r, a) == requests' = (requests \ {r}) \cup {a}

\* POST /auth/login with the right password: the answer carries a new token.
AcceptLogin(r) ==
    /\ r.call = "login" /\ r.answer = "pending"
    /\ \E k \in Tokens :
          /\ owner[k] = None
          /\ owner' = [owner EXCEPT ![k] = r.user]
          /\ Answered(r, [r EXCEPT !.answer = "ok", !.token = k])
    /\ UNCHANGED <<storage, tab, expired, picked, foreign>>

\* POST /auth/login with a wrong one is a 401 like any other.
RejectLogin(r) ==
    /\ r.call = "login" /\ r.answer = "pending"
    /\ Answered(r, [r EXCEPT !.answer = "refused"])
    /\ UNCHANGED <<storage, tab, owner, expired, picked, foreign>>

\* AuthMiddleware lets a page's call through, or answers it with a 401.
Authorize(r) ==
    /\ r.call = "page" /\ r.answer = "pending"
    /\ Answered(r, [r EXCEPT !.answer =
           IF r.token # None /\ r.token \notin expired THEN "ok" ELSE "refused"])
    /\ UNCHANGED <<storage, tab, owner, expired, picked, foreign>>

Expire(k) ==
    /\ owner[k] # None /\ k \notin expired
    /\ expired' = expired \cup {k}
    /\ UNCHANGED <<storage, tab, requests, owner, picked, foreign>>

-----------------------------------------------------------------------------
\* handleLogin goes on after its await.
LoginSucceeds(r) ==
    /\ r.call = "login" /\ r.answer = "ok"
    /\ storage' = AfterLogin(storage, r.user, r.token)
    /\ tab' = [tab EXCEPT ![r.tab].user = r.user, ![r.tab].loading = FALSE]
    /\ requests' = requests \ {r}
    /\ foreign' = [t \in Tabs |-> t # r.tab /\
                      (foreign[t] \/ tab[t].user \notin {None, r.user})]
    /\ UNCHANGED <<owner, expired, picked>>

\* The catch and finally of handleLogin; the interceptor has run before them.
LoginRefused(r) ==
    /\ r.call = "login" /\ r.answer = "refused"
    /\ storage' = AfterRefusal(storage)
    /\ tab' = [tab EXCEPT ![r.tab].loading = FALSE]
    /\ requests' = requests \ {r}
    /\ UNCHANGED <<owner, expired, picked, foreign>>

\* Mutant of PageAnswered: the answer is kept outside of the page.
PageAnsweredAnyway(r) ==
    /\ r.call = "page" /\ r.answer = "ok"
    /\ tab' = [tab EXCEPT ![r.tab].data = owner[r.token]]
    /\ requests' = requests \ {r}
    /\ UNCHANGED <<storage, owner, expired, picked, foreign>>

\* A page's call is answered; its component may be gone by now.
PageAnswered(r) ==
    /\ r.call = "page" /\ r.answer = "ok"
    /\ tab' = IF r.mounted THEN [tab EXCEPT ![r.tab].data = owner[r.token]] ELSE tab
    /\ requests' = requests \ {r}
    /\ UNCHANGED <<storage, owner, expired, picked, foreign>>

\* What a failed call leaves on the page: the lists empty themselves.
DataAfterFailure(t) == IF tab[t].view = "detail" THEN tab[t].data ELSE None

\* A 401 answers a page's call: localStorage is cleared, the tab stays signed in.
PageRefused(r) ==
    /\ r.call = "page" /\ r.answer = "refused"
    /\ storage' = AfterRefusal(storage)
    /\ tab' = IF r.mounted
              THEN [tab EXCEPT ![r.tab].data = DataAfterFailure(r.tab)] ELSE tab
    /\ requests' = requests \ {r}
    /\ UNCHANGED <<owner, expired, picked, foreign>>

\* No answer in ten seconds, or none at all.
TimeOut(r) ==
    /\ tab' = CASE r.call = "login" -> [tab EXCEPT ![r.tab].loading = FALSE]
                [] r.call = "page" /\ r.mounted ->
                      [tab EXCEPT ![r.tab].data = DataAfterFailure(r.tab)]
                [] OTHER -> tab
    /\ requests' = requests \ {r}
    /\ UNCHANGED <<storage, owner, expired, picked, foreign>>

-----------------------------------------------------------------------------
\* The menu, the header's links and the detail page's way back.
Navigate(t, v) ==
    /\ tab[t].user # None
    /\ v \in Views \ {"detail", tab[t].view}
    /\ tab' = [tab EXCEPT ![t].view = v, ![t].data = None]
    /\ requests' = Unmount(t)
    /\ UNCHANGED <<storage, owner, expired, picked, foreign>>

\* handleSelectDevice: offered by the two pages that list devices.
SelectDevice(t) ==
    /\ tab[t].user # None
    /\ tab[t].view \in {"dashboard", "devices"} /\ tab[t].data # None
    /\ tab' = [tab EXCEPT ![t].view = "detail", ![t].data = None]
    /\ requests' = Unmount(t)
    /\ picked' = [picked EXCEPT ![t] = tab[t].user]
    /\ UNCHANGED <<storage, owner, expired, foreign>>

\* Mutant of Logout: the view is not reset.
LogoutInPlace(t) ==
    /\ tab[t].user # None
    /\ storage' = AfterLogout(storage)
    /\ tab' = [tab EXCEPT ![t].user = None, ![t].data = None]
    /\ requests' = Unmount(t)
    /\ foreign' = [foreign EXCEPT ![t] = FALSE]
    /\ UNCHANGED <<owner, expired, picked>>

\* handleLogout.
Logout(t) ==
    /\ tab[t].user # None
    /\ storage' = AfterLogout(storage)
    /\ tab' = [tab EXCEPT ![t].user = None, ![t].view = "dashboard", ![t].data = None]
    /\ requests' = Unmount(t)
    /\ foreign' = [foreign EXCEPT ![t] = FALSE]
    /\ UNCHANGED <<owner, expired, picked>>

\* The tab is reloaded: a new document, its requests gone with the old one.
Reload(t) ==
    /\ tab' = [tab EXCEPT ![t] = [FreshTab EXCEPT !.user = SavedUser(storage)]]
    /\ requests' = {r \in requests : r.tab # t}
    /\ picked' = [picked EXCEPT ![t] = None]
    /\ foreign' = [foreign EXCEPT ![t] = FALSE]
    /\ UNCHANGED <<storage, owner, expired>>

Answer(r) ==
    \/ AcceptLogin(r) \/ RejectLogin(r) \/ Authorize(r)
    \/ LoginSucceeds(r) \/ LoginRefused(r)
    \/ PageAnswered(r) \/ PageRefused(r) \/ TimeOut(r)

Next ==
    \/ \E t \in Tabs :
          \/ \E u \in Users : Submit(t, u)
          \/ CallServer(t)
          \/ \E v \in Views : Navigate(t, v)
          \/ SelectDevice(t)
          \/ Logout(t)
          \/ Reload(t)
    \/ \E r \in requests : Answer(r)
    \/ \E k \in Tokens : Expire(k)

Spec == Init /\ [][Next]_vars

-----------------------------------------------------------------------------
\* localStorage is the session of one sign-in or none: in whatever order the
\* sign-ins, wrong passwords, late 401s and sign-outs of all tabs are applied, the
\* token that will be sent was issued to the account a reload would show.
StoredSessionIsWhole ==
    /\ storage.token = storage.niseva_token
    /\ storage.xnet_rms_user = None <=> storage.token = None
    /\ storage.token # None => owner[storage.token] = storage.xnet_rms_user

\* As long as nobody signs in as another account in another tab, a tab shows data of
\* its own account only, and what it has asked for or would ask for now is its own:
\* answers to the calls of an earlier session, which arrive after the sign-out or in
\* the next session, never reach the screen.
ShownDataIsOwn ==
    \A t \in Tabs : tab[t].user # None /\ ~foreign[t] =>
        /\ tab[t].data \in {None, tab[t].user}
        /\ storage.xnet_rms_user \in {None, tab[t].user}
        /\ \A r \in requests : r.tab = t /\ r.mounted /\ r.token # None =>
              owner[r.token] = tab[t].user

\* The detail page is never inherited: the router it shows was chosen in this session,
\* not by the account that used the tab before.
DetailIsOwnChoice ==
    \A t \in Tabs : tab[t].user # None /\ tab[t].view = "detail" =>
        picked[t] = tab[t].user
=============================================================================
