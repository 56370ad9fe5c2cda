----------------------- MODULE ConsoleSession_proofs -----------------------
(***************************************************************************)
(* Proofs about ConsoleSession, for any number of tabs, accounts, tokens   *)
(* and calls in flight: its type invariant and its three invariants.       *)
(***************************************************************************)
EXTENDS ConsoleSession, TLAPS

\* What is known of a request: a sign-in comes from a tab without account whose form
\* is loading, and is the only one of that tab; who was let in, and whom the answer
\* to a page's call is for, is the account that a token was issued to.
CallsAreKnown ==
    \A r \in requests :
        /\ r.call = "login" =>
              /\ r.user # None
              /\ tab[r.tab].user = None /\ tab[r.tab].loading
              /\ r.answer = "ok" => r.token # None /\ owner[r.token] = r.user
              /\ \A q \in requests : q.call = "login" /\ q.tab = r.tab => q = r
        /\ r.call = "page" /\ r.answer = "ok" => r.token # None

\* A tab without account has nothing left of the one before.
SignedOutIsBlank ==
    \A t \in Tabs : tab[t].user = None =>
        /\ tab[t].view = "dashboard" /\ tab[t].data = None
        /\ \A r \in requests : r.tab = t /\ r.call = "page" => ~r.mounted

\* The state of one tab, as TypeOK has it.
TabState == [user : Users \cup {None}, view : Views,
             loading : BOOLEAN, data : Users \cup {None}]

\* The inductive invariant.
IInv ==
    /\ TypeOK
    /\ StoredSessionIsWhole
    /\ ShownDataIsOwn
    /\ DetailIsOwnChoice
    /\ CallsAreKnown
    /\ SignedOutIsBlank

-----------------------------------------------------------------------------
\* A page that is left keeps its calls, unmounted.
LEMMA UnmountKeeps ==
  ASSUME NEW t \in Tabs, requests \subseteq Request
  PROVE  /\ Unmount(t) \subseteq Request
         /\ \A r \in Unmount(t) :
               \/ r \in requests /\ ~(r.tab = t /\ r.call = "page")
               \/ \E q \in requests :
                     /\ q.tab = t /\ q.call = "page" /\ ~r.mounted
                     /\ r.tab = t /\ r.call = "page" /\ r.answer = q.answer
                     /\ r.token = q.token
  BY DEF Unmount, Request

\* Every action keeps every part of the invariant.
LEMMA Step == IInv /\ [Next]_vars => IInv'
<1>a. SUFFICES ASSUME IInv, [Next]_vars PROVE IInv'
  OBVIOUS
<1>b. tab \in [Tabs -> TabState] /\ requests \subseteq Request
  BY <1>a DEF IInv, TypeOK, TabState
<1> USE NoneIsNew DEF Views, Calling
<1>1. ASSUME NEW t \in Tabs, NEW u \in Users, Submit(t, u) PROVE IInv'
  <2>1. TypeOK'
    <3> DEFINE n == [tab |-> t, call |-> "login", user |-> u, token |-> None,
                     answer |-> "pending", mounted |-> TRUE]
    <3>1. /\ tab' = [tab EXCEPT ![t].loading = TRUE] /\ requests' = requests \cup {n}
          /\ tab[t].user = None /\ ~tab[t].loading
      BY <1>1 DEF Submit
    <3>2. n \in Request
      BY DEF Request
    <3>3. tab' \in [Tabs -> TabState]
      BY <3>1, <1>b DEF TabState
    <3> QED
      BY <1>a, <1>b, <1>1, <3>1, <3>2, <3>3 DEF IInv, TypeOK, TabState, Submit
  <2>2. StoredSessionIsWhole'
    BY <1>a, <1>1 DEF IInv, TypeOK, Request, StoredSessionIsWhole, CallsAreKnown, Submit
  <2>3. ShownDataIsOwn'
    BY <1>a, <1>1
    DEF IInv, TypeOK, Request, StoredSessionIsWhole, ShownDataIsOwn, SignedOutIsBlank,
        CallsAreKnown, Submit
  <2>4. DetailIsOwnChoice'
    BY <1>a, <1>1 DEF IInv, TypeOK, Request, DetailIsOwnChoice, SignedOutIsBlank, Submit
  <2>5. CallsAreKnown'
    <3> DEFINE n == [tab |-> t, call |-> "login", user |-> u, token |-> None,
                     answer |-> "pending", mounted |-> TRUE]
    <3>1. /\ tab' = [tab EXCEPT ![t].loading = TRUE] /\ requests' = requests \cup {n}
          /\ tab[t].user = None /\ ~tab[t].loading
      BY <1>1 DEF Submit
    <3>2. \A r \in requests : r.call = "login" => r.tab # t
      BY <1>a, <3>1 DEF IInv, CallsAreKnown
    <3>3. \A r \in requests : tab'[r.tab].user = tab[r.tab].user
      BY <3>1, <1>b DEF TabState, Request
    <3>4. \A r \in requests : tab[r.tab].loading => tab'[r.tab].loading
      BY <3>1, <1>b DEF TabState, Request
    <3>5. tab'[t].user = None /\ tab'[t].loading
      BY <3>1, <1>b DEF TabState
    <3>6. n.call = "login" /\ n.tab = t /\ n.user # None /\ n.answer = "pending"
      OBVIOUS
    <3>7. owner' = owner
      BY <1>1 DEF Submit
    <3> HIDE DEF n
    <3> QED
      BY <1>a, <3>1, <3>2, <3>3, <3>4, <3>5, <3>6, <3>7 DEF IInv, CallsAreKnown
  <2>6. SignedOutIsBlank'
    BY <1>a, <1>1 DEF IInv, TypeOK, Request, SignedOutIsBlank, CallsAreKnown, Submit
  <2> QED
    BY <2>1, <2>2, <2>3, <2>4, <2>5, <2>6 DEF IInv
<1>2. ASSUME NEW t \in Tabs, CallServer(t) PROVE IInv'
  <2>1. TypeOK'
    <3> DEFINE n == [tab |-> t, call |-> "page", user |-> None,
                     token |-> BearerToken(storage), answer |-> "pending",
                     mounted |-> TRUE]
    <3>1. BearerToken(storage) \in Tokens \cup {None}
      BY <1>a DEF IInv, TypeOK, BearerToken
    <3>2. n \in Request
      BY <3>1 DEF Request
    <3>3. requests' = requests \cup {n}
      BY <1>2 DEF CallServer
    <3> QED
      BY <1>a, <1>b, <1>2, <3>2, <3>3 DEF IInv, TypeOK, CallServer
  <2>2. StoredSessionIsWhole'
    BY <1>a, <1>2
    DEF IInv, TypeOK, Request, StoredSessionIsWhole, CallsAreKnown, CallServer,
        BearerToken
  <2>3. ShownDataIsOwn'
    BY <1>a, <1>2
    DEF IInv, TypeOK, Request, StoredSessionIsWhole, ShownDataIsOwn, SignedOutIsBlank,
        CallsAreKnown, CallServer, BearerToken
  <2>4. DetailIsOwnChoice'
    BY <1>a, <1>2
    DEF IInv, TypeOK, Request, DetailIsOwnChoice, SignedOutIsBlank, CallServer,
        BearerToken
  <2>5. CallsAreKnown'
    BY <1>a, <1>2
    DEF IInv, TypeOK, Request, CallsAreKnown, StoredSessionIsWhole, CallServer,
        BearerToken
  <2>6. SignedOutIsBlank'
    BY <1>a, <1>2
    DEF IInv, TypeOK, Request, SignedOutIsBlank, CallsAreKnown, CallServer, BearerToken
  <2> QED
    BY <2>1, <2>2, <2>3, <2>4, <2>5, <2>6 DEF IInv
<1>3. ASSUME NEW t \in Tabs, NEW v \in Views, Navigate(t, v) PROVE IInv'
  <2>1. TypeOK'
    <3>1. tab' \in [Tabs -> TabState]
      BY <1>3, <1>b DEF TabState, Request, Navigate
    <3>2. requests' \subseteq Request
      BY <1>3, UnmountKeeps, <1>b DEF Request, Navigate
    <3> QED
      BY <1>a, <1>3, <3>1, <3>2 DEF IInv, TypeOK, TabState, Navigate
  <2>2. StoredSessionIsWhole'
    BY <1>a, <1>3, UnmountKeeps
    DEF IInv, TypeOK, Request, StoredSessionIsWhole, CallsAreKnown, Navigate
  <2>3. ShownDataIsOwn'
    BY <1>a, <1>3, UnmountKeeps
    DEF IInv, TypeOK, Request, StoredSessionIsWhole, ShownDataIsOwn, SignedOutIsBlank,
        CallsAreKnown, Navigate
  <2>4. DetailIsOwnChoice'
    BY <1>a, <1>3, UnmountKeeps
    DEF IInv, TypeOK, Request, DetailIsOwnChoice, SignedOutIsBlank, Navigate
  <2>5. CallsAreKnown'
    BY <1>a, <1>3, UnmountKeeps
    DEF IInv, TypeOK, Request, CallsAreKnown, StoredSessionIsWhole, Navigate
  <2>6. SignedOutIsBlank'
    BY <1>a, <1>3, UnmountKeeps
    DEF IInv, TypeOK, Request, SignedOutIsBlank, CallsAreKnown, Navigate
  <2> QED
    BY <2>1, <2>2, <2>3, <2>4, <2>5, <2>6 DEF IInv
<1>4. ASSUME NEW t \in Tabs, SelectDevice(t) PROVE IInv'
  <2>1. TypeOK'
    BY <1>a, <1>4, UnmountKeeps DEF IInv, TypeOK, Request, CallsAreKnown, SelectDevice
  <2>2. StoredSessionIsWhole'
    BY <1>a, <1>4, UnmountKeeps
    DEF IInv, TypeOK, Request, StoredSessionIsWhole, CallsAreKnown, SelectDevice
  <2>3. ShownDataIsOwn'
    BY <1>a, <1>4, UnmountKeeps
    DEF IInv, TypeOK, Request, StoredSessionIsWhole, ShownDataIsOwn, SignedOutIsBlank,
        CallsAreKnown, SelectDevice
  <2>4. DetailIsOwnChoice'
    BY <1>a, <1>4, UnmountKeeps
    DEF IInv, TypeOK, Request, DetailIsOwnChoice, SignedOutIsBlank, SelectDevice
  <2>5. CallsAreKnown'
    BY <1>a, <1>4, UnmountKeeps
    DEF IInv, TypeOK, Request, CallsAreKnown, StoredSessionIsWhole, SelectDevice
  <2>6. SignedOutIsBlank'
    BY <1>a, <1>4, UnmountKeeps
    DEF IInv, TypeOK, Request, SignedOutIsBlank, CallsAreKnown, SelectDevice
  <2> QED
    BY <2>1, <2>2, <2>3, <2>4, <2>5, <2>6 DEF IInv
<1>5. ASSUME NEW t \in Tabs, Logout(t) PROVE IInv'
  <2>1. TypeOK'
    <3>1. tab' \in [Tabs -> TabState]
      BY <1>5, <1>b DEF TabState, Request, Logout, AfterLogout, NoSession
    <3>2. requests' \subseteq Request
      BY <1>5, UnmountKeeps, <1>b DEF Request, Logout, AfterLogout, NoSession
    <3> QED
      BY <1>a, <1>5, <3>1, <3>2
      DEF IInv, TypeOK, TabState, Logout, AfterLogout, NoSession
  <2>2. StoredSessionIsWhole'
    BY <1>a, <1>5, UnmountKeeps
    DEF IInv, TypeOK, Request, StoredSessionIsWhole, CallsAreKnown, Logout, AfterLogout,
        NoSession
  <2>3. ShownDataIsOwn'
    BY <1>a, <1>5, UnmountKeeps
    DEF IInv, TypeOK, Request, StoredSessionIsWhole, ShownDataIsOwn, SignedOutIsBlank,
        CallsAreKnown, Logout, AfterLogout, NoSession
  <2>4. DetailIsOwnChoice'
    BY <1>a, <1>5, UnmountKeeps
    DEF IInv, TypeOK, Request, DetailIsOwnChoice, SignedOutIsBlank, Logout, AfterLogout,
        NoSession
  <2>5. CallsAreKnown'
    BY <1>a, <1>5, UnmountKeeps
    DEF IInv, TypeOK, Request, CallsAreKnown, StoredSessionIsWhole, Logout, AfterLogout,
        NoSession
  <2>6. SignedOutIsBlank'
    BY <1>a, <1>5, UnmountKeeps
    DEF IInv, TypeOK, Request, SignedOutIsBlank, CallsAreKnown, Logout, AfterLogout,
        NoSession
  <2> QED
    BY <2>1, <2>2, <2>3, <2>4, <2>5, <2>6 DEF IInv
<1>6. ASSUME NEW t \in Tabs, Reload(t) PROVE IInv'
  <2>1. TypeOK'
    BY <1>a, <1>6
    DEF IInv, TypeOK, Request, CallsAreKnown, Reload, FreshTab, SavedUser, BearerToken
  <2>2. StoredSessionIsWhole'
    BY <1>a, <1>6
    DEF IInv, TypeOK, Request, StoredSessionIsWhole, CallsAreKnown, Reload, FreshTab,
        SavedUser, BearerToken
  <2>3. ShownDataIsOwn'
    BY <1>a, <1>6
    DEF IInv, TypeOK, Request, StoredSessionIsWhole, ShownDataIsOwn, SignedOutIsBlank,
        CallsAreKnown, Reload, FreshTab, SavedUser, BearerToken
  <2>4. DetailIsOwnChoice'
    BY <1>a, <1>6
    DEF IInv, TypeOK, Request, DetailIsOwnChoice, SignedOutIsBlank, Reload, FreshTab,
        SavedUser, BearerToken
  <2>5. CallsAreKnown'
    BY <1>a, <1>6
    DEF IInv, TypeOK, Request, CallsAreKnown, StoredSessionIsWhole, Reload, FreshTab,
        SavedUser, BearerToken
  <2>6. SignedOutIsBlank'
    BY <1>a, <1>6
    DEF IInv, TypeOK, Request, SignedOutIsBlank, CallsAreKnown, Reload, FreshTab,
        SavedUser, BearerToken
  <2> QED
    BY <2>1, <2>2, <2>3, <2>4, <2>5, <2>6 DEF IInv
<1>7. ASSUME NEW r \in requests, AcceptLogin(r) PROVE IInv'
  <2>1. TypeOK'
    <3>1. PICK k \in Tokens :
             /\ owner[k] = None /\ owner' = [owner EXCEPT ![k] = r.user]
             /\ requests' = (requests \ {r}) \cup {[r EXCEPT !.answer = "ok", !.token = k]}
      BY <1>7 DEF AcceptLogin, Answered
    <3> DEFINE a == [r EXCEPT !.answer = "ok", !.token = k]
    <3>2. /\ a \in Request /\ a.tab = r.tab /\ a.call = "login" /\ a.user = r.user
          /\ a.token = k /\ a.answer = "ok"
      BY <1>7, <1>b DEF Request, AcceptLogin
    <3>3. requests' = (requests \ {r}) \cup {a} /\ UNCHANGED <<tab, storage, foreign>>
      BY <3>1, <1>7 DEF AcceptLogin
    <3>4. r.call = "login" /\ r.user \in Users /\ tab[r.tab].user = None /\ tab[r.tab].loading
      BY <1>a, <1>b, <1>7 DEF IInv, CallsAreKnown, AcceptLogin, Request
    <3>5. \A x \in Tokens : owner[x] # None => owner'[x] = owner[x]
      BY <1>a, <3>1 DEF IInv, TypeOK
    <3>6. owner'[k] = r.user
      BY <1>a, <3>1 DEF IInv, TypeOK
    <3> HIDE DEF a
    <3>7. owner' \in [Tokens -> Users \cup {None}]
      BY <1>a, <3>1, <3>4 DEF IInv, TypeOK
    <3> QED
      BY <1>a, <1>7, <3>2, <3>3, <3>7 DEF IInv, TypeOK, AcceptLogin
  <2>2. StoredSessionIsWhole'
    BY <1>a, <1>7
    DEF IInv, TypeOK, Request, StoredSessionIsWhole, CallsAreKnown, AcceptLogin,
        Answered
  <2>3. ShownDataIsOwn'
    <3>1. PICK k \in Tokens :
             /\ owner[k] = None /\ owner' = [owner EXCEPT ![k] = r.user]
             /\ requests' = (requests \ {r}) \cup {[r EXCEPT !.answer = "ok", !.token = k]}
      BY <1>7 DEF AcceptLogin, Answered
    <3> DEFINE a == [r EXCEPT !.answer = "ok", !.token = k]
    <3>2. /\ a \in Request /\ a.tab = r.tab /\ a.call = "login" /\ a.user = r.user
          /\ a.token = k /\ a.answer = "ok"
      BY <1>7, <1>b DEF Request, AcceptLogin
    <3>3. requests' = (requests \ {r}) \cup {a} /\ UNCHANGED <<tab, storage, foreign>>
      BY <3>1, <1>7 DEF AcceptLogin
    <3>4. r.call = "login" /\ r.user \in Users /\ tab[r.tab].user = None /\ tab[r.tab].loading
      BY <1>a, <1>b, <1>7 DEF IInv, CallsAreKnown, AcceptLogin, Request
    <3>5. \A x \in Tokens : owner[x] # None => owner'[x] = owner[x]
      BY <1>a, <3>1 DEF IInv, TypeOK
    <3>6. owner'[k] = r.user
      BY <1>a, <3>1 DEF IInv, TypeOK
    <3> HIDE DEF a
    <3> SUFFICES ASSUME NEW t \in Tabs, tab[t].user # None, ~foreign[t]
                 PROVE  \A q \in requests' : q.tab = t /\ q.mounted /\ q.token # None =>
                           owner'[q.token] = tab[t].user
      BY <1>a, <3>3 DEF IInv, ShownDataIsOwn
    <3>7. \A q \in requests : q.tab = t /\ q.mounted /\ q.token # None =>
                           q.token \in Tokens /\ owner[q.token] = tab[t].user
      BY <1>a, <1>b DEF IInv, ShownDataIsOwn, Request
    <3> QED
      BY <3>2, <3>3, <3>4, <3>5, <3>7
  <2>4. DetailIsOwnChoice'
    BY <1>a, <1>7
    DEF IInv, TypeOK, Request, DetailIsOwnChoice, SignedOutIsBlank, AcceptLogin,
        Answered
  <2>5. CallsAreKnown'
    <3>1. PICK k \in Tokens :
             /\ owner[k] = None /\ owner' = [owner EXCEPT ![k] = r.user]
             /\ requests' = (requests \ {r}) \cup {[r EXCEPT !.answer = "ok", !.token = k]}
      BY <1>7 DEF AcceptLogin, Answered
    <3> DEFINE a == [r EXCEPT !.answer = "ok", !.token = k]
    <3>2. /\ a \in Request /\ a.tab = r.tab /\ a.call = "login" /\ a.user = r.user
          /\ a.token = k /\ a.answer = "ok"
      BY <1>7, <1>b DEF Request, AcceptLogin
    <3>3. requests' = (requests \ {r}) \cup {a} /\ UNCHANGED <<tab, storage, foreign>>
      BY <3>1, <1>7 DEF AcceptLogin
    <3>4. r.call = "login" /\ r.user \in Users /\ tab[r.tab].user = None /\ tab[r.tab].loading
      BY <1>a, <1>b, <1>7 DEF IInv, CallsAreKnown, AcceptLogin, Request
    <3>5. \A x \in Tokens : owner[x] # None => owner'[x] = owner[x]
      BY <1>a, <3>1 DEF IInv, TypeOK
    <3>6. owner'[k] = r.user
      BY <1>a, <3>1 DEF IInv, TypeOK
    <3> HIDE DEF a
    <3>7. \A q \in requests : q.call = "login" /\ q.answer = "ok" =>
             q.token \in Tokens /\ owner[q.token] # None
      BY <1>a, <1>b DEF IInv, CallsAreKnown, Request
    <3>8. \A q \in requests \ {r} : q.call = "login" => q.tab # r.tab
      BY <1>a, <3>4 DEF IInv, CallsAreKnown
    <3> QED
      BY <1>a, <3>2, <3>3, <3>4, <3>5, <3>6, <3>7, <3>8 DEF IInv, CallsAreKnown
  <2>6. SignedOutIsBlank'
    BY <1>a, <1>7
    DEF IInv, TypeOK, Request, SignedOutIsBlank, CallsAreKnown, AcceptLogin, Answered
  <2> QED
    BY <2>1, <2>2, <2>3, <2>4, <2>5, <2>6 DEF IInv
<1>8. ASSUME NEW r \in requests, RejectLogin(r) PROVE IInv'
  <2>1. TypeOK'
    BY <1>a, <1>8 DEF IInv, TypeOK, Request, CallsAreKnown, RejectLogin, Answered
  <2>2. StoredSessionIsWhole'
    BY <1>a, <1>8
    DEF IInv, TypeOK, Request, StoredSessionIsWhole, CallsAreKnown, RejectLogin,
        Answered
  <2>3. ShownDataIsOwn'
    BY <1>a, <1>8
    DEF IInv, TypeOK, Request, StoredSessionIsWhole, ShownDataIsOwn, SignedOutIsBlank,
        CallsAreKnown, RejectLogin, Answered
  <2>4. DetailIsOwnChoice'
    BY <1>a, <1>8
    DEF IInv, TypeOK, Request, DetailIsOwnChoice, SignedOutIsBlank, RejectLogin,
        Answered
  <2>5. CallsAreKnown'
    BY <1>a, <1>8
    DEF IInv, TypeOK, Request, CallsAreKnown, StoredSessionIsWhole, RejectLogin,
        Answered
  <2>6. SignedOutIsBlank'
    BY <1>a, <1>8
    DEF IInv, TypeOK, Request, SignedOutIsBlank, CallsAreKnown, RejectLogin, Answered
  <2> QED
    BY <2>1, <2>2, <2>3, <2>4, <2>5, <2>6 DEF IInv
<1>9. ASSUME NEW r \in requests, Authorize(r) PROVE IInv'
  <2>1. TypeOK'
    BY <1>a, <1>9 DEF IInv, TypeOK, Request, CallsAreKnown, Authorize, Answered
  <2>2. StoredSessionIsWhole'
    BY <1>a, <1>9
    DEF IInv, TypeOK, Request, StoredSessionIsWhole, CallsAreKnown, Authorize, Answered
  <2>3. ShownDataIsOwn'
    BY <1>a, <1>9
    DEF IInv, TypeOK, Request, StoredSessionIsWhole, ShownDataIsOwn, SignedOutIsBlank,
        CallsAreKnown, Authorize, Answered
  <2>4. DetailIsOwnChoice'
    BY <1>a, <1>9
    DEF IInv, TypeOK, Request, DetailIsOwnChoice, SignedOutIsBlank, Authorize, Answered
  <2>5. CallsAreKnown'
    BY <1>a, <1>9
    DEF IInv, TypeOK, Request, CallsAreKnown, StoredSessionIsWhole, Authorize, Answered
  <2>6. SignedOutIsBlank'
    BY <1>a, <1>9
    DEF IInv, TypeOK, Request, SignedOutIsBlank, CallsAreKnown, Authorize, Answered
  <2> QED
    BY <2>1, <2>2, <2>3, <2>4, <2>5, <2>6 DEF IInv
<1>10. ASSUME NEW r \in requests, LoginSucceeds(r) PROVE IInv'
  <2>1. TypeOK'
    BY <1>a, <1>10 DEF IInv, TypeOK, Request, CallsAreKnown, LoginSucceeds, AfterLogin
  <2>2. StoredSessionIsWhole'
    BY <1>a, <1>10
    DEF IInv, TypeOK, Request, StoredSessionIsWhole, CallsAreKnown, LoginSucceeds,
        AfterLogin
  <2>3. ShownDataIsOwn'
    BY <1>a, <1>10
    DEF IInv, TypeOK, Request, StoredSessionIsWhole, ShownDataIsOwn, SignedOutIsBlank,
        CallsAreKnown, LoginSucceeds, AfterLogin
  <2>4. DetailIsOwnChoice'
    <3>1. tab[r.tab].user = None
      BY <1>a, <1>10 DEF IInv, CallsAreKnown, LoginSucceeds
    <3>2. tab[r.tab].view = "dashboard"
      BY <1>a, <1>b, <3>1 DEF IInv, SignedOutIsBlank, Request
    <3>3. tab' = [tab EXCEPT ![r.tab].user = r.user, ![r.tab].loading = FALSE]
          /\ picked' = picked
      BY <1>10 DEF LoginSucceeds
    <3>4. \A t \in Tabs : /\ t # r.tab => tab'[t] = tab[t]
                          /\ t = r.tab => tab'[t].view = "dashboard"
      BY <1>b, <3>2, <3>3 DEF TabState
    <3> QED
      BY <1>a, <3>3, <3>4 DEF IInv, DetailIsOwnChoice
  <2>5. CallsAreKnown'
    BY <1>a, <1>10
    DEF IInv, TypeOK, Request, CallsAreKnown, StoredSessionIsWhole, LoginSucceeds,
        AfterLogin
  <2>6. SignedOutIsBlank'
    BY <1>a, <1>10
    DEF IInv, TypeOK, Request, SignedOutIsBlank, CallsAreKnown, LoginSucceeds,
        AfterLogin
  <2> QED
    BY <2>1, <2>2, <2>3, <2>4, <2>5, <2>6 DEF IInv
<1>11. ASSUME NEW r \in requests, LoginRefused(r) PROVE IInv'
  <2>1. TypeOK'
    <3>1. tab' \in [Tabs -> TabState]
      BY <1>11, <1>b DEF TabState, Request, LoginRefused, AfterRefusal, NoSession
    <3>2. requests' \subseteq Request
      BY <1>11, <1>b DEF Request, LoginRefused, AfterRefusal, NoSession
    <3> QED
      BY <1>a, <1>11, <3>1, <3>2
      DEF IInv, TypeOK, TabState, LoginRefused, AfterRefusal, NoSession
  <2>2. StoredSessionIsWhole'
    BY <1>a, <1>11
    DEF IInv, TypeOK, Request, StoredSessionIsWhole, CallsAreKnown, LoginRefused,
        AfterRefusal, NoSession
  <2>3. ShownDataIsOwn'
    BY <1>a, <1>11
    DEF IInv, TypeOK, Request, StoredSessionIsWhole, ShownDataIsOwn, SignedOutIsBlank,
        CallsAreKnown, LoginRefused, AfterRefusal, NoSession
  <2>4. DetailIsOwnChoice'
    BY <1>a, <1>11
    DEF IInv, TypeOK, Request, DetailIsOwnChoice, SignedOutIsBlank, LoginRefused,
        AfterRefusal, NoSession
  <2>5. CallsAreKnown'
    BY <1>a, <1>11
    DEF IInv, TypeOK, Request, CallsAreKnown, StoredSessionIsWhole, LoginRefused,
        AfterRefusal, NoSession
  <2>6. SignedOutIsBlank'
    BY <1>a, <1>11
    DEF IInv, TypeOK, Request, SignedOutIsBlank, CallsAreKnown, LoginRefused,
        AfterRefusal, NoSession
  <2> QED
    BY <2>1, <2>2, <2>3, <2>4, <2>5, <2>6 DEF IInv
<1>12. ASSUME NEW r \in requests, PageAnswered(r) PROVE IInv'
  <2>1. TypeOK'
    BY <1>a, <1>12 DEF IInv, TypeOK, Request, CallsAreKnown, PageAnswered
  <2>2. StoredSessionIsWhole'
    BY <1>a, <1>12
    DEF IInv, TypeOK, Request, StoredSessionIsWhole, CallsAreKnown, PageAnswered
  <2>3. ShownDataIsOwn'
    BY <1>a, <1>12
    DEF IInv, TypeOK, Request, StoredSessionIsWhole, ShownDataIsOwn, SignedOutIsBlank,
        CallsAreKnown, PageAnswered
  <2>4. DetailIsOwnChoice'
    BY <1>a, <1>12
    DEF IInv, TypeOK, Request, DetailIsOwnChoice, SignedOutIsBlank, PageAnswered
  <2>5. CallsAreKnown'
    BY <1>a, <1>12
    DEF IInv, TypeOK, Request, CallsAreKnown, StoredSessionIsWhole, PageAnswered
  <2>6. SignedOutIsBlank'
    BY <1>a, <1>12
    DEF IInv, TypeOK, Request, SignedOutIsBlank, CallsAreKnown, PageAnswered
  <2> QED
    BY <2>1, <2>2, <2>3, <2>4, <2>5, <2>6 DEF IInv
<1>13. ASSUME NEW r \in requests, PageRefused(r) PROVE IInv'
  <2>1. TypeOK'
    BY <1>a, <1>13
    DEF IInv, TypeOK, Request, CallsAreKnown, PageRefused, AfterRefusal, NoSession,
        DataAfterFailure
  <2>2. StoredSessionIsWhole'
    BY <1>a, <1>13
    DEF IInv, TypeOK, Request, StoredSessionIsWhole, CallsAreKnown, PageRefused,
        AfterRefusal, NoSession, DataAfterFailure
  <2>3. ShownDataIsOwn'
    BY <1>a, <1>13
    DEF IInv, TypeOK, Request, StoredSessionIsWhole, ShownDataIsOwn, SignedOutIsBlank,
        CallsAreKnown, PageRefused, AfterRefusal, NoSession, DataAfterFailure
  <2>4. DetailIsOwnChoice'
    BY <1>a, <1>13
    DEF IInv, TypeOK, Request, DetailIsOwnChoice, SignedOutIsBlank, PageRefused,
        AfterRefusal, NoSession, DataAfterFailure
  <2>5. CallsAreKnown'
    BY <1>a, <1>13
    DEF IInv, TypeOK, Request, CallsAreKnown, StoredSessionIsWhole, PageRefused,
        AfterRefusal, NoSession, DataAfterFailure
  <2>6. SignedOutIsBlank'
    BY <1>a, <1>13
    DEF IInv, TypeOK, Request, SignedOutIsBlank, CallsAreKnown, PageRefused,
        AfterRefusal, NoSession, DataAfterFailure
  <2> QED
    BY <2>1, <2>2, <2>3, <2>4, <2>5, <2>6 DEF IInv
<1>14. ASSUME NEW r \in requests, TimeOut(r) PROVE IInv'
  <2>1. TypeOK'
    <3>1. CASE r.call = "login"
      <4>1. tab' = [tab EXCEPT ![r.tab].loading = FALSE]
        BY <3>1, <1>14 DEF TimeOut
      <4>2. tab' \in [Tabs -> TabState]
        BY <4>1, <1>b DEF TabState
      <4> QED
        BY <1>a, <1>14, <4>2 DEF IInv, TypeOK, TabState, TimeOut
    <3>2. CASE r.call = "page" /\ r.mounted
      <4>1. tab' = [tab EXCEPT ![r.tab].data = DataAfterFailure(r.tab)]
        BY <3>2, <1>14 DEF TimeOut
      <4>2. DataAfterFailure(r.tab) \in Users \cup {None}
        BY <1>b DEF TabState, Request, DataAfterFailure
      <4>3. tab' \in [Tabs -> TabState]
        BY <4>1, <4>2, <1>b DEF TabState
      <4> QED
        BY <1>a, <1>14, <4>3 DEF IInv, TypeOK, TabState, TimeOut
    <3>3. CASE r.call # "login" /\ ~(r.call = "page" /\ r.mounted)
      BY <1>a, <3>3, <1>14 DEF IInv, TypeOK, TimeOut
    <3> QED
      BY <3>1, <3>2, <3>3
  <2>2. StoredSessionIsWhole'
    BY <1>a, <1>14
    DEF IInv, TypeOK, Request, StoredSessionIsWhole, CallsAreKnown, TimeOut,
        DataAfterFailure
  <2>3. ShownDataIsOwn'
    BY <1>a, <1>14
    DEF IInv, TypeOK, Request, StoredSessionIsWhole, ShownDataIsOwn, SignedOutIsBlank,
        CallsAreKnown, TimeOut, DataAfterFailure
  <2>4. DetailIsOwnChoice'
    BY <1>a, <1>14
    DEF IInv, TypeOK, Request, DetailIsOwnChoice, SignedOutIsBlank, TimeOut,
        DataAfterFailure
  <2>5. CallsAreKnown'
    BY <1>a, <1>14
    DEF IInv, TypeOK, Request, CallsAreKnown, StoredSessionIsWhole, TimeOut,
        DataAfterFailure
  <2>6. SignedOutIsBlank'
    BY <1>a, <1>14
    DEF IInv, TypeOK, Request, SignedOutIsBlank, CallsAreKnown, TimeOut,
        DataAfterFailure
  <2> QED
    BY <2>1, <2>2, <2>3, <2>4, <2>5, <2>6 DEF IInv
<1>15. ASSUME NEW k \in Tokens, Expire(k) PROVE IInv'
  <2>1. TypeOK'
    BY <1>a, <1>15 DEF IInv, TypeOK, Request, CallsAreKnown, Expire
  <2>2. StoredSessionIsWhole'
    BY <1>a, <1>15
    DEF IInv, TypeOK, Request, StoredSessionIsWhole, CallsAreKnown, Expire
  <2>3. ShownDataIsOwn'
    BY <1>a, <1>15
    DEF IInv, TypeOK, Request, StoredSessionIsWhole, ShownDataIsOwn, SignedOutIsBlank,
        CallsAreKnown, Expire
  <2>4. DetailIsOwnChoice'
    BY <1>a, <1>15
    DEF IInv, TypeOK, Request, DetailIsOwnChoice, SignedOutIsBlank, Expire
  <2>5. CallsAreKnown'
    BY <1>a, <1>15
    DEF IInv, TypeOK, Request, CallsAreKnown, StoredSessionIsWhole, Expire
  <2>6. SignedOutIsBlank'
    BY <1>a, <1>15 DEF IInv, TypeOK, Request, SignedOutIsBlank, CallsAreKnown, Expire
  <2> QED
    BY <2>1, <2>2, <2>3, <2>4, <2>5, <2>6 DEF IInv
<1>16. CASE UNCHANGED vars
  BY <1>a, <1>16
  DEF IInv, TypeOK, vars, StoredSessionIsWhole, ShownDataIsOwn, DetailIsOwnChoice,
      CallsAreKnown, SignedOutIsBlank
<1> QED
  BY <1>a, <1>1, <1>2, <1>3, <1>4, <1>5, <1>6, <1>7, <1>8, <1>9, <1>10, <1>11, <1>12, <1>13, <1>14, <1>15, <1>16
  DEF Next, Answer

LEMMA Start == Init => IInv
  BY NoneIsNew
  DEF Init, IInv, TypeOK, NoSession, FreshTab, Views, Calling, Request,
      StoredSessionIsWhole, ShownDataIsOwn, DetailIsOwnChoice, CallsAreKnown,
      SignedOutIsBlank

LEMMA Invariance == Spec => []IInv
  BY Start, Step, PTL DEF Spec

\* Type correctness: localStorage never holds an account where a token belongs, and
\* data on the screen is always some account's.
THEOREM ConsoleTypeCorrect == Spec => []TypeOK
  BY Invariance, PTL DEF IInv

\* Whatever sign-ins, refusals and sign-outs of any number of tabs do to the
\* localStorage they share, it holds the session of one sign-in or none.
THEOREM SessionStaysWhole == Spec => []StoredSessionIsWhole
  BY Invariance, PTL DEF IInv

\* In any number of tabs, with any number of late answers, a tab shows and asks for
\* its own account's data, until another tab signs in as somebody else.
THEOREM NobodySeesOthersData == Spec => []ShownDataIsOwn
  BY Invariance, PTL DEF IInv

\* The detail page is of the account that chose the router, through any number of
\* sessions in the same tab.
THEOREM ChoiceIsNotInherited == Spec => []DetailIsOwnChoice
  BY Invariance, PTL DEF IInv
=============================================================================
