------------------------ MODULE RemoteViewers_proofs ------------------------
(***************************************************************************)
(* Proofs about RemoteViewers, for any number of routers and of tunnel     *)
(* requests in flight: its type invariant and its four invariants.         *)
(***************************************************************************)
EXTENDS RemoteViewers, TLAPS

\* Each page has its own kind of state: only the detail page has a router and a button
\* that spins, and where no tunnel is asked for no token of the server is.
StateOfPage ==
    /\ router = None <=> page # "detail"
    /\ requesting # None => page = "detail"
    /\ page \notin {"devices", "detail"} => token \notin Tokens

\* The page's token is that of a request for the router its title names.
TokenIsKnown == token \in Tokens => Sent(token) /\ request[token].device = Title

\* What a page may still hear of was asked for by this page, and on the detail page for
\* its router.
CallersAreThere ==
    \A k \in Tokens : Sent(k) /\ request[k].mounted =>
        /\ page \in {"devices", "detail"}
        /\ page = "detail" => request[k].device = router

\* Without a race there is one tunnel on its way, and none while a viewer is up.
OneAtATime ==
    ~raced => /\ \A j, k \in Tokens : Pending(j) /\ Pending(k) => j = k
              /\ open \cap {"HTTP_LUCI", "TERMINAL_SSH"} # {} =>
                    \A k \in Tokens : ~Pending(k)

\* The inductive invariant.
IInv ==
    /\ TypeOK
    /\ StateOfPage
    /\ TokenIsKnown
    /\ CallersAreThere
    /\ OneAtATime
    /\ SocketIsShown
    /\ ViewerOwnsTunnel
    /\ SpinnerHasRequest

-----------------------------------------------------------------------------
\* A terminal socket, as TypeOK has it.
Socket == [token : Tokens \cup {Mock}, state : {"connecting", "open", "closing"}]

\* What a new request leaves true of all requests, the new one included.
AskKeeps(k, p, r) ==
    /\ request' \in [Tokens -> Request \cup {Unsent}] /\ raced' \in BOOLEAN
    /\ Pending(k)' /\ request'[k].proto = p
    /\ \A j \in Tokens : Pending(j) => Pending(j)' /\ request'[j] = request[j]
    /\ TokenIsKnown' /\ CallersAreThere' /\ OneAtATime'
    /\ SocketIsShown' /\ ViewerOwnsTunnel'

LEMMA AskLemma ==
  ASSUME IInv, ~Masked, page \in {"devices", "detail"},
         NEW k \in Tokens, NEW p \in Protocols, NEW r \in Routers,
         page = "detail" => r = router, Ask(k, p, r),
         UNCHANGED <<page, router, viewers, sftp, sessions>>
  PROVE  AskKeeps(k, p, r)
<1> DEFINE q == [proto |-> p, device |-> r, mounted |-> TRUE, stage |-> "sent"]
<1>a. q \in Request
  BY DEF Request
<1>1. q \in Request /\ q # Unsent
  BY <1>a, UnsentAssumption
<1>2. /\ q.proto = p /\ q.device = r /\ q.mounted /\ q.stage # "settled"
  OBVIOUS
<1>3. request' = [request EXCEPT ![k] = q] /\ ~Sent(k)
  BY DEF Ask
<1> HIDE DEF q
<1>4. request' \in [Tokens -> Request \cup {Unsent}]
  BY <1>1, <1>3 DEF IInv, TypeOK
<1>5. /\ request'[k] = q
      /\ \A j \in Tokens \ {k} : request'[j] = request[j]
  BY <1>3 DEF IInv, TypeOK
<1>6. Pending(k)' /\ ~Pending(k)
  BY <1>1, <1>2, <1>3, <1>5 DEF Pending, Sent
<1>7. \A j \in Tokens : Pending(j) => Pending(j)' /\ request'[j] = request[j]
  BY <1>5, <1>6 DEF Pending, Sent
<1>8. raced' \in BOOLEAN /\ (~raced' => ~raced /\ \A j \in Tokens : ~Pending(j))
  BY DEF Ask, IInv, TypeOK
<1>9. open = {} /\ open' = open /\ token' = token /\ sockets' = sockets /\ name' = name
  BY DEF Masked, viewers
<1>10. TokenIsKnown'
  BY <1>3, <1>5, <1>9 DEF IInv, TokenIsKnown, Title, Sent
<1>11. CallersAreThere'
  BY <1>2, <1>5 DEF IInv, CallersAreThere, Sent
<1>12. OneAtATime'
  BY <1>5, <1>8, <1>9 DEF OneAtATime, Pending, Sent
<1>13. SocketIsShown' /\ ViewerOwnsTunnel'
  BY <1>9 DEF IInv, SocketIsShown, ViewerOwnsTunnel
<1> QED
  BY <1>2, <1>4, <1>5, <1>6, <1>7, <1>8, <1>10, <1>11, <1>12, <1>13 DEF AskKeeps

\* A request that makes progress stays what it is otherwise.
ProgressKeeps(k, stage) ==
    /\ request' \in [Tokens -> Request \cup {Unsent}]
    /\ \A j \in Tokens \ {k} : request'[j] = request[j]
    /\ Sent(k)' /\ request'[k].stage = stage /\ request'[k].proto = request[k].proto
    /\ request'[k].device = request[k].device
    /\ request'[k].mounted = request[k].mounted

LEMMA ProgressLemma ==
  ASSUME TypeOK, NEW k \in Tokens, Sent(k),
         NEW stage \in {"granted", "refused", "settled"}, Progress(k, stage)
  PROVE  ProgressKeeps(k, stage)
<1> DEFINE q == [request[k] EXCEPT !.stage = stage]
<1>1. request[k] \in Request
  BY DEF TypeOK, Sent
<1>2. /\ q \in Request /\ q.stage = stage /\ q.proto = request[k].proto
      /\ q.device = request[k].device /\ q.mounted = request[k].mounted
  BY <1>1 DEF Request
<1>3. request' = [request EXCEPT ![k] = q]
  BY DEF Progress
<1> HIDE DEF q
<1> QED
  BY <1>2, <1>3, UnsentAssumption DEF ProgressKeeps, TypeOK, Sent

\* However the dialogs and the token change, the effect leaves one socket that is shown.
LEMMA ShowLemma ==
  ASSUME sockets \subseteq Socket, SocketIsShown,
         NEW o, NEW k \in Tokens \cup {Mock, None}, Show(o, k)
  PROVE  sockets' \subseteq Socket /\ SocketIsShown'
<1> DEFINE terminal == "TERMINAL_SSH"
<1>1. open' = o /\ token' = k
  BY DEF Show
<1>2. CASE (terminal \in o <=> terminal \in open) /\ k = token
  BY <1>1, <1>2 DEF Show, RunEffect, SocketIsShown
<1>3. CASE ~((terminal \in o <=> terminal \in open) /\ k = token)
  <2>1. Cleanup \subseteq Socket /\ \A s \in Cleanup : s.state = "closing"
    BY DEF Cleanup, SocketIsShown, Socket
  <2>2. sockets' = Cleanup \cup {s \in [token : {k}, state : {"connecting"}] :
                                     terminal \in o /\ k # None}
    BY <1>3 DEF Show, RunEffect
  <2>3. \A s \in sockets' \ Cleanup :
           /\ s = [token |-> k, state |-> "connecting"]
           /\ terminal \in o /\ k # None
    BY <2>2
  <2> QED
    BY <1>1, <2>1, <2>3 DEF SocketIsShown, Socket
<1> QED
  BY <1>2, <1>3

\* Every action keeps every part of the invariant.
LEMMA Step == IInv /\ [Next]_vars => IInv'
<1>a. SUFFICES ASSUME IInv, [Next]_vars PROVE IInv'
  OBVIOUS
<1>b. TypeOK /\ StateOfPage
  BY <1>a DEF IInv
<1> USE BoundsAssumption, MarksAssumption DEF Tokens, Pages, Protocols, Services, Showcase
<1>1. ASSUME NEW p \in Pages, NEW r \in Routers \cup {None}, Enter(p, r) PROVE IInv'
  <2>1. TypeOK'
    <3>1. page' \in Pages /\ router' \in Routers \cup {None}
      BY <1>1 DEF Enter
    <3>2. request' \in [Tokens -> Request \cup {Unsent}]
      <4>1. \A k \in Tokens : Sent(k) => [request[k] EXCEPT !.mounted = FALSE] \in Request
        BY <1>b DEF TypeOK, Request, Sent
      <4> QED
        BY <1>1, <4>1 DEF Enter
    <3>3. sockets' \subseteq Socket
      BY <1>b, <1>1 DEF TypeOK, Enter, Masked, Cleanup, Socket
    <3>4. token' \in Tokens \cup {Mock, None} /\ name' \in Routers \cup {None}
      BY <1>1 DEF Enter
    <3>5. /\ open' \subseteq Services /\ requesting' \in Protocols \cup {None}
          /\ sftp' \in BOOLEAN /\ sessions' \subseteq Showcase /\ raced' \in BOOLEAN
      BY <1>1 DEF Enter
    <3> QED
      BY <3>1, <3>2, <3>3, <3>4, <3>5 DEF TypeOK, Socket
  <2>2. StateOfPage'
    BY <1>a, <1>b, <1>1 DEF IInv, TypeOK, StateOfPage, Enter, Masked, Cleanup
  <2>3. TokenIsKnown'
    BY <1>a, <1>b, <1>1
    DEF IInv, TypeOK, TokenIsKnown, StateOfPage, Title, CallersAreThere, Sent, Enter,
        Masked, Cleanup
  <2>4. CallersAreThere'
    BY <1>a, <1>b, <1>1
    DEF IInv, TypeOK, CallersAreThere, StateOfPage, Sent, Enter, Masked, Cleanup
  <2>5. OneAtATime'
    BY <1>a, <1>b, <1>1
    DEF IInv, TypeOK, OneAtATime, Pending, Sent, CallersAreThere, Enter, Masked, Cleanup
  <2>6. SocketIsShown'
    BY <1>a, <1>b, <1>1 DEF IInv, TypeOK, SocketIsShown, Enter, Masked, Cleanup
  <2>7. ViewerOwnsTunnel'
    BY <1>a, <1>b, <1>1
    DEF IInv, TypeOK, ViewerOwnsTunnel, OneAtATime, TokenIsKnown, Pending, Sent,
        StateOfPage, Enter, Masked, Cleanup
  <2>8. SpinnerHasRequest'
    BY <1>a, <1>b, <1>1
    DEF IInv, TypeOK, SpinnerHasRequest, StateOfPage, Pending, Sent, Enter, Masked,
        Cleanup
  <2> QED
    BY <2>1, <2>2, <2>3, <2>4, <2>5, <2>6, <2>7, <2>8 DEF IInv
<1>2. ASSUME NEW k \in Tokens, NEW p \in Protocols, DetailAsks(k, p) PROVE IInv'
  <2>a. ~Masked /\ Ask(k, p, router) /\ UNCHANGED <<page, router, viewers, sftp, sessions>>
    BY <1>2 DEF DetailAsks
  <2>b. router \in Routers /\ p \in Protocols /\ page \in {"devices", "detail"}
    BY <1>b, <1>2 DEF TypeOK, StateOfPage, DetailAsks
  <2>c. AskKeeps(k, p, router)
    BY <1>a, <2>a, <2>b, AskLemma
  <2>1. TypeOK'
    BY <1>a, <1>2, <2>a, <2>c DEF AskKeeps, IInv, TypeOK, viewers, DetailAsks, Ask
  <2>2. StateOfPage'
    BY <1>a, <1>2 DEF IInv, StateOfPage, viewers, DetailAsks
  <2>3. TokenIsKnown'
    BY <2>c DEF AskKeeps
  <2>4. CallersAreThere'
    BY <2>c DEF AskKeeps
  <2>5. OneAtATime'
    BY <2>c DEF AskKeeps
  <2>6. SocketIsShown'
    BY <2>c DEF AskKeeps
  <2>7. ViewerOwnsTunnel'
    BY <2>c DEF AskKeeps
  <2>8. SpinnerHasRequest'
    BY <1>a, <1>2, <2>c DEF AskKeeps, IInv, SpinnerHasRequest, StateOfPage, DetailAsks
  <2> QED
    BY <2>1, <2>2, <2>3, <2>4, <2>5, <2>6, <2>7, <2>8 DEF IInv
<1>3. ASSUME NEW k \in Tokens, NEW p \in Protocols, NEW r \in Routers, ListAsks(k, p, r) PROVE IInv'
  <2>a. ~Masked /\ Ask(k, p, r) /\ UNCHANGED <<page, router, viewers, sftp, sessions>>
    BY <1>3 DEF ListAsks
  <2>b. r \in Routers /\ p \in Protocols /\ page \in {"devices", "detail"}
    BY <1>b, <1>3 DEF TypeOK, StateOfPage, ListAsks
  <2>c. AskKeeps(k, p, r)
    BY <1>a, <2>a, <2>b, AskLemma, <1>3 DEF ListAsks
  <2>1. TypeOK'
    BY <1>a, <1>3, <2>a, <2>c DEF AskKeeps, IInv, TypeOK, viewers, ListAsks, Ask
  <2>2. StateOfPage'
    BY <1>a, <1>3 DEF IInv, StateOfPage, viewers, ListAsks
  <2>3. TokenIsKnown'
    BY <2>c DEF AskKeeps
  <2>4. CallersAreThere'
    BY <2>c DEF AskKeeps
  <2>5. OneAtATime'
    BY <2>c DEF AskKeeps
  <2>6. SocketIsShown'
    BY <2>c DEF AskKeeps
  <2>7. ViewerOwnsTunnel'
    BY <2>c DEF AskKeeps
  <2>8. SpinnerHasRequest'
    BY <1>a, <1>3, <2>c DEF AskKeeps, IInv, SpinnerHasRequest, StateOfPage, ListAsks
  <2> QED
    BY <2>1, <2>2, <2>3, <2>4, <2>5, <2>6, <2>7, <2>8 DEF IInv
<1>4. ASSUME NEW k \in Tokens, SftpAsks(k) PROVE IInv'
  <2>a. ~Masked /\ Ask(k, "SFTP", router) /\ UNCHANGED <<page, router, viewers, sftp, sessions>>
    BY <1>4 DEF SftpAsks
  <2>b. router \in Routers /\ "SFTP" \in Protocols /\ page \in {"devices", "detail"}
    BY <1>b, <1>4 DEF TypeOK, StateOfPage, SftpAsks
  <2>c. AskKeeps(k, "SFTP", router)
    BY <1>a, <2>a, <2>b, AskLemma
  <2>1. TypeOK'
    BY <1>a, <1>4, <2>a, <2>c DEF AskKeeps, IInv, TypeOK, viewers, SftpAsks, Ask
  <2>2. StateOfPage'
    BY <1>a, <1>4 DEF IInv, StateOfPage, viewers, SftpAsks
  <2>3. TokenIsKnown'
    BY <2>c DEF AskKeeps
  <2>4. CallersAreThere'
    BY <2>c DEF AskKeeps
  <2>5. OneAtATime'
    BY <2>c DEF AskKeeps
  <2>6. SocketIsShown'
    BY <2>c DEF AskKeeps
  <2>7. ViewerOwnsTunnel'
    BY <2>c DEF AskKeeps
  <2>8. SpinnerHasRequest'
    BY <1>a, <1>4, <2>c DEF AskKeeps, IInv, SpinnerHasRequest, StateOfPage, SftpAsks
  <2> QED
    BY <2>1, <2>2, <2>3, <2>4, <2>5, <2>6, <2>7, <2>8 DEF IInv
<1>5. ASSUME NEW k \in Tokens, Grant(k) PROVE IInv'
  <2>p. ProgressKeeps(k, "granted")
    BY <1>b, <1>5, ProgressLemma DEF Grant, Answered
  <2>1. TypeOK'
    BY <1>a, <1>b, <1>5, <2>p
    DEF IInv, ProgressKeeps, TypeOK, Request, StateOfPage, Socket, Grant, viewers
  <2>2. StateOfPage'
    BY <1>a, <1>b, <1>5, <2>p
    DEF IInv, ProgressKeeps, TypeOK, Request, StateOfPage, Grant, viewers
  <2>3. TokenIsKnown'
    BY <1>a, <1>b, <1>5, <2>p
    DEF IInv, ProgressKeeps, TypeOK, Request, TokenIsKnown, StateOfPage, Title,
        CallersAreThere, Sent, Grant, viewers
  <2>4. CallersAreThere'
    BY <1>a, <1>b, <1>5, <2>p
    DEF IInv, ProgressKeeps, TypeOK, Request, CallersAreThere, StateOfPage, Sent, Grant,
        viewers
  <2>5. OneAtATime'
    BY <1>a, <1>b, <1>5, <2>p
    DEF IInv, ProgressKeeps, TypeOK, Request, OneAtATime, Pending, Sent, CallersAreThere,
        Grant, viewers
  <2>6. SocketIsShown'
    BY <1>a, <1>b, <1>5, <2>p
    DEF IInv, ProgressKeeps, TypeOK, Request, SocketIsShown, Grant, viewers
  <2>7. ViewerOwnsTunnel'
    BY <1>a, <1>b, <1>5, <2>p
    DEF IInv, ProgressKeeps, TypeOK, Request, ViewerOwnsTunnel, OneAtATime, TokenIsKnown,
        Pending, Sent, StateOfPage, Grant, viewers
  <2>8. SpinnerHasRequest'
    BY <1>a, <1>b, <1>5, <2>p
    DEF IInv, ProgressKeeps, TypeOK, Request, SpinnerHasRequest, StateOfPage, Pending,
        Sent, Grant, viewers
  <2> QED
    BY <2>1, <2>2, <2>3, <2>4, <2>5, <2>6, <2>7, <2>8 DEF IInv
<1>6. ASSUME NEW k \in Tokens, Refuse(k) PROVE IInv'
  <2>p. ProgressKeeps(k, "refused")
    BY <1>b, <1>6, ProgressLemma DEF Refuse, Answered
  <2>1. TypeOK'
    BY <1>a, <1>b, <1>6, <2>p
    DEF IInv, ProgressKeeps, TypeOK, Request, StateOfPage, Socket, Refuse, viewers
  <2>2. StateOfPage'
    BY <1>a, <1>b, <1>6, <2>p
    DEF IInv, ProgressKeeps, TypeOK, Request, StateOfPage, Refuse, viewers
  <2>3. TokenIsKnown'
    BY <1>a, <1>b, <1>6, <2>p
    DEF IInv, ProgressKeeps, TypeOK, Request, TokenIsKnown, StateOfPage, Title,
        CallersAreThere, Sent, Refuse, viewers
  <2>4. CallersAreThere'
    BY <1>a, <1>b, <1>6, <2>p
    DEF IInv, ProgressKeeps, TypeOK, Request, CallersAreThere, StateOfPage, Sent, Refuse,
        viewers
  <2>5. OneAtATime'
    BY <1>a, <1>b, <1>6, <2>p
    DEF IInv, ProgressKeeps, TypeOK, Request, OneAtATime, Pending, Sent, CallersAreThere,
        Refuse, viewers
  <2>6. SocketIsShown'
    BY <1>a, <1>b, <1>6, <2>p
    DEF IInv, ProgressKeeps, TypeOK, Request, SocketIsShown, Refuse, viewers
  <2>7. ViewerOwnsTunnel'
    BY <1>a, <1>b, <1>6, <2>p
    DEF IInv, ProgressKeeps, TypeOK, Request, ViewerOwnsTunnel, OneAtATime, TokenIsKnown,
        Pending, Sent, StateOfPage, Refuse, viewers
  <2>8. SpinnerHasRequest'
    BY <1>a, <1>b, <1>6, <2>p
    DEF IInv, ProgressKeeps, TypeOK, Request, SpinnerHasRequest, StateOfPage, Pending,
        Sent, Refuse, viewers
  <2> QED
    BY <2>1, <2>2, <2>3, <2>4, <2>5, <2>6, <2>7, <2>8 DEF IInv
<1>7. ASSUME NEW k \in Tokens, ListOpens(k) PROVE IInv'
  <2>s. sockets' \subseteq Socket /\ SocketIsShown'
    <3> DEFINE o == open \cup {request[k].proto}
    <3> DEFINE new == k
    <3>1. Show(o, new) /\ new \in Tokens \cup {Mock, None}
      BY <1>b, <1>7 DEF ListOpens, Answered, TypeOK
    <3> HIDE DEF o, new
    <3> QED
      BY <1>a, <1>b, <3>1, ShowLemma DEF IInv, TypeOK, Socket
  <2>p. ProgressKeeps(k, "settled")
    BY <1>b, <1>7, ProgressLemma DEF ListOpens, Answered
  <2>1. TypeOK'
    BY <1>a, <1>b, <1>7, <2>p, <2>s
    DEF IInv, ProgressKeeps, TypeOK, Request, StateOfPage, Socket, ListOpens, Answered,
        Show
  <2>2. StateOfPage'
    BY <1>a, <1>b, <1>7, <2>p, <2>s
    DEF IInv, ProgressKeeps, TypeOK, Request, StateOfPage, ListOpens, Answered, Show
  <2>3. TokenIsKnown'
    BY <1>a, <1>b, <1>7, <2>p, <2>s
    DEF IInv, ProgressKeeps, TypeOK, Request, TokenIsKnown, StateOfPage, Title,
        CallersAreThere, Sent, ListOpens, Answered, Show
  <2>4. CallersAreThere'
    BY <1>a, <1>b, <1>7, <2>p, <2>s
    DEF IInv, ProgressKeeps, TypeOK, Request, CallersAreThere, StateOfPage, Sent,
        ListOpens, Answered, Show
  <2>5. OneAtATime'
    BY <1>a, <1>b, <1>7, <2>p, <2>s
    DEF IInv, ProgressKeeps, TypeOK, Request, OneAtATime, Pending, Sent, CallersAreThere,
        ListOpens, Answered, Show
  <2>6. SocketIsShown'
    BY <2>s
  <2>7. ViewerOwnsTunnel'
    BY <1>a, <1>b, <1>7, <2>p, <2>s
    DEF IInv, ProgressKeeps, TypeOK, Request, ViewerOwnsTunnel, OneAtATime, TokenIsKnown,
        Pending, Sent, StateOfPage, ListOpens, Answered, Show
  <2>8. SpinnerHasRequest'
    BY <1>a, <1>b, <1>7, <2>p, <2>s
    DEF IInv, ProgressKeeps, TypeOK, Request, SpinnerHasRequest, StateOfPage, Pending,
        Sent, ListOpens, Answered, Show
  <2> QED
    BY <2>1, <2>2, <2>3, <2>4, <2>5, <2>6, <2>7, <2>8 DEF IInv
<1>8. ASSUME NEW k \in Tokens, DetailOpens(k) PROVE IInv'
  <2>s. sockets' \subseteq Socket /\ SocketIsShown'
    <3> DEFINE o == open \cup {request[k].proto}
    <3> DEFINE new == k
    <3>1. Show(o, new) /\ new \in Tokens \cup {Mock, None}
      BY <1>b, <1>8 DEF DetailOpens, Answered, TypeOK
    <3> HIDE DEF o, new
    <3> QED
      BY <1>a, <1>b, <3>1, ShowLemma DEF IInv, TypeOK, Socket
  <2>p. ProgressKeeps(k, "settled")
    BY <1>b, <1>8, ProgressLemma DEF DetailOpens, Answered
  <2>1. TypeOK'
    BY <1>a, <1>b, <1>8, <2>p, <2>s
    DEF IInv, ProgressKeeps, TypeOK, Request, StateOfPage, Socket, DetailOpens, Answered,
        Show
  <2>2. StateOfPage'
    BY <1>a, <1>b, <1>8, <2>p, <2>s
    DEF IInv, ProgressKeeps, TypeOK, Request, StateOfPage, DetailOpens, Answered, Show
  <2>3. TokenIsKnown'
    BY <1>a, <1>b, <1>8, <2>p, <2>s
    DEF IInv, ProgressKeeps, TypeOK, Request, TokenIsKnown, StateOfPage, Title,
        CallersAreThere, Sent, DetailOpens, Answered, Show
  <2>4. CallersAreThere'
    BY <1>a, <1>b, <1>8, <2>p, <2>s
    DEF IInv, ProgressKeeps, TypeOK, Request, CallersAreThere, StateOfPage, Sent,
        DetailOpens, Answered, Show
  <2>5. OneAtATime'
    BY <1>a, <1>b, <1>8, <2>p, <2>s
    DEF IInv, ProgressKeeps, TypeOK, Request, OneAtATime, Pending, Sent, CallersAreThere,
        DetailOpens, Answered, Show
  <2>6. SocketIsShown'
    BY <2>s
  <2>7. ViewerOwnsTunnel'
    BY <1>a, <1>b, <1>8, <2>p, <2>s
    DEF IInv, ProgressKeeps, TypeOK, Request, ViewerOwnsTunnel, OneAtATime, TokenIsKnown,
        Pending, Sent, StateOfPage, DetailOpens, Answered, Show
  <2>8. SpinnerHasRequest'
    BY <1>a, <1>b, <1>8, <2>p, <2>s
    DEF IInv, ProgressKeeps, TypeOK, Request, SpinnerHasRequest, StateOfPage, Pending,
        Sent, DetailOpens, Answered, Show
  <2> QED
    BY <2>1, <2>2, <2>3, <2>4, <2>5, <2>6, <2>7, <2>8 DEF IInv
<1>9. ASSUME NEW k \in Tokens, SftpShown(k) PROVE IInv'
  <2>p. ProgressKeeps(k, "settled")
    BY <1>b, <1>9, ProgressLemma DEF SftpShown, Answered
  <2>1. TypeOK'
    BY <1>a, <1>b, <1>9, <2>p
    DEF IInv, ProgressKeeps, TypeOK, Request, StateOfPage, Socket, SftpShown, Answered,
        viewers
  <2>2. StateOfPage'
    BY <1>a, <1>b, <1>9, <2>p
    DEF IInv, ProgressKeeps, TypeOK, Request, StateOfPage, SftpShown, Answered, viewers
  <2>3. TokenIsKnown'
    BY <1>a, <1>b, <1>9, <2>p
    DEF IInv, ProgressKeeps, TypeOK, Request, TokenIsKnown, StateOfPage, Title,
        CallersAreThere, Sent, SftpShown, Answered, viewers
  <2>4. CallersAreThere'
    BY <1>a, <1>b, <1>9, <2>p
    DEF IInv, ProgressKeeps, TypeOK, Request, CallersAreThere, StateOfPage, Sent,
        SftpShown, Answered, viewers
  <2>5. OneAtATime'
    BY <1>a, <1>b, <1>9, <2>p
    DEF IInv, ProgressKeeps, TypeOK, Request, OneAtATime, Pending, Sent, CallersAreThere,
        SftpShown, Answered, viewers
  <2>6. SocketIsShown'
    BY <1>a, <1>b, <1>9, <2>p
    DEF IInv, ProgressKeeps, TypeOK, Request, SocketIsShown, SftpShown, Answered,
        viewers
  <2>7. ViewerOwnsTunnel'
    BY <1>a, <1>b, <1>9, <2>p
    DEF IInv, ProgressKeeps, TypeOK, Request, ViewerOwnsTunnel, OneAtATime, TokenIsKnown,
        Pending, Sent, StateOfPage, SftpShown, Answered, viewers
  <2>8. SpinnerHasRequest'
    BY <1>a, <1>b, <1>9, <2>p
    DEF IInv, ProgressKeeps, TypeOK, Request, SpinnerHasRequest, StateOfPage, Pending,
        Sent, SftpShown, Answered, viewers
  <2> QED
    BY <2>1, <2>2, <2>3, <2>4, <2>5, <2>6, <2>7, <2>8 DEF IInv
<1>10. ASSUME NEW k \in Tokens, Failed(k) PROVE IInv'
  <2>p. ProgressKeeps(k, "settled")
    BY <1>b, <1>10, ProgressLemma DEF Failed, Answered
  <2>1. TypeOK'
    BY <1>a, <1>b, <1>10, <2>p
    DEF IInv, ProgressKeeps, TypeOK, Request, StateOfPage, Socket, Failed, Answered,
        viewers
  <2>2. StateOfPage'
    BY <1>a, <1>b, <1>10, <2>p
    DEF IInv, ProgressKeeps, TypeOK, Request, StateOfPage, Failed, Answered, viewers
  <2>3. TokenIsKnown'
    BY <1>a, <1>b, <1>10, <2>p
    DEF IInv, ProgressKeeps, TypeOK, Request, TokenIsKnown, StateOfPage, Title,
        CallersAreThere, Sent, Failed, Answered, viewers
  <2>4. CallersAreThere'
    BY <1>a, <1>b, <1>10, <2>p
    DEF IInv, ProgressKeeps, TypeOK, Request, CallersAreThere, StateOfPage, Sent, Failed,
        Answered, viewers
  <2>5. OneAtATime'
    BY <1>a, <1>b, <1>10, <2>p
    DEF IInv, ProgressKeeps, TypeOK, Request, OneAtATime, Pending, Sent, CallersAreThere,
        Failed, Answered, viewers
  <2>6. SocketIsShown'
    BY <1>a, <1>b, <1>10, <2>p
    DEF IInv, ProgressKeeps, TypeOK, Request, SocketIsShown, Failed, Answered, viewers
  <2>7. ViewerOwnsTunnel'
    BY <1>a, <1>b, <1>10, <2>p
    DEF IInv, ProgressKeeps, TypeOK, Request, ViewerOwnsTunnel, OneAtATime, TokenIsKnown,
        Pending, Sent, StateOfPage, Failed, Answered, viewers
  <2>8. SpinnerHasRequest'
    BY <1>a, <1>b, <1>10, <2>p
    DEF IInv, ProgressKeeps, TypeOK, Request, SpinnerHasRequest, StateOfPage, Pending,
        Sent, Failed, Answered, viewers
  <2> QED
    BY <2>1, <2>2, <2>3, <2>4, <2>5, <2>6, <2>7, <2>8 DEF IInv
<1>11. ASSUME NEW k \in Tokens, Unheard(k) PROVE IInv'
  <2>p. ProgressKeeps(k, "settled")
    BY <1>b, <1>11, ProgressLemma DEF Unheard, Answered
  <2>1. TypeOK'
    BY <1>a, <1>b, <1>11, <2>p
    DEF IInv, ProgressKeeps, TypeOK, Request, StateOfPage, Socket, Unheard, viewers
  <2>2. StateOfPage'
    BY <1>a, <1>b, <1>11, <2>p
    DEF IInv, ProgressKeeps, TypeOK, Request, StateOfPage, Unheard, viewers
  <2>3. TokenIsKnown'
    BY <1>a, <1>b, <1>11, <2>p
    DEF IInv, ProgressKeeps, TypeOK, Request, TokenIsKnown, StateOfPage, Title,
        CallersAreThere, Sent, Unheard, viewers
  <2>4. CallersAreThere'
    BY <1>a, <1>b, <1>11, <2>p
    DEF IInv, ProgressKeeps, TypeOK, Request, CallersAreThere, StateOfPage, Sent,
        Unheard, viewers
  <2>5. OneAtATime'
    BY <1>a, <1>b, <1>11, <2>p
    DEF IInv, ProgressKeeps, TypeOK, Request, OneAtATime, Pending, Sent, CallersAreThere,
        Unheard, viewers
  <2>6. SocketIsShown'
    BY <1>a, <1>b, <1>11, <2>p
    DEF IInv, ProgressKeeps, TypeOK, Request, SocketIsShown, Unheard, viewers
  <2>7. ViewerOwnsTunnel'
    BY <1>a, <1>b, <1>11, <2>p
    DEF IInv, ProgressKeeps, TypeOK, Request, ViewerOwnsTunnel, OneAtATime, TokenIsKnown,
        Pending, Sent, StateOfPage, Unheard, viewers
  <2>8. SpinnerHasRequest'
    BY <1>a, <1>b, <1>11, <2>p
    DEF IInv, ProgressKeeps, TypeOK, Request, SpinnerHasRequest, StateOfPage, Pending,
        Sent, Unheard, viewers
  <2> QED
    BY <2>1, <2>2, <2>3, <2>4, <2>5, <2>6, <2>7, <2>8 DEF IInv
<1>12. CASE ShowFiles
  <2>1. TypeOK'
    BY <1>a, <1>b, <1>12 DEF IInv, TypeOK, StateOfPage, ShowFiles, Masked
  <2>2. StateOfPage'
    BY <1>a, <1>b, <1>12 DEF IInv, TypeOK, StateOfPage, ShowFiles, Masked
  <2>3. TokenIsKnown'
    BY <1>a, <1>b, <1>12
    DEF IInv, TypeOK, TokenIsKnown, StateOfPage, Title, CallersAreThere, Sent, ShowFiles,
        Masked
  <2>4. CallersAreThere'
    BY <1>a, <1>b, <1>12
    DEF IInv, TypeOK, CallersAreThere, StateOfPage, Sent, ShowFiles, Masked
  <2>5. OneAtATime'
    BY <1>a, <1>b, <1>12
    DEF IInv, TypeOK, OneAtATime, Pending, Sent, CallersAreThere, ShowFiles, Masked
  <2>6. SocketIsShown'
    BY <1>a, <1>b, <1>12 DEF IInv, TypeOK, SocketIsShown, ShowFiles, Masked
  <2>7. ViewerOwnsTunnel'
    BY <1>a, <1>b, <1>12
    DEF IInv, TypeOK, ViewerOwnsTunnel, OneAtATime, TokenIsKnown, Pending, Sent,
        StateOfPage, ShowFiles, Masked
  <2>8. SpinnerHasRequest'
    BY <1>a, <1>b, <1>12
    DEF IInv, TypeOK, SpinnerHasRequest, StateOfPage, Pending, Sent, ShowFiles, Masked
  <2> QED
    BY <2>1, <2>2, <2>3, <2>4, <2>5, <2>6, <2>7, <2>8 DEF IInv
<1>13. CASE TerminateSftp
  <2>1. TypeOK'
    BY <1>a, <1>b, <1>13 DEF IInv, TypeOK, StateOfPage, TerminateSftp, viewers
  <2>2. StateOfPage'
    BY <1>a, <1>b, <1>13 DEF IInv, TypeOK, StateOfPage, TerminateSftp, viewers
  <2>3. TokenIsKnown'
    BY <1>a, <1>b, <1>13
    DEF IInv, TypeOK, TokenIsKnown, StateOfPage, Title, CallersAreThere, Sent,
        TerminateSftp, viewers
  <2>4. CallersAreThere'
    BY <1>a, <1>b, <1>13
    DEF IInv, TypeOK, CallersAreThere, StateOfPage, Sent, TerminateSftp, viewers
  <2>5. OneAtATime'
    BY <1>a, <1>b, <1>13
    DEF IInv, TypeOK, OneAtATime, Pending, Sent, CallersAreThere, TerminateSftp, viewers
  <2>6. SocketIsShown'
    BY <1>a, <1>b, <1>13 DEF IInv, TypeOK, SocketIsShown, TerminateSftp, viewers
  <2>7. ViewerOwnsTunnel'
    BY <1>a, <1>b, <1>13
    DEF IInv, TypeOK, ViewerOwnsTunnel, OneAtATime, TokenIsKnown, Pending, Sent,
        StateOfPage, TerminateSftp, viewers
  <2>8. SpinnerHasRequest'
    BY <1>a, <1>b, <1>13
    DEF IInv, TypeOK, SpinnerHasRequest, StateOfPage, Pending, Sent, TerminateSftp,
        viewers
  <2> QED
    BY <2>1, <2>2, <2>3, <2>4, <2>5, <2>6, <2>7, <2>8 DEF IInv
<1>14. ASSUME NEW p \in Services, Close(p) PROVE IInv'
  <2>s. sockets' \subseteq Socket /\ SocketIsShown'
    <3> DEFINE o == open \ {p}
    <3> DEFINE new == IF page = "devices" /\ p = "TERMINAL_SSH" THEN None ELSE token
    <3>1. Show(o, new) /\ new \in Tokens \cup {Mock, None}
      BY <1>b, <1>14 DEF Close, TypeOK
    <3> HIDE DEF o, new
    <3> QED
      BY <1>a, <1>b, <3>1, ShowLemma DEF IInv, TypeOK, Socket
  <2>1. TypeOK'
    BY <1>a, <1>b, <1>14, <2>s DEF IInv, TypeOK, Socket, StateOfPage, Close, Show
  <2>2. StateOfPage'
    BY <1>a, <1>b, <1>14, <2>s DEF IInv, TypeOK, Socket, StateOfPage, Close, Show
  <2>3. TokenIsKnown'
    <3>1. token' \in {None, token} /\ UNCHANGED <<request, page, router, name>>
      BY <1>14 DEF Close, Show
    <3>2. None \notin Tokens
      OBVIOUS
    <3> QED
      BY <1>a, <3>1, <3>2 DEF IInv, TokenIsKnown, Title, Sent
  <2>4. CallersAreThere'
    BY <1>a, <1>b, <1>14, <2>s
    DEF IInv, TypeOK, Socket, CallersAreThere, StateOfPage, Sent, Close, Show
  <2>5. OneAtATime'
    BY <1>a, <1>b, <1>14, <2>s
    DEF IInv, TypeOK, Socket, OneAtATime, Pending, Sent, CallersAreThere, Close, Show
  <2>6. SocketIsShown'
    BY <2>s
  <2>7. ViewerOwnsTunnel'
    BY <1>a, <1>b, <1>14, <2>s
    DEF IInv, TypeOK, Socket, ViewerOwnsTunnel, OneAtATime, TokenIsKnown, Pending, Sent,
        StateOfPage, Close, Show
  <2>8. SpinnerHasRequest'
    BY <1>a, <1>b, <1>14, <2>s
    DEF IInv, TypeOK, Socket, SpinnerHasRequest, StateOfPage, Pending, Sent, Close, Show
  <2> QED
    BY <2>1, <2>2, <2>3, <2>4, <2>5, <2>6, <2>7, <2>8 DEF IInv
<1>15. ASSUME NEW p \in Services, Terminate(p) PROVE IInv'
  <2>1. TypeOK'
    BY <1>a, <1>b, <1>15 DEF IInv, TypeOK, StateOfPage, Terminate, viewers
  <2>2. StateOfPage'
    BY <1>a, <1>b, <1>15 DEF IInv, TypeOK, StateOfPage, Terminate, viewers
  <2>3. TokenIsKnown'
    BY <1>a, <1>b, <1>15
    DEF IInv, TypeOK, TokenIsKnown, StateOfPage, Title, CallersAreThere, Sent, Terminate,
        viewers
  <2>4. CallersAreThere'
    BY <1>a, <1>b, <1>15
    DEF IInv, TypeOK, CallersAreThere, StateOfPage, Sent, Terminate, viewers
  <2>5. OneAtATime'
    BY <1>a, <1>b, <1>15
    DEF IInv, TypeOK, OneAtATime, Pending, Sent, CallersAreThere, Terminate, viewers
  <2>6. SocketIsShown'
    BY <1>a, <1>b, <1>15 DEF IInv, TypeOK, SocketIsShown, Terminate, viewers
  <2>7. ViewerOwnsTunnel'
    BY <1>a, <1>b, <1>15
    DEF IInv, TypeOK, ViewerOwnsTunnel, OneAtATime, TokenIsKnown, Pending, Sent,
        StateOfPage, Terminate, viewers
  <2>8. SpinnerHasRequest'
    BY <1>a, <1>b, <1>15
    DEF IInv, TypeOK, SpinnerHasRequest, StateOfPage, Pending, Sent, Terminate, viewers
  <2> QED
    BY <2>1, <2>2, <2>3, <2>4, <2>5, <2>6, <2>7, <2>8 DEF IInv
<1>16. ASSUME NEW p \in Services, NEW r \in Routers, Launch(p, r) PROVE IInv'
  <2>s. sockets' \subseteq Socket /\ SocketIsShown'
    <3> DEFINE o == {p}
    <3> DEFINE new == Mock
    <3>1. Show(o, new) /\ new \in Tokens \cup {Mock, None}
      BY <1>b, <1>16 DEF Launch, Masked, TypeOK
    <3> HIDE DEF o, new
    <3> QED
      BY <1>a, <1>b, <3>1, ShowLemma DEF IInv, TypeOK, Socket
  <2>1. TypeOK'
    BY <1>a, <1>b, <1>16, <2>s
    DEF IInv, TypeOK, Socket, StateOfPage, Launch, Show, Masked
  <2>2. StateOfPage'
    BY <1>a, <1>b, <1>16, <2>s
    DEF IInv, TypeOK, Socket, StateOfPage, Launch, Show, Masked
  <2>3. TokenIsKnown'
    BY <1>a, <1>b, <1>16, <2>s
    DEF IInv, TypeOK, Socket, TokenIsKnown, StateOfPage, Title, CallersAreThere, Sent,
        Launch, Show, Masked
  <2>4. CallersAreThere'
    BY <1>a, <1>b, <1>16, <2>s
    DEF IInv, TypeOK, Socket, CallersAreThere, StateOfPage, Sent, Launch, Show, Masked
  <2>5. OneAtATime'
    BY <1>a, <1>b, <1>16, <2>s
    DEF IInv, TypeOK, Socket, OneAtATime, Pending, Sent, CallersAreThere, Launch, Show,
        Masked
  <2>6. SocketIsShown'
    BY <2>s
  <2>7. ViewerOwnsTunnel'
    BY <1>a, <1>b, <1>16, <2>s
    DEF IInv, TypeOK, Socket, ViewerOwnsTunnel, OneAtATime, TokenIsKnown, Pending, Sent,
        StateOfPage, Launch, Show, Masked
  <2>8. SpinnerHasRequest'
    BY <1>a, <1>b, <1>16, <2>s
    DEF IInv, TypeOK, Socket, SpinnerHasRequest, StateOfPage, Pending, Sent, Launch,
        Show, Masked
  <2> QED
    BY <2>1, <2>2, <2>3, <2>4, <2>5, <2>6, <2>7, <2>8 DEF IInv
<1>17. ASSUME NEW p \in Services, NEW r \in Routers, OpenViewer(p, r) PROVE IInv'
  <2>s. sockets' \subseteq Socket /\ SocketIsShown'
    <3> DEFINE o == IF p \in Protocols THEN {p} ELSE {}
    <3> DEFINE new == token
    <3>1. Show(o, new) /\ new \in Tokens \cup {Mock, None}
      BY <1>b, <1>17 DEF OpenViewer, Masked, TypeOK
    <3> HIDE DEF o, new
    <3> QED
      BY <1>a, <1>b, <3>1, ShowLemma DEF IInv, TypeOK, Socket
  <2>1. TypeOK'
    BY <1>a, <1>b, <1>17, <2>s
    DEF IInv, TypeOK, Socket, StateOfPage, OpenViewer, Show, Masked
  <2>2. StateOfPage'
    BY <1>a, <1>b, <1>17, <2>s
    DEF IInv, TypeOK, Socket, StateOfPage, OpenViewer, Show, Masked
  <2>3. TokenIsKnown'
    BY <1>a, <1>b, <1>17, <2>s
    DEF IInv, TypeOK, Socket, TokenIsKnown, StateOfPage, Title, CallersAreThere, Sent,
        OpenViewer, Show, Masked
  <2>4. CallersAreThere'
    BY <1>a, <1>b, <1>17, <2>s
    DEF IInv, TypeOK, Socket, CallersAreThere, StateOfPage, Sent, OpenViewer, Show,
        Masked
  <2>5. OneAtATime'
    BY <1>a, <1>b, <1>17, <2>s
    DEF IInv, TypeOK, Socket, OneAtATime, Pending, Sent, CallersAreThere, OpenViewer,
        Show, Masked
  <2>6. SocketIsShown'
    BY <2>s
  <2>7. ViewerOwnsTunnel'
    BY <1>a, <1>b, <1>17, <2>s
    DEF IInv, TypeOK, Socket, ViewerOwnsTunnel, OneAtATime, TokenIsKnown, Pending, Sent,
        StateOfPage, OpenViewer, Show, Masked
  <2>8. SpinnerHasRequest'
    BY <1>a, <1>b, <1>17, <2>s
    DEF IInv, TypeOK, Socket, SpinnerHasRequest, StateOfPage, Pending, Sent, OpenViewer,
        Show, Masked
  <2> QED
    BY <2>1, <2>2, <2>3, <2>4, <2>5, <2>6, <2>7, <2>8 DEF IInv
<1>18. ASSUME NEW s \in sockets, SocketOpens(s) PROVE IInv'
  <2>1. TypeOK'
    BY <1>a, <1>b, <1>18 DEF IInv, TypeOK, StateOfPage, SocketOpens
  <2>2. StateOfPage'
    BY <1>a, <1>b, <1>18 DEF IInv, TypeOK, StateOfPage, SocketOpens
  <2>3. TokenIsKnown'
    BY <1>a, <1>b, <1>18
    DEF IInv, TypeOK, TokenIsKnown, StateOfPage, Title, CallersAreThere, Sent,
        SocketOpens
  <2>4. CallersAreThere'
    BY <1>a, <1>b, <1>18
    DEF IInv, TypeOK, CallersAreThere, StateOfPage, Sent, SocketOpens
  <2>5. OneAtATime'
    BY <1>a, <1>b, <1>18
    DEF IInv, TypeOK, OneAtATime, Pending, Sent, CallersAreThere, SocketOpens
  <2>6. SocketIsShown'
    BY <1>a, <1>b, <1>18 DEF IInv, TypeOK, SocketIsShown, SocketOpens
  <2>7. ViewerOwnsTunnel'
    BY <1>a, <1>b, <1>18
    DEF IInv, TypeOK, ViewerOwnsTunnel, OneAtATime, TokenIsKnown, Pending, Sent,
        StateOfPage, SocketOpens
  <2>8. SpinnerHasRequest'
    BY <1>a, <1>b, <1>18
    DEF IInv, TypeOK, SpinnerHasRequest, StateOfPage, Pending, Sent, SocketOpens
  <2> QED
    BY <2>1, <2>2, <2>3, <2>4, <2>5, <2>6, <2>7, <2>8 DEF IInv
<1>19. ASSUME NEW s \in sockets, SocketEnds(s) PROVE IInv'
  <2>1. TypeOK'
    BY <1>a, <1>b, <1>19 DEF IInv, TypeOK, StateOfPage, SocketEnds
  <2>2. StateOfPage'
    BY <1>a, <1>b, <1>19 DEF IInv, TypeOK, StateOfPage, SocketEnds
  <2>3. TokenIsKnown'
    BY <1>a, <1>b, <1>19
    DEF IInv, TypeOK, TokenIsKnown, StateOfPage, Title, CallersAreThere, Sent,
        SocketEnds
  <2>4. CallersAreThere'
    BY <1>a, <1>b, <1>19
    DEF IInv, TypeOK, CallersAreThere, StateOfPage, Sent, SocketEnds
  <2>5. OneAtATime'
    BY <1>a, <1>b, <1>19
    DEF IInv, TypeOK, OneAtATime, Pending, Sent, CallersAreThere, SocketEnds
  <2>6. SocketIsShown'
    BY <1>a, <1>b, <1>19 DEF IInv, TypeOK, SocketIsShown, SocketEnds
  <2>7. ViewerOwnsTunnel'
    BY <1>a, <1>b, <1>19
    DEF IInv, TypeOK, ViewerOwnsTunnel, OneAtATime, TokenIsKnown, Pending, Sent,
        StateOfPage, SocketEnds
  <2>8. SpinnerHasRequest'
    BY <1>a, <1>b, <1>19
    DEF IInv, TypeOK, SpinnerHasRequest, StateOfPage, Pending, Sent, SocketEnds
  <2> QED
    BY <2>1, <2>2, <2>3, <2>4, <2>5, <2>6, <2>7, <2>8 DEF IInv
<1>20. CASE UNCHANGED vars
  BY <1>a, <1>20
  DEF IInv, TypeOK, vars, viewers, StateOfPage, TokenIsKnown, CallersAreThere,
      OneAtATime, SocketIsShown, ViewerOwnsTunnel, SpinnerHasRequest, Sent, Pending,
      Title
<1> QED
  BY <1>a, <1>1, <1>2, <1>3, <1>4, <1>5, <1>6, <1>7, <1>8, <1>9, <1>10, <1>11,
     <1>12, <1>13, <1>14, <1>15, <1>16, <1>17, <1>18, <1>19, <1>20
  DEF Next, Serve, Resume

LEMMA Start == Init => IInv
<1> SUFFICES ASSUME Init PROVE IInv
  OBVIOUS
<1> USE MarksAssumption DEF Init, Tokens
<1>1. TypeOK
  BY DEF TypeOK, Pages, Protocols, Services, Showcase
<1>2. \A k \in Tokens : ~Sent(k)
  BY DEF Sent
<1>3. token \notin Tokens
  OBVIOUS
<1> QED
  BY <1>1, <1>2, <1>3
  DEF IInv, StateOfPage, TokenIsKnown, CallersAreThere, OneAtATime, SocketIsShown,
      ViewerOwnsTunnel, SpinnerHasRequest, Pending

LEMMA Invariance == Spec => []IInv
  BY Start, Step, PTL DEF Spec

\* Type correctness, for any number of routers and requests.
THEOREM ViewersTypeCorrect == Spec => []TypeOK
  BY Invariance, PTL DEF IInv

\* However many tunnels a page asks for, and in whatever order they are granted, a
\* viewer is connected to the router its title names.
THEOREM TitlesTellTheTruth == Spec => []TitleNamesRouter
<1>1. IInv => TitleNamesRouter
  BY DEF IInv, TokenIsKnown, TitleNamesRouter
<1> QED
  BY Invariance, <1>1, PTL

\* Whatever is opened, closed, exchanged or left, there is never a socket that nobody
\* sees and nobody is closing.
THEOREM NoForgottenShell == Spec => []SocketIsShown
  BY Invariance, PTL DEF IInv

\* Without two requests at the same time every viewer runs over a tunnel of its kind.
THEOREM ViewersGetTheirTunnel == Spec => []ViewerOwnsTunnel
  BY Invariance, PTL DEF IInv

\* A button that spins stands for an unanswered request, though all share one flag.
THEOREM SpinnersAreHonest == Spec => []SpinnerHasRequest
  BY Invariance, PTL DEF IInv
=============================================================================
