--------------------------- MODULE RemoteViewers ---------------------------
(***************************************************************************)
(* The viewers of the web console: the LuCI frame, the web terminal and the *)
(* file dialog that DeviceList, DeviceDetail and RmsConnect (pages/ of     *)
(* src/frontend/src) open over tunnels they request from the server, and   *)
(* the WebSocket that components/TerminalModal.tsx opens and closes.       *)
(*                                                                         *)
(* A page has one activeTunnelToken for all its viewers, and nothing stops *)
(* a user from asking for a second tunnel while the first is on its way.   *)
(* React applies what a handler sets between two awaits at once, and runs  *)
(* the terminal's effect, after its cleanup, when open or token changed.   *)
(***************************************************************************)
EXTENDS Naturals

CONSTANTS
    Routers,      \* the routers of the fleet
    MaxRequests,  \* bound: tunnel requests; each is answered with a token of its own
    Mock,         \* the tokens RmsConnect makes up: 'mock_token' and tun_<six digits>
    Unsent,       \* a token no request was made for yet
    None

Tokens == 1..MaxRequests

ASSUME BoundsAssumption == MaxRequests \in Nat
ASSUME MarksAssumption ==
    /\ {Mock, None} \cap Nat = {} /\ Mock # None
    /\ None \notin Routers
    /\ None \notin {"HTTP_LUCI", "TERMINAL_SSH", "SFTP"}

VARIABLES
    page,        \* the page App has mounted; "other": one without viewers
    router,      \* deviceId, the router of the detail page
    open,        \* the dialogs that are open, by the protocol they serve
    token,       \* activeTunnelToken
    name,        \* activeDeviceName, as the router it names; None: ''
    requesting,  \* requestingTunnel, the button that spins on the detail page
    sftp,        \* sftpActive: the detail page shows SFTP credentials
    sessions,    \* RmsConnect's table of sessions, by protocol
    request,     \* per token, the request for a tunnel, and then the tunnel
    sockets,     \* the terminal WebSockets of this browser
    raced        \* history: this page asked for two tunnels at the same time

viewers == <<open, token, name, sockets>>
vars == <<page, router, viewers, requesting, sftp, sessions, request, raced>>

Pages     == {"devices", "detail", "connect", "other"}
Protocols == {"HTTP_LUCI", "TERMINAL_SSH", "SFTP"}
Services  == Protocols \cup {"LAN_FORWARD"}
Showcase  == {"HTTP_LUCI", "TERMINAL_SSH", "LAN_FORWARD"}

Request == [proto : Protocols, device : Routers, mounted : BOOLEAN,
            stage : {"sent", "granted", "refused", "settled"}]

ASSUME UnsentAssumption == Unsent \notin Request

TypeOK ==
    /\ page \in Pages
    /\ router \in Routers \cup {None}
    /\ open \subseteq Services
    /\ token \in Tokens \cup {Mock, None}
    /\ name \in Routers \cup {None}
    /\ requesting \in Protocols \cup {None}
    /\ sftp \in BOOLEAN
    /\ sessions \subseteq Showcase
    /\ request \in [Tokens -> Request \cup {Unsent}]
    /\ sockets \subseteq [token : Tokens \cup {Mock},
                          state : {"connecting", "open", "closing"}]
    /\ raced \in BOOLEAN

-----------------------------------------------------------------------------
\* A dialog's mask covers the page and the menu.
Masked == open # {}

Sent(k)    == request[k] # Unsent
Pending(k) == Sent(k) /\ request[k].mounted /\ request[k].stage # "settled"

\* The cleanup of the terminal's effect closes the socket of its last run.
Cleanup ==
    {IF "TERMINAL_SSH" \in open /\ s.token = token
     THEN [s EXCEPT !.state = "closing"] ELSE s : s \in sockets}

\* Mutant of RunEffect: its dependencies are [open] only.
RunEffectOnOpen(o, k) ==
    sockets' = IF "TERMINAL_SSH" \in o <=> "TERMINAL_SSH" \in open THEN sockets
               ELSE Cleanup \cup {s \in [token : {k}, state : {"connecting"}] :
                                     "TERMINAL_SSH" \in o /\ k # None}

\* The effect runs when open or token changed; without either it does nothing more.
RunEffect(o, k) ==
    LET wanted == "TERMINAL_SSH" \in o /\ k # None IN
    sockets' = IF ("TERMINAL_SSH" \in o <=> "TERMINAL_SSH" \in open) /\ k = token
               THEN sockets
               ELSE Cleanup \cup
                    {s \in [token : {k}, state : {"connecting"}] : wanted}

\* The dialogs o are open and the page's token is k from now on.
Show(o, k) ==
    /\ open' = o /\ token' = k
    /\ RunEffect(o, k)

Init ==
    /\ page = "other" /\ router = None
    /\ open = {} /\ token = None /\ name = None
    /\ requesting = None /\ sftp = FALSE /\ sessions = Showcase
    /\ request = [k \in Tokens |-> Unsent]
    /\ sockets = {}
    /\ raced = FALSE

\* Another page is mounted with fresh state; what the old one asked for goes on.
Enter(p, r) ==
    /\ p # page /\ ~Masked
    /\ p = "detail" => page \in {"devices", "other"}
    /\ r = None <=> p # "detail"
    /\ page' = p /\ router' = r
    /\ open' = {} /\ name' = None
    /\ token' = IF p = "connect" THEN Mock ELSE None
    /\ sockets' = Cleanup
    /\ requesting' = None /\ sftp' = FALSE /\ sessions' = Showcase
    /\ request' = [k \in Tokens |->
           IF Sent(k) THEN [request[k] EXCEPT !.mounted = FALSE] ELSE Unsent]
    /\ raced' = FALSE

-----------------------------------------------------------------------------
\* requestTunnel: POST /tunnels/request.
Ask(k, p, r) ==
    /\ ~Sent(k) /\ \A j \in Tokens : j < k => Sent(j)
    /\ request' = [request EXCEPT ![k] =
           [proto |-> p, device |-> r, mounted |-> TRUE, stage |-> "sent"]]
    /\ raced' = (raced \/ \E j \in Tokens : Pending(j))

\* handleOpenTunnel of the list up to its await; the row's buttons stay active.
ListAsks(k, p, r) ==
    /\ page = "devices" /\ ~Masked
    /\ Ask(k, p, r)
    /\ UNCHANGED <<page, router, viewers, requesting, sftp, sessions>>

\* handleOpenLuci, handleOpenTerminal up to their await; the button that was pressed
\* last is inert.
DetailAsks(k, p) ==
    /\ page = "detail" /\ ~Masked /\ requesting # p /\ p # "SFTP"
    /\ requesting' = p
    /\ Ask(k, p, router)
    /\ UNCHANGED <<page, router, viewers, sftp, sessions>>

\* handleGenerateSftp up to its await: offered while no credentials are shown.
SftpAsks(k) ==
    /\ page = "detail" /\ ~Masked /\ requesting # "SFTP" /\ ~sftp
    /\ requesting' = "SFTP"
    /\ Ask(k, "SFTP", router)
    /\ UNCHANGED <<page, router, viewers, sftp, sessions>>

Progress(k, stage) == request' = [request EXCEPT ![k].stage = stage]

\* The server opens the tunnel.
Grant(k) ==
    /\ Sent(k) /\ request[k].stage = "sent"
    /\ Progress(k, "granted")
    /\ UNCHANGED <<page, router, viewers, requesting, sftp, sessions, raced>>

\* It refuses, fails, or does not answer in ten seconds.
Refuse(k) ==
    /\ Sent(k) /\ request[k].stage = "sent"
    /\ Progress(k, "refused")
    /\ UNCHANGED <<page, router, viewers, requesting, sftp, sessions, raced>>

Answered(k, stage) == Sent(k) /\ request[k].mounted /\ request[k].stage = stage

\* Mutant of ListOpens: a token that is there is kept.
ListOpensKeeping(k) ==
    /\ page = "devices" /\ Answered(k, "granted")
    /\ Show(open \cup {request[k].proto}, IF token = None THEN k ELSE token)
    /\ name' = request[k].device
    /\ Progress(k, "settled")
    /\ UNCHANGED <<page, router, requesting, sftp, sessions, raced>>

\* handleOpenTunnel goes on: one token and one name for all three viewers.
ListOpens(k) ==
    /\ page = "devices" /\ Answered(k, "granted")
    /\ Show(open \cup {request[k].proto}, k)
    /\ name' = request[k].device
    /\ Progress(k, "settled")
    /\ UNCHANGED <<page, router, requesting, sftp, sessions, raced>>

\* Mutants of DetailOpens: a token that is there is kept; there is no finally.
DetailOpensKeeping(k) ==
    /\ page = "detail" /\ Answered(k, "granted") /\ request[k].proto # "SFTP"
    /\ Show(open \cup {request[k].proto}, IF token = None THEN k ELSE token)
    /\ requesting' = None
    /\ Progress(k, "settled")
    /\ UNCHANGED <<page, router, name, sftp, sessions, raced>>
DetailOpensSpinning(k) ==
    /\ page = "detail" /\ Answered(k, "granted") /\ request[k].proto # "SFTP"
    /\ Show(open \cup {request[k].proto}, k)
    /\ Progress(k, "settled")
    /\ UNCHANGED <<page, router, name, requesting, sftp, sessions, raced>>

\* The detail page's two viewers; the finally of either stops whatever spins.
DetailOpens(k) ==
    /\ page = "detail" /\ Answered(k, "granted") /\ request[k].proto # "SFTP"
    /\ Show(open \cup {request[k].proto}, k)
    /\ requesting' = None
    /\ Progress(k, "settled")
    /\ UNCHANGED <<page, router, name, sftp, sessions, raced>>

\* handleGenerateSftp goes on: port and password are made up, the token is dropped.
SftpShown(k) ==
    /\ page = "detail" /\ Answered(k, "granted") /\ request[k].proto = "SFTP"
    /\ sftp' = TRUE /\ requesting' = None
    /\ Progress(k, "settled")
    /\ UNCHANGED <<page, router, viewers, sessions, raced>>

\* Mutant of Failed: without a finally.
FailedSpinning(k) ==
    /\ Answered(k, "refused")
    /\ Progress(k, "settled")
    /\ UNCHANGED <<page, router, viewers, requesting, sftp, sessions, raced>>

\* Their catch, and the finally of the detail page's.
Failed(k) ==
    /\ Answered(k, "refused")
    /\ requesting' = None
    /\ Progress(k, "settled")
    /\ UNCHANGED <<page, router, viewers, sftp, sessions, raced>>

\* The answer finds its page gone.
Unheard(k) ==
    /\ Sent(k) /\ ~request[k].mounted /\ request[k].stage \in {"granted", "refused"}
    /\ Progress(k, "settled")
    /\ UNCHANGED <<page, router, viewers, requesting, sftp, sessions, raced>>

-----------------------------------------------------------------------------
\* "SFTP Files" of the detail page asks nobody.
ShowFiles ==
    /\ page = "detail" /\ ~Masked
    /\ open' = {"SFTP"}
    /\ UNCHANGED <<page, router, token, name, sockets, requesting, sftp, sessions,
                   request, raced>>

\* handleTerminateSftp: nothing is sent to the server.
TerminateSftp ==
    /\ page = "detail" /\ ~Masked /\ sftp
    /\ sftp' = FALSE
    /\ UNCHANGED <<page, router, viewers, requesting, sessions, request, raced>>

\* onClose of a dialog; the list's terminal takes the page's token with it.
Close(p) ==
    /\ p \in open
    /\ Show(open \ {p},
            IF page = "devices" /\ p = "TERMINAL_SSH" THEN None ELSE token)
    /\ UNCHANGED <<page, router, name, requesting, sftp, sessions, request, raced>>

\* handleLaunchTunnel of RmsConnect: the token is made up, the server not asked.
Launch(p, r) ==
    /\ page = "connect" /\ ~Masked
    /\ Show({p}, Mock)
    /\ name' = r
    /\ UNCHANGED <<page, router, requesting, sftp, sessions, request, raced>>

\* "Open Viewer" of a session; a LAN session only shows its address.
OpenViewer(p, r) ==
    /\ page = "connect" /\ ~Masked /\ p \in sessions
    /\ Show(IF p \in Protocols THEN {p} ELSE {}, token)
    /\ name' = r
    /\ UNCHANGED <<page, router, requesting, sftp, sessions, request, raced>>

\* handleTerminate: the row goes, nothing is sent to the server.
Terminate(p) ==
    /\ page = "connect" /\ ~Masked /\ p \in sessions
    /\ sessions' = sessions \ {p}
    /\ UNCHANGED <<page, router, viewers, requesting, sftp, request, raced>>

-----------------------------------------------------------------------------
\* onopen; the gateway knows the tokens of the server only.
SocketOpens(s) ==
    /\ s.state = "connecting" /\ s.token # Mock
    /\ sockets' = (sockets \ {s}) \cup {[s EXCEPT !.state = "open"]}
    /\ UNCHANGED <<page, router, open, token, name, requesting, sftp, sessions,
                   request, raced>>

\* onclose: closed, refused or lost; the terminal stays up and does not reconnect.
SocketEnds(s) ==
    /\ sockets' = sockets \ {s}
    /\ UNCHANGED <<page, router, open, token, name, requesting, sftp, sessions,
                   request, raced>>

Serve(k)  == Grant(k) \/ Refuse(k)
Resume(k) == ListOpens(k) \/ DetailOpens(k) \/ SftpShown(k) \/ Failed(k) \/ Unheard(k)

Next ==
    \/ \E p \in Pages, r \in Routers \cup {None} : Enter(p, r)
    \/ \E k \in Tokens :
          \/ \E p \in Protocols : DetailAsks(k, p) \/ \E r \in Routers : ListAsks(k, p, r)
          \/ SftpAsks(k)
          \/ Serve(k) \/ Resume(k)
    \/ ShowFiles \/ TerminateSftp
    \/ \E p \in Services :
          Close(p) \/ Terminate(p) \/ \E r \in Routers : Launch(p, r) \/ OpenViewer(p, r)
    \/ \E s \in sockets : SocketOpens(s) \/ SocketEnds(s)

Spec == Init /\ [][Next]_vars

\* Requests end, since axios gives each ten seconds, and what follows an await runs.
FairSpec == Spec /\ \A k \in Tokens : WF_vars(Serve(k)) /\ WF_vars(Resume(k))

-----------------------------------------------------------------------------
\* The router a viewer's title names.
Title == IF page = "detail" THEN router ELSE name

\* Whatever is asked for twice, answered late or in the wrong order: a LuCI frame or a
\* terminal is connected to the router its title names.
TitleNamesRouter ==
    token \in Tokens /\ open \cap {"HTTP_LUCI", "TERMINAL_SSH"} # {} =>
        request[token].device = Title

\* The browser keeps no shell open that nobody sees: all sockets are on their way to
\* be closed, except one, and only while its terminal is open and shows its token.
SocketIsShown ==
    \A s, t \in sockets :
        s.state # "closing" =>
            /\ "TERMINAL_SSH" \in open /\ s.token = token
            /\ t.state # "closing" => s = t

\* Unless a page has asked for two tunnels at the same time, which gives both viewers
\* the token of the later answer, the terminal runs over a terminal tunnel and the
\* LuCI frame over an HTTP one.
ViewerOwnsTunnel ==
    token \in Tokens /\ ~raced =>
        \A p \in open \cap {"HTTP_LUCI", "TERMINAL_SSH"} : request[token].proto = p

\* The button that spins stands for a request of its own kind that is not answered,
\* although every answer stops whichever button spins.
SpinnerHasRequest ==
    requesting # None =>
        \E k \in Tokens : Pending(k) /\ request[k].proto = requesting

\* No button spins for ever: also when both tunnels it could stand for are refused.
ButtonsComeBack == requesting # None ~> requesting = None
=============================================================================
