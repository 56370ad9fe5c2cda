--------------------------- MODULE TunnelGateway ---------------------------
(***************************************************************************)
(* One remote-access session of the RMS Connect gateway                    *)
(* (backend/internal/tunnel/tunnel.go): a TunnelPair shared by the         *)
(* goroutines of every WebSocket the router opens for the session's token  *)
(* (RouterInletWS), of every browser terminal (BrowserOutletWS) and of     *)
(* every proxied LuCI request (HttpProxyHandler).  A pair is reached only  *)
(* through its token, so one pair is the whole system.                     *)
(*                                                                         *)
(* The goroutines interleave at the locks.  A critical section of          *)
(* pair.Mutex that cannot block is one step, enabled while the mutex is    *)
(* free; the one that can block, pw.Write in the router's read loop, is    *)
(* two, and pair.mutex names the loop that sits in it.  A message stays on *)
(* the wire until the step that forwards it: reading it and then waiting   *)
(* for the mutex is the same behaviour with an invisible step more.        *)
(***************************************************************************)
EXTENDS Integers, Sequences, FiniteSets

CONSTANTS
    RConns,     \* WebSocket connections the router may open with the token
    BConns,     \* browser terminals that may attach to the session
    Reqs,       \* HTTP requests that may be proxied to the router's LuCI
    None,       \* a nil pointer, a free lock
    Chunks,     \* messages in the answer to a request, the head first
    BufferCap,  \* the cap of InitialBuffer (64 KiB in the code), in units of bytes
    MaxSize,    \* bound: the length of a message to InitialBuffer, in those units
    MaxOutput,  \* bound: terminal messages of one router connection
    Aborters,   \* the requests whose client may go away before the end
    Laggards,   \* the requests the router may leave unanswered for 30 s
    MaxRestarts \* bound: restarts of the gateway process

ASSUME ConnAssumption ==
    /\ None \notin RConns \cup BConns \cup Reqs
    /\ RConns \cap Reqs = {}
ASSUME BoundAssumption ==
    /\ Chunks \in Nat \ {0} /\ BufferCap \in Nat /\ MaxSize \in Nat \ {0}
    /\ MaxOutput \in Nat /\ MaxRestarts \in Nat

VARIABLES
    session, \* the registry entry and the tunnel_sessions row of the token
    pair,    \* the TunnelPair
    router,  \* per router connection: its handler, and the connection itself
    browser, \* per browser connection: likewise
    req      \* per proxied request: its handler, its pipe, its client

vars == <<session, pair, router, browser, req>>

\* A message on the tunnel: the n-th of the answer to a request, or the n-th
\* terminal output of a router connection.
Message == [src : Reqs \cup RConns, n : Nat \ {0}]

Answer(r) == [k \in 1..Chunks |-> [src |-> r, n |-> k]]

\* Where a request's handler is while it holds HttpLock, and where a router
\* handler is from its attach to its teardown.
Serving == {"locked", "piped", "waiting", "copying", "draining", "cleanup", "release"}
Attached == {"attached", "reading", "writing", "teardown"}

\* registered: the token is a key of activeTunnels; dispatched: open_tunnel was
\* published; expired: ExpiresAt has passed; status: the row's column.
Session == [registered : BOOLEAN, dispatched : BOOLEAN, expired : BOOLEAN,
            status : {"NONE", "PENDING", "ACTIVE", "TERMINATED"}, restarts : 0..MaxRestarts]

\* buffer: the messages in InitialBuffer; kept: its length.
Pair == [routerConn : RConns \cup {None}, browserConn : BConns \cup {None}, active : BOOLEAN,
         buffer : Seq(Message), kept : Nat, pipeWriter : Reqs \cup {None},
         mutex : RConns \cup {None}, httpLock : Reqs \cup {None}]

\* wire: what the router has sent, or owes, and the gateway has not forwarded;
\* out: how many terminal messages the router has sent.
RouterPc == {"idle", "upgraded", "dbterm", "done"} \cup Attached

Router == [pc : RouterPc, open : BOOLEAN, wire : Seq(Message), out : 0..MaxOutput]

\* gap: after how many messages the terminal misses what a full buffer refused
\* (0: nothing is missing); only a property reads it.
Browser == [pc : {"idle", "upgraded", "reading", "teardown", "done"},
            open : BOOLEAN, shown : Seq(Message), gap : Nat]

\* conn: the local routerConn; pipe: neither end of the io.Pipe is closed;
\* reader: the goroutine in http.ReadResponse; got: what was read from the pipe.
RequestPc == {"idle", "polling", "queued", "done"} \cup Serving
Outcome   == {"none", "ok", "404", "500", "502", "504", "canceled", "truncated"}

Request == [pc : RequestPc, aborted : BOOLEAN, conn : RConns \cup {None}, pipe : BOOLEAN,
            reader : {"idle", "reading", "head", "error"}, got : Seq(Message),
            outcome : Outcome]

NewPair == [routerConn |-> None, browserConn |-> None, active |-> FALSE, buffer |-> <<>>,
            kept |-> 0, pipeWriter |-> None, mutex |-> None, httpLock |-> None]

Init ==
    /\ session = [registered |-> FALSE, dispatched |-> FALSE, expired |-> FALSE,
                  status |-> "NONE", restarts |-> 0]
    /\ pair = NewPair
    /\ router = [c \in RConns |-> [pc |-> "idle", open |-> FALSE, wire |-> <<>>, out |-> 0]]
    /\ browser = [b \in BConns |-> [pc |-> "idle", open |-> FALSE, shown |-> <<>>,
                                  gap |-> 0]]
    /\ req = [r \in Reqs |-> [pc |-> "idle", aborted |-> FALSE, conn |-> None, pipe |-> FALSE,
                              reader |-> "idle", got |-> <<>>, outcome |-> "none"]]

MutexFree == pair.mutex = None

-----------------------------------------------------------------------------
(* The session: its creation, its expiry, a restart of the gateway.        *)

\* The row is created PENDING, the pair registered, and only then the command
\* published; a failed publish is ignored.
RequestTunnel ==
    /\ session.status = "NONE"
    /\ \E published \in BOOLEAN :
          session' = [session EXCEPT !.registered = TRUE, !.status = "PENDING",
                                     !.dispatched = published]
    /\ UNCHANGED <<pair, router, browser, req>>

\* Fifteen minutes pass.  Nothing in the gateway runs then: ExpiresAt is only
\* looked at when a connection or a request comes in.
Expire ==
    /\ session.registered /\ ~session.expired
    /\ session' = [session EXCEPT !.expired = TRUE]
    /\ UNCHANGED <<pair, router, browser, req>>

Admitted == session.registered /\ ~session.expired
Refused  == session.status # "NONE" /\ ~Admitted

\* The process stops and starts again.  activeTunnels is only in memory, the
\* tunnel_sessions row is not; every open connection is closed.
Killed(pc) == IF pc = "idle" THEN "idle" ELSE "done"

Restart ==
    /\ session.registered /\ session.restarts < MaxRestarts
    /\ session' = [session EXCEPT !.registered = FALSE, !.restarts = @ + 1]
    /\ pair' = NewPair
    /\ router' = [c \in RConns |->
                    [router[c] EXCEPT !.pc = Killed(@), !.open = FALSE, !.wire = <<>>]]
    /\ browser' = [b \in BConns |-> [browser[b] EXCEPT !.pc = Killed(@), !.open = FALSE]]
    /\ req' = [r \in Reqs |->
                 [req[r] EXCEPT !.pc = Killed(@), !.pipe = FALSE,
                                !.reader = IF @ = "idle" THEN "idle" ELSE "error"]]

-----------------------------------------------------------------------------
(* The router's side: RouterInletWS.                                       *)

RouterAt(c, pc) == router[c].pc = pc
RouterTo(c, pc) == router' = [router EXCEPT ![c].pc = pc]

\* The command reached the router (MQTT may deliver it more than once), and it
\* dials in: upgraded, or refused with 403.
RouterAccept(c) ==
    /\ RouterAt(c, "idle") /\ session.dispatched /\ Admitted
    /\ router' = [router EXCEPT ![c].pc = "upgraded", ![c].open = TRUE]
    /\ UNCHANGED <<session, pair, browser, req>>

RouterReject(c) ==
    /\ RouterAt(c, "idle") /\ session.dispatched /\ Refused
    /\ RouterTo(c, "done")
    /\ UNCHANGED <<session, pair, browser, req>>

\* The last connection wins; one that is registered already is not closed.
RouterAttach(c) ==
    /\ RouterAt(c, "upgraded") /\ MutexFree
    /\ pair' = [pair EXCEPT !.routerConn = c, !.active = TRUE]
    /\ RouterTo(c, "attached")
    /\ UNCHANGED <<session, browser, req>>

RouterMarkActive(c) ==
    /\ RouterAt(c, "attached")
    /\ session' = [session EXCEPT !.status = "ACTIVE"]
    /\ RouterTo(c, "reading")
    /\ UNCHANGED <<pair, browser, req>>

CanForward(c) == RouterAt(c, "reading") /\ router[c].wire # <<>> /\ MutexFree
Forwarded(c)  == router' = [router EXCEPT ![c].wire = Tail(@)]

\* No pipe: the terminal gets the message, or nobody when its socket is dead.
RouterToBrowser(c) ==
    /\ CanForward(c) /\ pair.pipeWriter = None /\ pair.browserConn # None
    /\ browser' = [browser EXCEPT ![pair.browserConn].shown =
                     IF browser[pair.browserConn].open THEN Append(@, Head(router[c].wire)) ELSE @]
    /\ Forwarded(c)
    /\ UNCHANGED <<session, pair, req>>

\* Mutant of BufferHasRoom: a buffer that is exactly full takes one more.
BufferHadRoom == pair.kept <= BufferCap

\* What is kept already is compared with the cap, not what it comes to with the
\* message: the last one that is taken may pass the cap.
BufferHasRoom == pair.kept < BufferCap

\* Nobody there: the message is kept for the first browser, or lost.
RouterToBuffer(c) ==
    /\ CanForward(c) /\ pair.pipeWriter = None /\ pair.browserConn = None
    /\ IF BufferHasRoom
       THEN \E size \in 1..MaxSize :
               pair' = [pair EXCEPT !.buffer = Append(@, Head(router[c].wire)), !.kept = @ + size]
       ELSE UNCHANGED pair
    /\ Forwarded(c)
    /\ UNCHANGED <<session, browser, req>>

\* With a pipe, pw.Write fails at once when the pipe is closed, and otherwise
\* blocks, pair.Mutex held, until the reader has taken the message.
RouterWriteFails(c) ==
    /\ CanForward(c) /\ pair.pipeWriter # None /\ ~req[pair.pipeWriter].pipe
    /\ Forwarded(c)
    /\ UNCHANGED <<session, pair, browser, req>>

RouterWriteBlocks(c) ==
    /\ CanForward(c) /\ pair.pipeWriter # None /\ req[pair.pipeWriter].pipe
    /\ pair' = [pair EXCEPT !.mutex = c]
    /\ RouterTo(c, "writing")
    /\ UNCHANGED <<session, browser, req>>

\* The blocked write returns: the message was read, or the pipe closed.
WriteReturns(c) ==
    /\ pair' = [pair EXCEPT !.mutex = None]
    /\ router' = [router EXCEPT ![c].pc = "reading", ![c].wire = Tail(@)]

RouterWriteAborted(c) ==
    /\ pair.mutex = c /\ ~req[pair.pipeWriter].pipe
    /\ WriteReturns(c)
    /\ UNCHANGED <<session, browser, req>>

\* ReadMessage fails on a closed connection; what is left unread is lost.
RouterReadFails(c) ==
    /\ RouterAt(c, "reading") /\ ~router[c].open
    /\ router' = [router EXCEPT ![c].pc = "teardown", ![c].wire = <<>>]
    /\ UNCHANGED <<session, pair, browser, req>>

\* Mutant of BrowserClosed: the socket is left open.
BrowserLeftOpen(b) == browser[b]

BrowserClosed(b) == [browser[b] EXCEPT !.open = @ /\ b # pair.browserConn]

\* The teardown does not ask whether c is still the pair's connection.
RouterTeardown(c) ==
    /\ RouterAt(c, "teardown") /\ MutexFree
    /\ pair' = [pair EXCEPT !.active = FALSE, !.routerConn = None,
                            !.pipeWriter = None, !.browserConn = None]
    /\ req' = [r \in Reqs |-> [req[r] EXCEPT !.pipe = @ /\ r # pair.pipeWriter]]
    /\ browser' = [b \in BConns |-> BrowserClosed(b)]
    /\ RouterTo(c, "dbterm")
    /\ UNCHANGED session

\* Mutant of RouterMarkTerminated: the row is left as it is.
RouterForgetsRow(c) ==
    /\ RouterAt(c, "dbterm")
    /\ RouterTo(c, "done")
    /\ UNCHANGED <<session, pair, browser, req>>

RouterMarkTerminated(c) ==
    /\ RouterAt(c, "dbterm")
    /\ session' = [session EXCEPT !.status = "TERMINATED"]
    /\ RouterTo(c, "done")
    /\ UNCHANGED <<pair, browser, req>>

\* The router hangs up (close_tunnel, its TTL timer, a lost link), or its shell
\* writes to the terminal.
RouterHangsUp(c) ==
    /\ router[c].open
    /\ router' = [router EXCEPT ![c].open = FALSE]
    /\ UNCHANGED <<session, pair, browser, req>>

RouterPrints(c) ==
    /\ router[c].open /\ router[c].out < MaxOutput
    /\ router' = [router EXCEPT ![c].out = @ + 1,
                                ![c].wire = Append(@, [src |-> c, n |-> router[c].out + 1])]
    /\ UNCHANGED <<session, pair, browser, req>>

-----------------------------------------------------------------------------
(* The terminal's side: BrowserOutletWS.                                   *)

BrowserAt(b, pc) == browser[b].pc = pc
BrowserTo(b, pc) == browser' = [browser EXCEPT ![b].pc = pc]

BrowserAccept(b) ==
    /\ BrowserAt(b, "idle") /\ Admitted
    /\ browser' = [browser EXCEPT ![b].pc = "upgraded", ![b].open = TRUE]
    /\ UNCHANGED <<session, pair, router, req>>

BrowserReject(b) ==
    /\ BrowserAt(b, "idle") /\ Refused
    /\ BrowserTo(b, "done")
    /\ UNCHANGED <<session, pair, router, req>>

\* Mutant of Flushed: what was written out is kept.
NotFlushed == pair

Flushed == [pair EXCEPT !.buffer = <<>>, !.kept = 0]

\* The browser becomes the pair's, and gets what was buffered, in one critical
\* section.  A browser that is attached already is not closed.
BrowserAttach(b) ==
    /\ BrowserAt(b, "upgraded") /\ MutexFree
    /\ pair' = [Flushed EXCEPT !.browserConn = b]
    /\ browser' = [browser EXCEPT ![b].pc = "reading",
                     ![b].shown = IF browser[b].open THEN @ \o pair.buffer ELSE @,
                     ![b].gap = IF BufferHasRoom THEN 0 ELSE Len(pair.buffer)]
    /\ UNCHANGED <<session, router, req>>

\* A keystroke goes to whatever connection the pair has, whose shell answers
\* it; without one it is dropped, which changes nothing.
BrowserRelay(b) ==
    /\ BrowserAt(b, "reading") /\ MutexFree
    /\ pair.routerConn # None
    /\ RouterPrints(pair.routerConn)

BrowserReadFails(b) ==
    /\ BrowserAt(b, "reading") /\ ~browser[b].open
    /\ BrowserTo(b, "teardown")
    /\ UNCHANGED <<session, pair, router, req>>

\* Mutants of PairWithoutBrowser: Active outlives the connection; the router's
\* closed connection stays in the pair.
PairStillActive == [pair EXCEPT !.browserConn = None, !.routerConn = None]
PairWithDeadBrowser == [pair EXCEPT !.routerConn = None, !.active = FALSE]

PairWithoutBrowser ==
    [pair EXCEPT !.browserConn = None, !.routerConn = None, !.active = FALSE]

\* Like the router's, the teardown does not ask whether b is still the pair's.
BrowserTeardown(b) ==
    /\ BrowserAt(b, "teardown") /\ MutexFree
    /\ pair' = PairWithoutBrowser
    /\ router' = [c \in RConns |-> [router[c] EXCEPT !.open = @ /\ c # pair.routerConn]]
    /\ BrowserTo(b, "done")
    /\ UNCHANGED <<session, req>>

\* The tab is closed, or the network fails.
BrowserHangsUp(b) ==
    /\ browser[b].open
    /\ browser' = [browser EXCEPT ![b].open = FALSE]
    /\ UNCHANGED <<session, pair, router, req>>

-----------------------------------------------------------------------------
(* A proxied request: HttpProxyHandler.                                    *)

ReqAt(r, pc) == req[r].pc = pc
ReqTo(r, pc) == req' = [req EXCEPT ![r].pc = pc]
ReqEnds(r, pc, how) == req' = [req EXCEPT ![r].pc = pc, ![r].outcome = how]

ProxyAccept(r) ==
    /\ ReqAt(r, "idle") /\ Admitted
    /\ ReqTo(r, "polling")
    /\ UNCHANGED <<session, pair, router, browser>>

ProxyReject(r) ==
    /\ ReqAt(r, "idle") /\ Refused
    /\ ReqEnds(r, "done", "404")
    /\ UNCHANGED <<session, pair, router, browser>>

\* The readiness test, under the mutex.  It is repeated for ten seconds: one
\* that fails before they are over changes nothing.
Ready == pair.active /\ pair.routerConn # None

ProxyReady(r) ==
    /\ ReqAt(r, "polling") /\ MutexFree /\ Ready
    /\ ReqTo(r, "queued")
    /\ UNCHANGED <<session, pair, router, browser>>

ProxyNotReady(r) ==
    /\ ReqAt(r, "polling") /\ MutexFree /\ ~Ready
    /\ ReqEnds(r, "done", "504")
    /\ UNCHANGED <<session, pair, router, browser>>

\* Mutant of ProxyLock: HttpLock does not exclude.
ProxyBarges(r) ==
    /\ ReqAt(r, "queued")
    /\ pair' = [pair EXCEPT !.httpLock = r]
    /\ ReqTo(r, "locked")
    /\ UNCHANGED <<session, router, browser>>

ProxyLock(r) ==
    /\ ReqAt(r, "queued") /\ pair.httpLock = None
    /\ pair' = [pair EXCEPT !.httpLock = r]
    /\ ReqTo(r, "locked")
    /\ UNCHANGED <<session, router, browser>>

\* The request cannot be rebuilt or serialised: the deferred unlock runs.
ProxyBadRequest(r) ==
    /\ ReqAt(r, "locked")
    /\ pair' = [pair EXCEPT !.httpLock = None]
    /\ ReqEnds(r, "done", "500")
    /\ UNCHANGED <<session, router, browser>>

\* From here on the router's messages go to r.  The connection is read here,
\* and written to later without the mutex.
ProxyOpenPipe(r) ==
    /\ ReqAt(r, "locked") /\ MutexFree
    /\ pair' = [pair EXCEPT !.pipeWriter = r]
    /\ req' = [req EXCEPT ![r].pc = "piped", ![r].pipe = TRUE, ![r].conn = pair.routerConn]
    /\ UNCHANGED <<session, router, browser>>

\* The request is written, and a goroutine starts to read the answer.  On a
\* connection that is lost the write fails, or succeeds and nobody answers.
ProxySend(r) ==
    LET c == req[r].conn IN
    /\ ReqAt(r, "piped") /\ c # None
    /\ router' = [router EXCEPT ![c].wire = IF router[c].open THEN @ \o Answer(r) ELSE @]
    /\ req' = [req EXCEPT ![r].pc = "waiting", ![r].reader = "reading"]
    /\ UNCHANGED <<session, pair, browser>>

ProxySendFails(r) ==
    LET c == req[r].conn IN
    /\ ReqAt(r, "piped") /\ (c # None => ~router[c].open)
    /\ ReqEnds(r, "cleanup", "502")
    /\ UNCHANGED <<session, pair, router, browser>>

\* A reader takes the message that the router loop is blocked on.
Offered(r) == pair.mutex # None /\ pair.pipeWriter = r /\ req[r].pipe
Offer      == Head(router[pair.mutex].wire)
IsHead(m)  == m.src \in Reqs /\ m.n = 1

\* http.ReadResponse returns: a response if the message begins one.  Nothing
\* says whose response it is.
ReadResponse(r) ==
    /\ req[r].reader = "reading" /\ Offered(r)
    /\ WriteReturns(pair.mutex)
    /\ req' = [req EXCEPT ![r].got = Append(@, Offer),
                          ![r].reader = IF IsHead(Offer) THEN "head" ELSE "error"]
    /\ UNCHANGED <<session, browser>>

ReadResponseFails(r) ==
    /\ req[r].reader = "reading" /\ ~req[r].pipe
    /\ req' = [req EXCEPT ![r].reader = "error"]
    /\ UNCHANGED <<session, pair, router, browser>>

\* The branches of the select.  Giving up closes the pipe first, without the
\* mutex, so that a blocked pw.Write returns.
ProxyAnswered(r) ==
    /\ ReqAt(r, "waiting") /\ req[r].reader = "head"
    /\ ReqEnds(r, IF Len(req[r].got) = Chunks THEN "cleanup" ELSE "copying", "ok")
    /\ UNCHANGED <<session, pair, router, browser>>

ProxyBadAnswer(r) ==
    /\ ReqAt(r, "waiting") /\ req[r].reader = "error"
    /\ ReqEnds(r, "cleanup", "502")
    /\ UNCHANGED <<session, pair, router, browser>>

\* Mutant of ProxyGivesUp: the pipe is not closed.
ProxyWalksOff(r, how) ==
    /\ ReqAt(r, "waiting")
    /\ ReqEnds(r, "cleanup", how)
    /\ UNCHANGED <<session, pair, router, browser>>

ProxyGivesUp(r, how) ==
    /\ ReqAt(r, "waiting")
    /\ req' = [req EXCEPT ![r].pc = "cleanup", ![r].pipe = FALSE, ![r].outcome = how]
    /\ UNCHANGED <<session, pair, router, browser>>

ProxyTimeout(r)  == r \in Laggards /\ ProxyGivesUp(r, "504")
ProxyCanceled(r) == req[r].aborted /\ ProxyGivesUp(r, "canceled")

\* io.Copy of the body to the client, or the drain that resp.Body.Close does.
\* It ends with the last message of the response.
LastChunk(r) == Len(req[r].got) + 1 = Chunks

CopyBody(r) ==
    /\ req[r].pc \in {"copying", "draining"} /\ Offered(r)
    /\ WriteReturns(pair.mutex)
    /\ req' = [req EXCEPT ![r].got = Append(@, Offer),
                          ![r].pc = IF LastChunk(r) THEN "cleanup" ELSE @]
    /\ UNCHANGED <<session, browser>>

\* The write to a client that went away fails and io.Copy returns.  Closing
\* the body reads on to its end if it is chunked, and else reads no more.
CopyBreaks(r) ==
    /\ ReqAt(r, "copying") /\ req[r].aborted /\ Offered(r) /\ ~LastChunk(r)
    /\ WriteReturns(pair.mutex)
    /\ \E next \in {"draining", "cleanup"} :
          req' = [req EXCEPT ![r].got = Append(@, Offer), ![r].pc = next,
                             ![r].outcome = "canceled"]
    /\ UNCHANGED <<session, browser>>

\* The pipe ends before the body does.
CopyEnds(r) ==
    /\ req[r].pc \in {"copying", "draining"} /\ ~req[r].pipe
    /\ ReqEnds(r, "cleanup", "truncated")
    /\ UNCHANGED <<session, pair, router, browser>>

\* Mutant of PipeWriterWithout: the deferred function leaves the pair alone.
PipeWriterKept(r) == pair.pipeWriter

PipeWriterWithout(r) == IF pair.pipeWriter = r THEN None ELSE pair.pipeWriter

\* The deferred functions: first the pair's PipeWriter, under the mutex; then
\* both ends of the pipe, and HttpLock.
ProxyCleanup(r) ==
    /\ ReqAt(r, "cleanup") /\ MutexFree
    /\ pair' = [pair EXCEPT !.pipeWriter = PipeWriterWithout(r)]
    /\ ReqTo(r, "release")
    /\ UNCHANGED <<session, router, browser>>

\* Mutant of ProxyRelease: HttpLock is not unlocked.
ProxyKeepsLock(r) ==
    /\ ReqAt(r, "release")
    /\ req' = [req EXCEPT ![r].pc = "done", ![r].pipe = FALSE]
    /\ UNCHANGED <<session, pair, router, browser>>

ProxyRelease(r) ==
    /\ ReqAt(r, "release")
    /\ req' = [req EXCEPT ![r].pc = "done", ![r].pipe = FALSE]
    /\ pair' = [pair EXCEPT !.httpLock = None]
    /\ UNCHANGED <<session, router, browser>>

\* The client closes its connection: the request's context is done.
ClientAborts(r) ==
    /\ r \in Aborters /\ ~req[r].aborted /\ req[r].pc \notin {"idle", "done"}
    /\ req' = [req EXCEPT ![r].aborted = TRUE]
    /\ UNCHANGED <<session, pair, router, browser>>

-----------------------------------------------------------------------------
SessionNext == RequestTunnel \/ Expire \/ Restart

\* What the handler of a router connection does, and what its peer does.
RouterHandler(c) ==
    \/ RouterAttach(c) \/ RouterMarkActive(c)
    \/ RouterToBrowser(c) \/ RouterToBuffer(c)
    \/ RouterWriteFails(c) \/ RouterWriteBlocks(c) \/ RouterWriteAborted(c)
    \/ RouterReadFails(c) \/ RouterTeardown(c) \/ RouterMarkTerminated(c)

RouterPeer(c) == RouterAccept(c) \/ RouterReject(c) \/ RouterHangsUp(c) \/ RouterPrints(c)

BrowserHandler(b) == BrowserAttach(b) \/ BrowserReadFails(b) \/ BrowserTeardown(b)

BrowserPeer(b) ==
    BrowserAccept(b) \/ BrowserReject(b) \/ BrowserHangsUp(b) \/ BrowserRelay(b)

ProxyHandler(r) ==
    \/ ProxyReady(r) \/ ProxyNotReady(r) \/ ProxyLock(r)
    \/ ProxyBadRequest(r) \/ ProxyOpenPipe(r) \/ ProxySend(r) \/ ProxySendFails(r)
    \/ ProxyAnswered(r) \/ ProxyBadAnswer(r) \/ ProxyTimeout(r) \/ ProxyCanceled(r)
    \/ CopyBody(r) \/ CopyBreaks(r) \/ CopyEnds(r)
    \/ ProxyCleanup(r) \/ ProxyRelease(r)

ReadGoroutine(r) == ReadResponse(r) \/ ReadResponseFails(r)

ProxyPeer(r) == ProxyAccept(r) \/ ProxyReject(r) \/ ClientAborts(r)

\* Everyone who came has left: the only way the gateway may come to rest.
Quiet ==
    /\ \A c \in RConns : router[c].pc \in {"idle", "done"}
    /\ \A b \in BConns : browser[b].pc \in {"idle", "done"}
    /\ \A r \in Reqs : req[r].pc \in {"idle", "done"}
    /\ UNCHANGED vars

Next ==
    \/ SessionNext
    \/ \E c \in RConns : RouterHandler(c) \/ RouterPeer(c)
    \/ \E b \in BConns : BrowserHandler(b) \/ BrowserPeer(b)
    \/ \E r \in Reqs : ProxyHandler(r) \/ ReadGoroutine(r) \/ ProxyPeer(r)
    \/ Quiet

\* The Go scheduler runs every goroutine that can run, and a 30 s timer fires;
\* nobody has to connect, hang up or type.  That a message on the wire is read
\* assumes that the router sends what it owes.
Fairness ==
    /\ \A c \in RConns : WF_vars(RouterHandler(c))
    /\ \A b \in BConns : WF_vars(BrowserHandler(b))
    /\ \A r \in Reqs : WF_vars(ProxyHandler(r)) /\ WF_vars(ReadGoroutine(r))

Spec     == Init /\ [][Next]_vars
FairSpec == Spec /\ Fairness

-----------------------------------------------------------------------------
(* What must hold.                                                         *)

\* Every variable keeps its type.  InitialBuffer passes its cap by less than one
\* message, however the router and the browsers come and go.
TypeOK ==
    /\ session \in Session
    /\ pair \in Pair /\ pair.kept < BufferCap + MaxSize
    /\ router \in [RConns -> Router]
    /\ browser \in [BConns -> Browser]
    /\ req \in [Reqs -> Request]

\* Active and RouterConn say the same whenever the mutex is free: the fallback
\* handler looks at the one without the other (and without the mutex).
ActiveIffRouter == pair.active <=> pair.routerConn # None

\* The pair never points at a connection whose handler is past its teardown: a
\* message sent to it would reach nobody, for good.  Whichever of the handlers
\* that share the pair are torn down, and in which order.
LiveRegistration ==
    /\ pair.routerConn # None => router[pair.routerConn].pc \in Attached
    /\ pair.browserConn # None => browser[pair.browserConn].pc \in {"reading", "teardown"}

\* The router's bytes are only ever sent to the request that holds HttpLock,
\* no other request is in the part of the handler that the lock serialises,
\* and no pipe outlives its turn.
SerializedTransactions ==
    /\ \A r \in Reqs : req[r].pc \in Serving <=> pair.httpLock = r
    /\ pair.pipeWriter # None => pair.httpLock = pair.pipeWriter
    /\ \A r \in Reqs : req[r].pipe => pair.httpLock = r

\* Somebody will read, or close, the pipe of a request.
Attended(r) ==
    \/ ~req[r].pipe
    \/ req[r].reader = "reading" \/ req[r].pc \in {"copying", "draining"}
    \/ ReqAt(r, "waiting") /\ req[r].reader = "head"

\* A message that is not of r's answer came, or is about to come, to its pipe:
\* of an earlier request that was given up, or of a shell.
Mixed(r) ==
    \/ \E i \in DOMAIN req[r].got : req[r].got[i].src # r
    \/ Offered(r) /\ Offer.src # r

\* While the router loop is blocked in pw.Write, and with it every user of the
\* mutex, somebody will read or close the pipe: why the mutex is ever free
\* again.  Two things break it: the client went away in the middle of its
\* answer, or the stream carried what is not r's answer.
BlockedWriteIsAttended ==
    pair.mutex # None =>
       LET r == pair.pipeWriter IN Attended(r) \/ req[r].aborted \/ Mixed(r)

\* A request was sent, and left before its whole answer had come.
Forsaken(r) ==
    /\ req[r].reader # "idle" /\ req[r].pc \in {"cleanup", "release", "done"}
    /\ Len(req[r].got) < Chunks

\* A client is handed the answer to its own request: the point of the comment
\* at the lock, "serialize HTTP transactions over the single tunnel stream".  So
\* it is until a request leaves before its answer, or a shell prints: nothing
\* tells the one's late messages, or the other's, from the next answer.
OwnResponse ==
    (\A q \in Reqs : ~Forsaken(q)) /\ (\A c \in RConns : router[c].out = 0) =>
       \A r \in Reqs : \A i \in DOMAIN req[r].got : req[r].got[i] = [src |-> r, n |-> i]

\* A terminal shows the router's output in order, once, and without a gap, but
\* for the one after what it was handed from an InitialBuffer that was full.
FaithfulTerminal ==
    /\ \A b \in BConns : LET s == browser[b].shown IN
          \A i \in 1..Len(s) - 1 : \/ s[i + 1].n = s[i].n + 1
                                   \/ i = browser[b].gap /\ s[i + 1].n > s[i].n
    /\ \A a, b \in BConns :
          \A i \in DOMAIN browser[a].shown, j \in DOMAIN browser[b].shown :
             browser[a].shown[i] = browser[b].shown[j] => a = b /\ i = j

\* The row of tunnel_sessions "tracks active RMS Connect remote sessions": when
\* no handler is between its update of the pair and that of the row, the row
\* says ACTIVE exactly for a pair that has a router.
StatusTracksSession ==
    (\A c \in RConns : \/ router[c].pc \in {"idle", "upgraded", "done"}
                       \/ router[c].pc \in {"reading", "writing"} /\ router[c].open)
        => (session.status = "ACTIVE" <=> pair.active)

\* The loop writes to the pipe of a request that reads no more and waits for the
\* mutex, to clear the pair's PipeWriter before it closes the pipe: nothing of
\* the session moves again.  BlockedWriteIsAttended says what it takes.
LoopStopped ==
    /\ pair.mutex # None
    /\ ReqAt(pair.pipeWriter, "cleanup") /\ req[pair.pipeWriter].pipe

\* Every proxied request ends, with an answer or without, unless the router's
\* loop comes to such a stop.
RequestsEnd ==
    \A r \in Reqs : ReqAt(r, "polling") ~> (ReqAt(r, "done") \/ LoopStopped)

\* Losing one side of a terminal session ends the other: the handler at the
\* far end is woken from its read and leaves, unless the router's loop stopped.
TeardownReachesPeer ==
    \A c \in RConns, b \in BConns :
        /\ (RouterAt(c, "teardown") /\ pair.browserConn = b)
              ~> (BrowserAt(b, "done") \/ LoopStopped)
        /\ (BrowserAt(b, "teardown") /\ pair.routerConn = c)
              ~> (RouterAt(c, "done") \/ LoopStopped)

-----------------------------------------------------------------------------
(* The proxy as its clients see it.                                        *)

Phase(pc) == CASE pc = "idle" -> "away"
               [] pc \in {"polling", "queued"} -> "waiting"
               [] pc \in Serving -> "served"
               [] pc = "done" -> "gone"

Service == INSTANCE ProxyService WITH
    Clients <- Reqs, Nobody <- None,
    phase <- [r \in Reqs |-> Phase(req[r].pc)],
    sink  <- pair.pipeWriter,
    heard <- [r \in Reqs |-> Len(req[r].got)]

\* The handlers implement ProxyService: one request at a time has the router's
\* stream, hears it only then, and has given it back when it leaves -- whatever
\* the timeouts, aborts, reconnects and tear-downs around it.
ImplementsService == Service!Spec

=============================================================================
