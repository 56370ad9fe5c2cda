------------------------ MODULE TunnelGateway_proofs ------------------------
(***************************************************************************)
(* Proofs about TunnelGateway: its invariants, for any number of router    *)
(* connections, browsers and requests.  First what holds of every session; *)
(* then what the clients are answered; last, for one connection, what the  *)
(* row of the session says, and what the terminals show.                   *)
(***************************************************************************)
EXTENDS TunnelGateway, TLAPS

\* The request that pair.PipeWriter belongs to is between the two critical
\* sections that set and clear it, and a request that waits for the first has
\* no pipe yet.
PipeOwnerInside ==
    /\ pair.pipeWriter # None =>
          req[pair.pipeWriter].pc \in {"piped", "waiting", "copying", "draining", "cleanup"}
    /\ \A r \in Reqs : req[r].pc = "locked" => ~req[r].pipe

\* Exactly the loop that is in pw.Write holds the mutex, a message in hand, and
\* the pipe it writes to stays the pair's.
MutexHolderWrites ==
    /\ pair.mutex # None => /\ router[pair.mutex].pc = "writing"
                            /\ router[pair.mutex].wire # <<>>
                            /\ pair.pipeWriter # None
    /\ \A c \in RConns : router[c].pc = "writing" => pair.mutex = c

\* What the handlers keep true of the pair and of each other.
Consistent ==
    /\ ActiveIffRouter
    /\ LiveRegistration
    /\ SerializedTransactions
    /\ PipeOwnerInside
    /\ MutexHolderWrites

\* The inductive invariant.
IInv == TypeOK /\ Consistent

\* Initially nothing is connected.
LEMMA InitIInv == Init => IInv
<1> SUFFICES ASSUME Init PROVE IInv
  OBVIOUS
<1>1. TypeOK
  BY BoundAssumption
  DEF Init, TypeOK, NewPair, Session, Pair, Router, RouterPc, Browser,
      Request, RequestPc, Outcome
<1>2. Consistent
  BY ConnAssumption
  DEF Init, NewPair, Consistent, ActiveIffRouter, LiveRegistration, SerializedTransactions,
      PipeOwnerInside, MutexHolderWrites, Serving
<1> QED
  BY <1>1, <1>2 DEF IInv

\* What is kept in InitialBuffer, or flushed, concerns no other part of the pair.
LEMMA KeptOnly ==
  ASSUME NEW c \in RConns, RouterToBuffer(c), pair \in Pair
  PROVE  /\ pair'.routerConn = pair.routerConn /\ pair'.browserConn = pair.browserConn
         /\ pair'.active = pair.active /\ pair'.pipeWriter = pair.pipeWriter
         /\ pair'.mutex = pair.mutex /\ pair'.httpLock = pair.httpLock
<1>1. CASE BufferHasRoom
  <2>1. PICK size \in 1..MaxSize :
           pair' = [pair EXCEPT !.buffer = Append(@, Head(router[c].wire)), !.kept = @ + size]
    BY <1>1 DEF RouterToBuffer
  <2> QED
    BY <2>1 DEF Pair
<1>2. CASE ~BufferHasRoom
  BY <1>2 DEF RouterToBuffer
<1> QED
  BY <1>1, <1>2

LEMMA FlushedOnly ==
  ASSUME NEW b \in BConns, BrowserAttach(b), pair \in Pair
  PROVE  /\ pair'.routerConn = pair.routerConn /\ pair'.browserConn = b
         /\ pair'.active = pair.active /\ pair'.pipeWriter = pair.pipeWriter
         /\ pair'.mutex = pair.mutex /\ pair'.httpLock = pair.httpLock
         /\ pair'.buffer = <<>> /\ pair'.kept = 0
  BY DEF BrowserAttach, Flushed, Pair

-----------------------------------------------------------------------------
(* Types.  The lemmas say what each kind of assignment in the actions keeps. *)

\* The places and outcomes that the actions of a request assign.
LEMMA RequestValues ==
    /\ {"polling", "queued", "locked", "piped", "waiting", "copying", "draining",
        "cleanup", "release", "done"} \subseteq RequestPc
    /\ {"ok", "404", "500", "502", "504", "canceled", "truncated"} \subseteq Outcome
  BY DEF RequestPc, Serving, Outcome

\* The places that the actions of a router connection assign.
LEMMA RouterValues ==
    {"upgraded", "attached", "reading", "writing", "teardown", "dbterm", "done"}
        \subseteq RouterPc
  BY DEF RouterPc, Attached

\* A message is taken off, or put on, a stream of messages.
LEMMA HeadTail ==
  ASSUME NEW w \in Seq(Message), w # <<>>
  PROVE  Head(w) \in Message /\ Tail(w) \in Seq(Message)
  OBVIOUS

LEMMA Appended ==
  ASSUME NEW w \in Seq(Message), NEW m \in Message
  PROVE  Append(w, m) \in Seq(Message) /\ Len(Append(w, m)) = Len(w) + 1
  OBVIOUS

\* The answer to a request is a stream of messages.
LEMMA AnswerType == ASSUME NEW r \in Reqs PROVE Answer(r) \in Seq(Message)
  BY BoundAssumption DEF Answer, Message

\* A request moves on.
LEMMA ReqToType ==
  ASSUME TypeOK, NEW r \in Reqs, NEW p \in RequestPc, ReqTo(r, p)
  PROVE  req' \in [Reqs -> Request]
  BY DEF TypeOK, Request, ReqTo

LEMMA ReqEndsType ==
  ASSUME TypeOK, NEW r \in Reqs, NEW p \in RequestPc, NEW o \in Outcome, ReqEnds(r, p, o)
  PROVE  req' \in [Reqs -> Request]
  BY DEF TypeOK, Request, ReqEnds

\* A message leaves the wire, with or without a change of place.
LEMMA ForwardedType ==
  ASSUME TypeOK, NEW c \in RConns, router[c].wire # <<>>
  PROVE  /\ router[c].wire \in Seq(Message)
         /\ Head(router[c].wire) \in Message
         /\ Forwarded(c) => router' \in [RConns -> Router]
         /\ WriteReturns(c) => router' \in [RConns -> Router]
<1>1. router[c].wire \in Seq(Message)
  BY DEF TypeOK, Router
<1>2. Head(router[c].wire) \in Message /\ Tail(router[c].wire) \in Seq(Message)
  BY <1>1, HeadTail
<1>3. Forwarded(c) => router' \in [RConns -> Router]
  BY <1>2 DEF Forwarded, TypeOK, Router
<1>4. WriteReturns(c) => router' \in [RConns -> Router]
  <2>1. [router[c] EXCEPT !.pc = "reading", !.wire = Tail(@)] \in Router
    BY <1>2, RouterValues DEF TypeOK, Router
  <2> QED
    BY <2>1 DEF WriteReturns, TypeOK
<1> QED
  BY <1>1, <1>2, <1>3, <1>4

\* The session's actions.
LEMMA SessionTypes == ASSUME IInv, SessionNext PROVE TypeOK'
<1> USE DEF IInv, TypeOK
<1>1. CASE RequestTunnel \/ Expire
  <2>1. session' \in Session
    BY <1>1 DEF RequestTunnel, Expire, Session
  <2> QED
    BY <1>1, <2>1 DEF RequestTunnel, Expire
<1>2. CASE Restart
  <2>0. <<>> \in Seq(Message) /\ Len(<<>>) = 0
    OBVIOUS
  <2>1. session' \in Session
    <3>1. session.restarts + 1 \in 0..MaxRestarts
      <4>1. session.restarts \in 0..MaxRestarts
        BY DEF Session
      <4>2. session.restarts < MaxRestarts
        BY <1>2 DEF Restart
      <4> QED
        BY <4>1, <4>2, BoundAssumption
    <3> QED
      BY <1>2, <3>1 DEF Restart, Session
  <2>2. pair' \in Pair /\ pair'.kept < BufferCap + MaxSize
    <3>1. pair' = NewPair /\ NewPair.kept = 0
      BY <1>2 DEF Restart, NewPair
    <3>2. NewPair \in Pair
      BY <2>0 DEF NewPair, Pair
    <3> QED
      BY <2>0, <3>1, <3>2, BoundAssumption
  <2>3. router' \in [RConns -> Router]
    <3>1. ASSUME NEW c \in RConns PROVE Killed(router[c].pc) \in RouterPc
      BY DEF Killed, RouterPc
    <3>2. ASSUME NEW c \in RConns
          PROVE [router[c] EXCEPT !.pc = Killed(@), !.open = FALSE, !.wire = <<>>] \in Router
      BY <2>0, <3>1 DEF Router
    <3> QED
      BY <1>2, <3>2 DEF Restart
  <2>4. browser' \in [BConns -> Browser]
    BY <1>2 DEF Restart, Killed, Browser
  <2>5. req' \in [Reqs -> Request]
    <3>1. ASSUME NEW r \in Reqs PROVE Killed(req[r].pc) \in RequestPc
      BY DEF Killed, RequestPc
    <3>2. ASSUME NEW r \in Reqs
          PROVE [req[r] EXCEPT !.pc = Killed(@), !.pipe = FALSE,
                               !.reader = IF @ = "idle" THEN "idle" ELSE "error"] \in Request
      BY <3>1 DEF Request
    <3> QED
      BY <1>2, <3>2 DEF Restart
  <2> QED
    BY <2>1, <2>2, <2>3, <2>4, <2>5
<1> QED
  BY <1>1, <1>2 DEF SessionNext

\* The actions of a router connection's handler.
LEMMA RouterHandlerTypes ==
  ASSUME IInv, NEW c \in RConns, RouterHandler(c) PROVE TypeOK'
<1> USE RouterValues DEF IInv, TypeOK, RouterAt, RouterTo, CanForward
<1>1. CASE RouterAttach(c)
  <2>1. pair' \in Pair /\ pair'.kept < BufferCap + MaxSize
    BY <1>1 DEF RouterAttach, Pair
  <2>2. router' \in [RConns -> Router]
    BY <1>1 DEF RouterAttach, Router
  <2> QED
    BY <1>1, <2>1, <2>2 DEF RouterAttach
<1>2. CASE RouterMarkActive(c)
  <2>1. session' \in Session
    BY <1>2 DEF RouterMarkActive, Session
  <2>2. router' \in [RConns -> Router]
    BY <1>2 DEF RouterMarkActive, Router
  <2> QED
    BY <1>2, <2>1, <2>2 DEF RouterMarkActive
<1>3. CASE RouterToBrowser(c)
  <2> DEFINE b == pair.browserConn
             m == Head(router[c].wire)
  <2>1. m \in Message /\ router' \in [RConns -> Router]
    BY <1>3, ForwardedType DEF RouterToBrowser
  <2>2. b \in BConns /\ browser[b].shown \in Seq(Message)
    BY <1>3 DEF RouterToBrowser, Pair, Browser
  <2>3. Append(browser[b].shown, m) \in Seq(Message)
    BY <2>1, <2>2, Appended
  <2>4. browser' \in [BConns -> Browser]
    BY <1>3, <2>2, <2>3 DEF RouterToBrowser, Browser
  <2> QED
    BY <1>3, <2>1, <2>4 DEF RouterToBrowser
<1>4. CASE RouterToBuffer(c)
  <2> DEFINE m == Head(router[c].wire)
  <2>1. m \in Message /\ router' \in [RConns -> Router]
    BY <1>4, ForwardedType DEF RouterToBuffer
  <2>2. /\ pair.buffer \in Seq(Message)
        /\ Append(pair.buffer, m) \in Seq(Message)
        /\ Len(Append(pair.buffer, m)) = Len(pair.buffer) + 1
    BY <2>1, Appended DEF Pair
  <2>3. pair' \in Pair /\ pair'.kept < BufferCap + MaxSize
    <3>1. CASE BufferHasRoom
      <4>1. PICK size \in 1..MaxSize :
               pair' = [pair EXCEPT !.buffer = Append(@, m), !.kept = @ + size]
        BY <1>4, <3>1 DEF RouterToBuffer
      <4>2. /\ pair.kept + size \in Nat
            /\ pair.kept + size < BufferCap + MaxSize
        BY <3>1, BoundAssumption DEF BufferHasRoom, Pair
      <4> QED
        BY <2>2, <4>1, <4>2 DEF Pair
    <3>2. CASE ~BufferHasRoom
      BY <1>4, <3>2 DEF RouterToBuffer
    <3> QED
      BY <3>1, <3>2
  <2> QED
    BY <1>4, <2>1, <2>3 DEF RouterToBuffer
<1>5. CASE RouterWriteFails(c)
  BY <1>5, ForwardedType DEF RouterWriteFails
<1>6. CASE RouterWriteBlocks(c)
  <2>1. pair' \in Pair /\ pair'.kept < BufferCap + MaxSize
    BY <1>6 DEF RouterWriteBlocks, Pair
  <2>2. router' \in [RConns -> Router]
    BY <1>6 DEF RouterWriteBlocks, Router
  <2> QED
    BY <1>6, <2>1, <2>2 DEF RouterWriteBlocks
<1>7. CASE RouterWriteAborted(c)
  <2>1. router[c].wire # <<>>
    BY <1>7, ConnAssumption DEF RouterWriteAborted, Consistent, MutexHolderWrites
  <2>2. router' \in [RConns -> Router]
    BY <1>7, <2>1, ForwardedType DEF RouterWriteAborted
  <2>3. pair' \in Pair /\ pair'.kept < BufferCap + MaxSize
    BY <1>7 DEF RouterWriteAborted, WriteReturns, Pair
  <2> QED
    BY <1>7, <2>2, <2>3 DEF RouterWriteAborted
<1>8. CASE RouterReadFails(c)
  <2>1. << >> \in Seq(Message)
    OBVIOUS
  <2>2. router' \in [RConns -> Router]
    BY <1>8, <2>1 DEF RouterReadFails, Router
  <2> QED
    BY <1>8, <2>2 DEF RouterReadFails
<1>9. CASE RouterTeardown(c)
  <2>1. pair' \in Pair /\ pair'.kept < BufferCap + MaxSize
    BY <1>9 DEF RouterTeardown, Pair
  <2>2. router' \in [RConns -> Router]
    BY <1>9 DEF RouterTeardown, Router
  <2>3. browser' \in [BConns -> Browser]
    BY <1>9 DEF RouterTeardown, BrowserClosed, Browser
  <2>4. req' \in [Reqs -> Request]
    <3>1. ASSUME NEW r \in Reqs
          PROVE [req[r] EXCEPT !.pipe = @ /\ r # pair.pipeWriter] \in Request
      BY DEF Request
    <3> QED
      BY <1>9, <3>1 DEF RouterTeardown
  <2> QED
    BY <1>9, <2>1, <2>2, <2>3, <2>4 DEF RouterTeardown
<1>10. CASE RouterMarkTerminated(c)
  <2>1. session' \in Session
    BY <1>10 DEF RouterMarkTerminated, Session
  <2>2. router' \in [RConns -> Router]
    BY <1>10 DEF RouterMarkTerminated, Router
  <2> QED
    BY <1>10, <2>1, <2>2 DEF RouterMarkTerminated
<1> QED
  BY <1>1, <1>2, <1>3, <1>4, <1>5, <1>6, <1>7, <1>8, <1>9, <1>10 DEF RouterHandler

\* What the peer of a router connection does.
LEMMA PrintsType ==
  ASSUME IInv, NEW c \in RConns, RouterPrints(c) PROVE TypeOK'
<1> DEFINE m == [src |-> c, n |-> router[c].out + 1]
<1> USE DEF IInv, TypeOK
<1>1. /\ router[c].out \in 0..MaxOutput /\ router[c].wire \in Seq(Message)
      /\ router[c].out < MaxOutput
  BY DEF Router, RouterPrints
<1>2. router[c].out + 1 \in 0..MaxOutput /\ router[c].out + 1 \in Nat \ {0}
  BY <1>1, BoundAssumption
<1>3. m \in Message
  BY <1>2 DEF Message
<1>4. Append(router[c].wire, m) \in Seq(Message)
  BY <1>1, <1>3, Appended
<1>5. router' \in [RConns -> Router]
  BY <1>2, <1>4 DEF RouterPrints, Router
<1> QED
  BY <1>5 DEF RouterPrints

LEMMA RouterPeerTypes ==
  ASSUME IInv, NEW c \in RConns, RouterPeer(c) PROVE TypeOK'
<1> USE RouterValues DEF IInv, TypeOK
<1>1. CASE RouterAccept(c)
  <2>1. router' \in [RConns -> Router]
    BY <1>1 DEF RouterAccept, Router
  <2> QED
    BY <1>1, <2>1 DEF RouterAccept
<1>2. CASE RouterReject(c)
  <2>1. router' \in [RConns -> Router]
    BY <1>2 DEF RouterReject, RouterTo, Router
  <2> QED
    BY <1>2, <2>1 DEF RouterReject
<1>3. CASE RouterHangsUp(c)
  <2>1. router' \in [RConns -> Router]
    BY <1>3 DEF RouterHangsUp, Router
  <2> QED
    BY <1>3, <2>1 DEF RouterHangsUp
<1>4. CASE RouterPrints(c)
  BY <1>4, PrintsType
<1> QED
  BY <1>1, <1>2, <1>3, <1>4 DEF RouterPeer

\* The actions of a browser connection.
LEMMA BrowserTypes ==
  ASSUME IInv, NEW b \in BConns, BrowserHandler(b) \/ BrowserPeer(b) PROVE TypeOK'
<1> USE DEF IInv, TypeOK, BrowserAt, BrowserTo
<1>1. CASE BrowserAttach(b)
  <2>1. /\ pair.buffer \in Seq(Message) /\ browser[b].shown \in Seq(Message)
        /\ <<>> \in Seq(Message) /\ Len(<<>>) = 0
    BY DEF Pair, Browser
  <2>2. browser[b].shown \o pair.buffer \in Seq(Message) /\ Len(pair.buffer) \in Nat
    BY <2>1
  <2>3. browser' \in [BConns -> Browser]
    <3>1. [browser[b] EXCEPT
             !.pc = "reading",
             !.shown = IF browser[b].open THEN @ \o pair.buffer ELSE @,
             !.gap = IF BufferHasRoom THEN 0 ELSE Len(pair.buffer)] \in Browser
      BY <2>1, <2>2 DEF Browser
    <3> QED
      BY <1>1, <3>1 DEF BrowserAttach
  <2>4. pair' \in Pair /\ pair'.kept = 0
    BY <1>1, <2>1 DEF BrowserAttach, Flushed, Pair
  <2> QED
    BY <1>1, <2>1, <2>3, <2>4, BoundAssumption DEF BrowserAttach
<1>2. CASE BrowserTeardown(b)
  <2>1. pair' \in Pair /\ pair'.kept < BufferCap + MaxSize
    BY <1>2 DEF BrowserTeardown, PairWithoutBrowser, Pair
  <2>2. router' \in [RConns -> Router]
    BY <1>2 DEF BrowserTeardown, Router
  <2>3. browser' \in [BConns -> Browser]
    BY <1>2 DEF BrowserTeardown, Browser
  <2> QED
    BY <1>2, <2>1, <2>2, <2>3 DEF BrowserTeardown
<1>3. CASE BrowserReadFails(b)
  <2>1. browser' \in [BConns -> Browser]
    BY <1>3 DEF BrowserReadFails, Browser
  <2> QED
    BY <1>3, <2>1 DEF BrowserReadFails
<1>4. CASE BrowserAccept(b)
  <2>1. browser' \in [BConns -> Browser]
    BY <1>4 DEF BrowserAccept, Browser
  <2> QED
    BY <1>4, <2>1 DEF BrowserAccept
<1>5. CASE BrowserReject(b)
  <2>1. browser' \in [BConns -> Browser]
    BY <1>5 DEF BrowserReject, Browser
  <2> QED
    BY <1>5, <2>1 DEF BrowserReject
<1>6. CASE BrowserHangsUp(b)
  <2>1. browser' \in [BConns -> Browser]
    BY <1>6 DEF BrowserHangsUp, Browser
  <2> QED
    BY <1>6, <2>1 DEF BrowserHangsUp
<1>7. CASE BrowserRelay(b)
  <2>1. pair.routerConn \in RConns
    BY <1>7 DEF BrowserRelay, Pair
  <2> QED
    BY <1>7, <2>1, PrintsType DEF BrowserRelay
<1> QED
  BY <1>1, <1>2, <1>3, <1>4, <1>5, <1>6, <1>7 DEF BrowserHandler, BrowserPeer

\* The message that the blocked router loop offers.
LEMMA OfferType ==
  ASSUME IInv, NEW r \in Reqs, Offered(r), WriteReturns(pair.mutex)
  PROVE  /\ Offer \in Message
         /\ router' \in [RConns -> Router]
         /\ pair' \in Pair /\ pair'.kept < BufferCap + MaxSize
<1> USE DEF IInv, TypeOK
<1>1. pair.mutex \in RConns /\ router[pair.mutex].wire # <<>>
  BY DEF Consistent, MutexHolderWrites, Offered, Pair
<1>2. Offer \in Message /\ router' \in [RConns -> Router]
  BY <1>1, ForwardedType DEF Offer
<1>3. pair' \in Pair /\ pair'.kept < BufferCap + MaxSize
  BY DEF WriteReturns, Pair
<1> QED
  BY <1>2, <1>3

\* The request's handler up to the request's being written.
LEMMA ProxyStartTypes ==
  ASSUME IInv, NEW r \in Reqs,
         \/ ProxyAccept(r) \/ ProxyReject(r) \/ ProxyReady(r) \/ ProxyNotReady(r)
         \/ ProxyLock(r) \/ ProxyBadRequest(r) \/ ProxyOpenPipe(r)
         \/ ProxySend(r) \/ ProxySendFails(r)
  PROVE  TypeOK'
<1> USE RequestValues DEF IInv, TypeOK, ReqAt
<1>1. CASE ProxyAccept(r)
  BY <1>1, ReqToType DEF ProxyAccept
<1>2. CASE ProxyReject(r)
  BY <1>2, ReqEndsType DEF ProxyReject
<1>3. CASE ProxyReady(r)
  BY <1>3, ReqToType DEF ProxyReady
<1>4. CASE ProxyNotReady(r)
  BY <1>4, ReqEndsType DEF ProxyNotReady
<1>5. CASE ProxyLock(r)
  <2>1. req' \in [Reqs -> Request]
    BY <1>5, ReqToType DEF ProxyLock
  <2>2. pair' \in Pair /\ pair'.kept < BufferCap + MaxSize
    BY <1>5 DEF ProxyLock, Pair
  <2> QED
    BY <1>5, <2>1, <2>2 DEF ProxyLock
<1>6. CASE ProxyBadRequest(r)
  <2>1. req' \in [Reqs -> Request]
    BY <1>6, ReqEndsType DEF ProxyBadRequest
  <2>2. pair' \in Pair /\ pair'.kept < BufferCap + MaxSize
    BY <1>6 DEF ProxyBadRequest, Pair
  <2> QED
    BY <1>6, <2>1, <2>2 DEF ProxyBadRequest
<1>7. CASE ProxyOpenPipe(r)
  <2>1. pair' \in Pair /\ pair'.kept < BufferCap + MaxSize
    BY <1>7 DEF ProxyOpenPipe, Pair
  <2>2. pair.routerConn \in RConns \cup {None}
    BY DEF Pair
  <2>3. req' \in [Reqs -> Request]
    <3>1. [req[r] EXCEPT !.pc = "piped", !.pipe = TRUE, !.conn = pair.routerConn] \in Request
      BY <2>2 DEF Request
    <3> QED
      BY <1>7, <3>1 DEF ProxyOpenPipe
  <2> QED
    BY <1>7, <2>1, <2>3 DEF ProxyOpenPipe
<1>8. CASE ProxySend(r)
  <2> DEFINE c == req[r].conn
  <2>1. c \in RConns
    BY <1>8 DEF ProxySend, Request
  <2>2. router[c].wire \o Answer(r) \in Seq(Message)
    BY <2>1, AnswerType DEF Router
  <2>3. router' \in [RConns -> Router]
    BY <1>8, <2>1, <2>2 DEF ProxySend, Router
  <2>4. req' \in [Reqs -> Request]
    <3>1. [req[r] EXCEPT !.pc = "waiting", !.reader = "reading"] \in Request
      BY DEF Request
    <3> QED
      BY <1>8, <3>1 DEF ProxySend
  <2> QED
    BY <1>8, <2>3, <2>4 DEF ProxySend
<1>9. CASE ProxySendFails(r)
  BY <1>9, ReqEndsType DEF ProxySendFails
<1> QED
  BY <1>1, <1>2, <1>3, <1>4, <1>5, <1>6, <1>7, <1>8, <1>9

\* The request's handler and its read goroutine from then on.
LEMMA ProxyEndTypes ==
  ASSUME IInv, NEW r \in Reqs,
         \/ ReadResponse(r) \/ ReadResponseFails(r)
         \/ ProxyAnswered(r) \/ ProxyBadAnswer(r) \/ ProxyTimeout(r) \/ ProxyCanceled(r)
         \/ CopyBody(r) \/ CopyBreaks(r) \/ CopyEnds(r)
         \/ ProxyCleanup(r) \/ ProxyRelease(r) \/ ClientAborts(r)
  PROVE  TypeOK'
<1> USE RequestValues DEF IInv, TypeOK, ReqAt
<1>1. CASE ReadResponse(r)
  <2>1. Append(req[r].got, Offer) \in Seq(Message)
    BY <1>1, OfferType, Appended DEF ReadResponse, Request
  <2>2. ASSUME NEW d \in {"head", "error"}
        PROVE [req[r] EXCEPT !.got = Append(@, Offer), !.reader = d] \in Request
    BY <2>1 DEF Request
  <2>3. req' \in [Reqs -> Request]
    BY <1>1, <2>2 DEF ReadResponse
  <2> QED
    BY <1>1, <2>3, OfferType DEF ReadResponse
<1>2. CASE ReadResponseFails(r)
  <2>1. req' \in [Reqs -> Request]
    BY <1>2 DEF ReadResponseFails, Request
  <2> QED
    BY <1>2, <2>1 DEF ReadResponseFails
<1>3. CASE ProxyAnswered(r)
  BY <1>3, ReqEndsType DEF ProxyAnswered
<1>4. CASE ProxyBadAnswer(r)
  BY <1>4, ReqEndsType DEF ProxyBadAnswer
<1>5. ASSUME NEW how \in Outcome, ProxyGivesUp(r, how) PROVE TypeOK'
  <2>1. [req[r] EXCEPT !.pc = "cleanup", !.pipe = FALSE, !.outcome = how] \in Request
    BY DEF Request
  <2>2. req' \in [Reqs -> Request]
    BY <1>5, <2>1 DEF ProxyGivesUp
  <2> QED
    BY <1>5, <2>2 DEF ProxyGivesUp
<1>6. CASE ProxyTimeout(r) \/ ProxyCanceled(r)
  BY <1>5, <1>6 DEF ProxyTimeout, ProxyCanceled
<1>7. CASE CopyBody(r)
  <2>1. Append(req[r].got, Offer) \in Seq(Message)
    BY <1>7, OfferType, Appended DEF CopyBody, Request
  <2>2. ASSUME NEW p \in RequestPc
        PROVE [req[r] EXCEPT !.got = Append(@, Offer), !.pc = p] \in Request
    BY <2>1 DEF Request
  <2>3. req[r].pc \in RequestPc
    BY DEF Request
  <2>4. req' \in [Reqs -> Request]
    BY <1>7, <2>2, <2>3 DEF CopyBody
  <2> QED
    BY <1>7, <2>4, OfferType DEF CopyBody
<1>8. CASE CopyBreaks(r)
  <2>1. Append(req[r].got, Offer) \in Seq(Message)
    BY <1>8, OfferType, Appended DEF CopyBreaks, Request
  <2>2. ASSUME NEW p \in RequestPc
        PROVE [req[r] EXCEPT !.got = Append(@, Offer), !.pc = p,
                             !.outcome = "canceled"] \in Request
    BY <2>1 DEF Request
  <2>3. PICK p \in {"draining", "cleanup"} :
           req' = [req EXCEPT ![r].got = Append(@, Offer), ![r].pc = p,
                              ![r].outcome = "canceled"]
    BY <1>8 DEF CopyBreaks
  <2>4. req' \in [Reqs -> Request]
    BY <2>2, <2>3
  <2> QED
    BY <1>8, <2>4, OfferType DEF CopyBreaks
<1>9. CASE CopyEnds(r)
  BY <1>9, ReqEndsType DEF CopyEnds
<1>10. CASE ProxyCleanup(r)
  <2>1. req' \in [Reqs -> Request]
    BY <1>10, ReqToType DEF ProxyCleanup
  <2>2. pair' \in Pair /\ pair'.kept < BufferCap + MaxSize
    BY <1>10 DEF ProxyCleanup, PipeWriterWithout, Pair
  <2> QED
    BY <1>10, <2>1, <2>2 DEF ProxyCleanup
<1>11. CASE ProxyRelease(r)
  <2>1. [req[r] EXCEPT !.pc = "done", !.pipe = FALSE] \in Request
    BY DEF Request
  <2>2. req' \in [Reqs -> Request]
    BY <1>11, <2>1 DEF ProxyRelease
  <2>3. pair' \in Pair /\ pair'.kept < BufferCap + MaxSize
    BY <1>11 DEF ProxyRelease, Pair
  <2> QED
    BY <1>11, <2>2, <2>3 DEF ProxyRelease
<1>12. CASE ClientAborts(r)
  <2>1. req' \in [Reqs -> Request]
    BY <1>12 DEF ClientAborts, Request
  <2> QED
    BY <1>12, <2>1 DEF ClientAborts
<1> QED
  BY <1>1, <1>2, <1>3, <1>4, <1>6, <1>7, <1>8, <1>9, <1>10, <1>11, <1>12

-----------------------------------------------------------------------------
(* Consistency: the handlers, one action at a time.                        *)

\* The session's actions.
LEMMA SessionConsistent == ASSUME IInv, SessionNext PROVE Consistent'
<1> USE DEF Consistent, ActiveIffRouter, LiveRegistration, SerializedTransactions,
            PipeOwnerInside, MutexHolderWrites
<1>1. CASE RequestTunnel \/ Expire
  BY <1>1 DEF IInv, RequestTunnel, Expire
<1>2. CASE Restart
  <2>1. \A c \in RConns : router'[c].pc # "writing"
    BY <1>2 DEF Restart, Killed, IInv, TypeOK, Router
  <2>2. \A r \in Reqs : ~req'[r].pipe /\ req'[r].pc \in {"idle", "done"}
    BY <1>2 DEF Restart, Killed, IInv, TypeOK, Request
  <2>3. /\ pair'.routerConn = None /\ pair'.browserConn = None /\ ~pair'.active
        /\ pair'.pipeWriter = None /\ pair'.mutex = None /\ pair'.httpLock = None
    BY <1>2 DEF Restart, NewPair
  <2> QED
    BY <2>1, <2>2, <2>3, ConnAssumption DEF Serving
<1> QED
  BY <1>1, <1>2 DEF SessionNext

\* The actions of a router connection's handler.
LEMMA RouterHandlerConsistent ==
  ASSUME IInv, NEW c \in RConns, RouterHandler(c) PROVE Consistent'
<1> USE ConnAssumption
    DEF IInv, TypeOK, Consistent, ActiveIffRouter, LiveRegistration, SerializedTransactions,
        PipeOwnerInside, MutexHolderWrites, Pair, Router, Browser, Request, Attached, Serving,
        RouterAt, RouterTo, MutexFree, CanForward, Forwarded, WriteReturns
<1>1. CASE RouterAttach(c)
  BY <1>1 DEF RouterAttach
<1>2. CASE RouterMarkActive(c)
  BY <1>2 DEF RouterMarkActive
<1>3. CASE RouterToBrowser(c)
  BY <1>3 DEF RouterToBrowser
<1>4. CASE RouterToBuffer(c)
  <2>1. UNCHANGED <<session, browser, req>> /\ pair \in Pair
    BY <1>4 DEF RouterToBuffer
  <2>2. router' = [router EXCEPT ![c].wire = Tail(@)] /\ router[c].pc = "reading"
    BY <1>4 DEF RouterToBuffer
  <2>3. \A d \in RConns : router'[d].pc = router[d].pc
    BY <2>2
  <2>4. /\ pair'.routerConn = pair.routerConn /\ pair'.browserConn = pair.browserConn
        /\ pair'.active = pair.active /\ pair'.pipeWriter = pair.pipeWriter
        /\ pair'.mutex = pair.mutex /\ pair'.httpLock = pair.httpLock
    BY <1>4, <2>1, KeptOnly
  <2>5. \A d \in RConns : router'[d].wire = router[d].wire \/ router[d].pc # "writing"
    BY <2>2
  <2> QED
    BY <2>1, <2>2, <2>3, <2>4, <2>5
<1>5. CASE RouterWriteFails(c)
  BY <1>5 DEF RouterWriteFails
<1>6. CASE RouterWriteBlocks(c)
  BY <1>6 DEF RouterWriteBlocks
<1>7. CASE RouterWriteAborted(c)
  BY <1>7 DEF RouterWriteAborted
<1>8. CASE RouterReadFails(c)
  BY <1>8 DEF RouterReadFails
<1>9. CASE RouterTeardown(c)
  BY <1>9 DEF RouterTeardown, BrowserClosed
<1>10. CASE RouterMarkTerminated(c)
  BY <1>10 DEF RouterMarkTerminated
<1> QED
  BY <1>1, <1>2, <1>3, <1>4, <1>5, <1>6, <1>7, <1>8, <1>9, <1>10 DEF RouterHandler

\* What the peer of a router connection does: it touches neither a place that
\* matters nor, but to make it longer, a wire.
LEMMA PrintsConsistent ==
  ASSUME IInv, NEW c \in RConns, RouterPrints(c) PROVE Consistent'
<1> DEFINE m == [src |-> c, n |-> router[c].out + 1]
<1>1. Append(router[c].wire, m) # <<>>
  <2>1. router[c].wire \in Seq(Message)
    BY DEF IInv, TypeOK, Router
  <2> QED
    BY <2>1
<1>2. \A d \in RConns : /\ router'[d].pc = router[d].pc
                        /\ router[d].wire # <<>> => router'[d].wire # <<>>
  BY <1>1 DEF RouterPrints, IInv, TypeOK, Router
<1>3. UNCHANGED <<pair, browser, req>>
  BY DEF RouterPrints
<1> QED
  BY <1>2, <1>3
  DEF IInv, TypeOK, Pair, Consistent, ActiveIffRouter, LiveRegistration,
      SerializedTransactions, PipeOwnerInside, MutexHolderWrites

LEMMA RouterPeerConsistent ==
  ASSUME IInv, NEW c \in RConns, RouterPeer(c) PROVE Consistent'
<1> USE ConnAssumption
    DEF IInv, TypeOK, Consistent, ActiveIffRouter, LiveRegistration, SerializedTransactions,
        PipeOwnerInside, MutexHolderWrites, Pair, Router, Browser, Request, Attached,
        RouterAt, RouterTo
<1>1. CASE RouterAccept(c)
  BY <1>1 DEF RouterAccept
<1>2. CASE RouterReject(c)
  BY <1>2 DEF RouterReject
<1>3. CASE RouterHangsUp(c)
  BY <1>3 DEF RouterHangsUp
<1>4. CASE RouterPrints(c)
  BY <1>4, PrintsConsistent
<1> QED
  BY <1>1, <1>2, <1>3, <1>4 DEF RouterPeer

\* The actions of a browser connection.
LEMMA BrowserConsistent ==
  ASSUME IInv, NEW b \in BConns, BrowserHandler(b) \/ BrowserPeer(b) PROVE Consistent'
<1> USE ConnAssumption
    DEF IInv, TypeOK, Consistent, ActiveIffRouter, LiveRegistration, SerializedTransactions,
        PipeOwnerInside, MutexHolderWrites, Pair, Router, Browser, Request,
        BrowserAt, BrowserTo, MutexFree
<1>1. CASE BrowserAttach(b)
  <2>1. /\ UNCHANGED <<session, router, req>>
        /\ \A a \in BConns : browser'[a].pc = IF a = b THEN "reading" ELSE browser[a].pc
    BY <1>1 DEF BrowserAttach
  <2> QED
    BY <1>1, <2>1, FlushedOnly
<1>2. CASE BrowserReadFails(b)
  BY <1>2 DEF BrowserReadFails
<1>3. CASE BrowserTeardown(b)
  BY <1>3 DEF BrowserTeardown, PairWithoutBrowser
<1>4. CASE BrowserAccept(b)
  BY <1>4 DEF BrowserAccept
<1>5. CASE BrowserReject(b)
  BY <1>5 DEF BrowserReject
<1>6. CASE BrowserHangsUp(b)
  BY <1>6 DEF BrowserHangsUp
<1>7. CASE BrowserRelay(b)
  BY <1>7, PrintsConsistent DEF BrowserRelay
<1> QED
  BY <1>1, <1>2, <1>3, <1>4, <1>5, <1>6, <1>7 DEF BrowserHandler, BrowserPeer

\* The actions of a proxied request.
LEMMA ProxyConsistent ==
  ASSUME IInv, NEW r \in Reqs, ProxyHandler(r) \/ ReadGoroutine(r) \/ ProxyPeer(r)
  PROVE  Consistent'
<1> USE ConnAssumption
    DEF IInv, TypeOK, Consistent, ActiveIffRouter, LiveRegistration, SerializedTransactions,
        PipeOwnerInside, MutexHolderWrites, Pair, Router, Browser, Request, Serving, Attached,
        ReqAt, ReqTo, ReqEnds, MutexFree, WriteReturns, Offered
<1>1. CASE ProxyAccept(r)
  BY <1>1 DEF ProxyAccept
<1>2. CASE ProxyReject(r) \/ ProxyNotReady(r)
  <2>1. /\ UNCHANGED <<pair, router, browser>>
        /\ \A q \in Reqs : req'[q].pipe = req[q].pipe /\ (q # r => req'[q].pc = req[q].pc)
        /\ req[r].pc \notin Serving /\ req'[r].pc = "done"
    BY <1>2 DEF ProxyReject, ProxyNotReady
  <2> QED
    BY <2>1
<1>3. CASE ProxyReady(r)
  BY <1>3 DEF ProxyReady
<1>5. CASE ProxyLock(r)
  BY <1>5 DEF ProxyLock
<1>6. CASE ProxyBadRequest(r)
  BY <1>6 DEF ProxyBadRequest
<1>7. CASE ProxyOpenPipe(r)
  BY <1>7 DEF ProxyOpenPipe
<1>8. CASE ProxySend(r)
  BY <1>8 DEF ProxySend, Answer
<1>9. CASE ProxySendFails(r)
  BY <1>9 DEF ProxySendFails
<1>10. CASE ReadResponse(r)
  BY <1>10 DEF ReadResponse
<1>11. CASE ReadResponseFails(r)
  BY <1>11 DEF ReadResponseFails
<1>12. CASE ProxyAnswered(r)
  BY <1>12 DEF ProxyAnswered
<1>13. CASE ProxyBadAnswer(r)
  BY <1>13 DEF ProxyBadAnswer
<1>14. CASE ProxyTimeout(r)
  BY <1>14 DEF ProxyTimeout, ProxyGivesUp
<1>15. CASE ProxyCanceled(r)
  BY <1>15 DEF ProxyCanceled, ProxyGivesUp
<1>16. CASE CopyBody(r)
  BY <1>16 DEF CopyBody
<1>17. CASE CopyBreaks(r)
  BY <1>17 DEF CopyBreaks
<1>18. CASE CopyEnds(r)
  BY <1>18 DEF CopyEnds
<1>19. CASE ProxyCleanup(r)
  BY <1>19 DEF ProxyCleanup, PipeWriterWithout
<1>20. CASE ProxyRelease(r)
  BY <1>20 DEF ProxyRelease
<1>21. CASE ClientAborts(r)
  BY <1>21 DEF ClientAborts
<1> QED
  BY <1>1, <1>2, <1>3, <1>5, <1>6, <1>7, <1>8, <1>9, <1>10, <1>11,
     <1>12, <1>13, <1>14, <1>15, <1>16, <1>17, <1>18, <1>19, <1>20, <1>21
  DEF ProxyHandler, ReadGoroutine, ProxyPeer

-----------------------------------------------------------------------------
(* The theorems.                                                           *)

\* A step of the gateway keeps the inductive invariant.
LEMMA NextIInv == IInv /\ [Next]_vars => IInv'
<1> SUFFICES ASSUME IInv, [Next]_vars PROVE IInv'
  OBVIOUS
<1>1. CASE SessionNext
  BY <1>1, SessionTypes, SessionConsistent DEF IInv
<1>2. ASSUME NEW c \in RConns, RouterHandler(c) PROVE IInv'
  BY <1>2, RouterHandlerTypes, RouterHandlerConsistent DEF IInv
<1>3. ASSUME NEW c \in RConns, RouterPeer(c) PROVE IInv'
  BY <1>3, RouterPeerTypes, RouterPeerConsistent DEF IInv
<1>4. ASSUME NEW b \in BConns, BrowserHandler(b) \/ BrowserPeer(b) PROVE IInv'
  BY <1>4, BrowserTypes, BrowserConsistent DEF IInv
<1>5. ASSUME NEW r \in Reqs, ProxyHandler(r) \/ ReadGoroutine(r) \/ ProxyPeer(r) PROVE IInv'
  <2>1. TypeOK'
    BY <1>5, ProxyStartTypes, ProxyEndTypes DEF ProxyHandler, ReadGoroutine, ProxyPeer
  <2> QED
    BY <1>5, <2>1, ProxyConsistent DEF IInv
<1>6. CASE UNCHANGED vars
  BY <1>6 DEF vars, IInv, TypeOK, Consistent, ActiveIffRouter, LiveRegistration,
              SerializedTransactions, PipeOwnerInside, MutexHolderWrites
<1> QED
  BY <1>1, <1>2, <1>3, <1>4, <1>5, <1>6 DEF Next, Quiet

\* The inductive invariant holds in every reachable state.
THEOREM Invariance == Spec => []IInv
  BY InitIInv, NextIInv, PTL DEF Spec

\* Type correctness, and with it the bound of InitialBuffer.
THEOREM TypeCorrect == Spec => []TypeOK
<1>1. IInv => TypeOK
  BY DEF IInv
<1> QED
  BY <1>1, Invariance, PTL

\* pair.Active and pair.RouterConn never disagree outside a critical section.
THEOREM ActiveIsConnected == Spec => []ActiveIffRouter
<1>1. IInv => ActiveIffRouter
  BY DEF IInv, Consistent
<1> QED
  BY <1>1, Invariance, PTL

\* The pair never keeps a connection whose handler is past its teardown.
THEOREM NoDeadRegistration == Spec => []LiveRegistration
<1>1. IInv => LiveRegistration
  BY DEF IInv, Consistent
<1> QED
  BY <1>1, Invariance, PTL

\* HttpLock serialises what it is there to serialise, and the router's bytes
\* only ever go to the request that holds it.
THEOREM TransactionsSerialized == Spec => []SerializedTransactions
<1>1. IInv => SerializedTransactions
  BY DEF IInv, Consistent
<1> QED
  BY <1>1, Invariance, PTL

-----------------------------------------------------------------------------
(* Whose answer is on the wire.  Nothing in an answer says whose it is, so *)
(* that a client gets its own is a matter of what else the router sends:   *)
(* the output of a shell, and the answer to a request that was given up.   *)

\* The places of a request that was not sent yet.
Fresh == {"idle", "polling", "queued", "locked", "piped"}

\* A message that was not for r came through its pipe.
Foreign(r) == \E i \in DOMAIN req[r].got : req[r].got[i].src # r

\* r's pipe is the one that the router's loop writes to.
Piping(r) == req[r].pipe /\ req[r].pc # "release"

\* On a connection is what was sent on it: the rest of answers to the requests
\* that were written to it, and what a shell has printed.
OnlyWhatWasSent ==
    \A c \in RConns : \A i \in DOMAIN router[c].wire :
       LET m == router[c].wire[i] IN
       /\ m.src \in Reqs => req[m.src].conn = c /\ req[m.src].reader # "idle" /\ m.n <= Chunks
       /\ m.src \in RConns => router[m.src].out > 0

\* An answer is on the wire in its order.
AnswersInOrder ==
    \A c \in RConns : \A i, j \in DOMAIN router[c].wire :
       i < j /\ router[c].wire[i].src \in Reqs /\ router[c].wire[i].src = router[c].wire[j].src
          => router[c].wire[i].n < router[c].wire[j].n

\* A request that has got nothing else has got its answer from the start, and
\* what is on the wire comes after it.
OwnInOrder ==
    \A r \in Reqs : ~Foreign(r) =>
       /\ \A i \in DOMAIN req[r].got : req[r].got[i] = [src |-> r, n |-> i]
       /\ \A c \in RConns : \A i \in DOMAIN router[c].wire :
             router[c].wire[i].src = r => router[c].wire[i].n > Len(req[r].got)

\* As long as its pipe is open, nothing of its answer is missing in between.
NoneMissing ==
    \A r \in Reqs : Piping(r) /\ ~Foreign(r) =>
       \A c \in RConns : \A i \in DOMAIN router[c].wire :
          router[c].wire[i].src = r =>
             \/ router[c].wire[i].n = Len(req[r].got) + 1
             \/ i > 1 /\ router[c].wire[i - 1] = [src |-> r, n |-> router[c].wire[i].n - 1]

\* The handler and the goroutine that reads keep step.
InStep(r) ==
    /\ Piping(r) => pair.pipeWriter = r
    /\ req[r].pc \in Fresh => req[r].reader = "idle"
    /\ req[r].reader = "idle" =>
          req[r].got = <<>> /\ req[r].pc \notin {"waiting", "copying", "draining"}
    /\ req[r].reader = "reading" =>
          req[r].got = <<>> /\ (req[r].pc = "waiting" \/ ~req[r].pipe)
    /\ req[r].reader = "error" => ~req[r].pipe \/ Foreign(r)
    /\ req[r].pc = "cleanup" /\ req[r].pipe =>
          \/ req[r].reader = "idle" \/ req[r].aborted \/ Foreign(r)
          \/ Len(req[r].got) = Chunks

ReaderInStep == \A r \in Reqs : InStep(r)

\* Nobody left before his answer and no shell has printed.
Calm == (\A q \in Reqs : ~Forsaken(q)) /\ (\A c \in RConns : router[c].out = 0)

\* While it is so, nobody was handed what was not for him.
NobodyMisled == Calm => \A r \in Reqs : ~Foreign(r)

\* What makes OwnResponse and BlockedWriteIsAttended inductive.
Answering ==
    /\ OnlyWhatWasSent /\ AnswersInOrder /\ OwnInOrder /\ NoneMissing
    /\ ReaderInStep /\ NobodyMisled

\* The inductive invariant of the answers.
AInv == IInv /\ Answering

\* The gateway starts with empty wires and pipes.
LEMMA InitAInv == Init => AInv
<1> SUFFICES ASSUME Init PROVE AInv
  OBVIOUS
<1> QED
  BY InitIInv
  DEF Init, AInv, Answering, OnlyWhatWasSent, AnswersInOrder, OwnInOrder, NoneMissing,
      ReaderInStep, InStep, NobodyMisled, Foreign, Piping, Fresh

\* Wires and answers are streams of messages.
LEMMA StreamTypes ==
  ASSUME IInv
  PROVE  /\ \A c \in RConns : /\ router[c].wire \in Seq(Message) /\ Len(router[c].wire) \in Nat
                              /\ DOMAIN router[c].wire = 1..Len(router[c].wire)
                              /\ \A i \in DOMAIN router[c].wire : router[c].wire[i] \in Message
         /\ \A r \in Reqs : /\ req[r].got \in Seq(Message) /\ Len(req[r].got) \in Nat
                            /\ DOMAIN req[r].got = 1..Len(req[r].got)
<1>1. \A c \in RConns : router[c].wire \in Seq(Message)
  BY DEF IInv, TypeOK, Router
<1>2. \A r \in Reqs : req[r].got \in Seq(Message)
  BY DEF IInv, TypeOK, Request
<1> QED
  BY <1>1, <1>2

\* Messages have a source and a number.
LEMMA MessageParts ==
    \A m \in Message : /\ m.src \in Reqs \cup RConns /\ m.n \in Nat
                       /\ m = [src |-> m.src, n |-> m.n]
  BY DEF Message

\* Taking the head off a wire.
LEMMA TailShifts ==
  ASSUME NEW w \in Seq(Message), w # <<>>
  PROVE  /\ Len(Tail(w)) = Len(w) - 1 /\ Len(w) \in Nat /\ Len(w) >= 1
         /\ Head(w) = w[1]
         /\ \A i \in 1..Len(Tail(w)) : Tail(w)[i] = w[i + 1]
         /\ Tail(w) # <<>> => Len(Tail(w)) >= 1
  OBVIOUS

\* Nothing is added to a wire: what is on that of c was d[c] places further on.
ShiftedBy(d) ==
    \A c \in RConns : \A i \in DOMAIN router'[c].wire :
       /\ i \in Nat /\ i + d[c] \in DOMAIN router[c].wire
       /\ router'[c].wire[i] = router[c].wire[i + d[c]]

\* Who was sent stays sent, and who printed has printed.
KeepSent ==
    /\ \A r \in Reqs : req[r].reader # "idle" => req'[r].reader # "idle" /\ req'[r].conn = req[r].conn
    /\ \A c \in RConns : router'[c].out = router[c].out

\* What holds of a wire holds of a part of it.
LEMMA SentStill ==
  ASSUME AInv, NEW d \in [RConns -> Nat], ShiftedBy(d), KeepSent
  PROVE  OnlyWhatWasSent' /\ AnswersInOrder'
<1>1. OnlyWhatWasSent'
  <2> SUFFICES ASSUME NEW c \in RConns, NEW i \in DOMAIN router'[c].wire
               PROVE  LET m == router'[c].wire[i] IN
                      /\ m.src \in Reqs => /\ req'[m.src].conn = c /\ req'[m.src].reader # "idle"
                                           /\ m.n <= Chunks
                      /\ m.src \in RConns => router'[m.src].out > 0
    BY DEF OnlyWhatWasSent
  <2> DEFINE k == i + d[c]
             m == router[c].wire[k]
  <2>1. k \in DOMAIN router[c].wire /\ router'[c].wire[i] = m
    BY DEF ShiftedBy
  <2>2. /\ m.src \in Reqs => req[m.src].conn = c /\ req[m.src].reader # "idle" /\ m.n <= Chunks
        /\ m.src \in RConns => router[m.src].out > 0
    BY <2>1 DEF AInv, Answering, OnlyWhatWasSent
  <2> HIDE DEF m
  <2> QED
    BY <2>1, <2>2 DEF KeepSent
<1>2. AnswersInOrder'
  <2> SUFFICES ASSUME NEW c \in RConns, NEW i \in DOMAIN router'[c].wire,
                      NEW j \in DOMAIN router'[c].wire, i < j,
                      router'[c].wire[i].src \in Reqs,
                      router'[c].wire[i].src = router'[c].wire[j].src
               PROVE  router'[c].wire[i].n < router'[c].wire[j].n
    BY DEF AnswersInOrder
  <2> DEFINE k == i + d[c]
             l == j + d[c]
  <2>1. /\ k \in DOMAIN router[c].wire /\ router'[c].wire[i] = router[c].wire[k]
        /\ l \in DOMAIN router[c].wire /\ router'[c].wire[j] = router[c].wire[l]
        /\ i \in Nat /\ j \in Nat
    BY DEF ShiftedBy
  <2>2. k < l
    BY <2>1
  <2> HIDE DEF k, l
  <2> QED
    BY <2>1, <2>2 DEF AInv, Answering, AnswersInOrder
<1> QED
  BY <1>1, <1>2

\* Nobody takes a message, and nobody sends one: what a request expects of the
\* wires is still on them.
LEMMA NothingTaken ==
  ASSUME AInv, IInv', NEW d \in [RConns -> Nat], ShiftedBy(d), KeepSent, ReaderInStep',
         \A r \in Reqs : /\ req'[r].got = req[r].got
                         /\ Forsaken(r) => Forsaken(r)'
                         /\ Piping(r)' => /\ \A c \in RConns : d[c] = 0
                                          /\ Piping(r) \/ req[r].reader = "idle"
  PROVE  Answering'
<1>1. OnlyWhatWasSent' /\ AnswersInOrder'
  BY SentStill
<1>2. \A r \in Reqs : Foreign(r)' <=> Foreign(r)
  BY DEF Foreign
<1>3. OwnInOrder'
  <2> SUFFICES ASSUME NEW r \in Reqs, ~Foreign(r)
               PROVE  /\ \A i \in DOMAIN req'[r].got : req'[r].got[i] = [src |-> r, n |-> i]
                      /\ \A c \in RConns : \A i \in DOMAIN router'[c].wire :
                            router'[c].wire[i].src = r => router'[c].wire[i].n > Len(req'[r].got)
    BY <1>2 DEF OwnInOrder
  <2>1. \A c \in RConns : \A i \in DOMAIN router[c].wire :
           router[c].wire[i].src = r => router[c].wire[i].n > Len(req[r].got)
    BY DEF AInv, Answering, OwnInOrder
  <2>2. ASSUME NEW c \in RConns, NEW i \in DOMAIN router'[c].wire, router'[c].wire[i].src = r
        PROVE  router'[c].wire[i].n > Len(req'[r].got)
    <3>1. i + d[c] \in DOMAIN router[c].wire /\ router'[c].wire[i] = router[c].wire[i + d[c]]
      BY DEF ShiftedBy
    <3> QED
      BY <2>1, <2>2, <3>1
  <2> QED
    BY <2>2 DEF AInv, Answering, OwnInOrder
<1>4. NoneMissing'
  <2> SUFFICES ASSUME NEW r \in Reqs, Piping(r)', ~Foreign(r),
                      NEW c \in RConns, NEW i \in DOMAIN router'[c].wire,
                      router'[c].wire[i].src = r
               PROVE  \/ router'[c].wire[i].n = Len(req'[r].got) + 1
                      \/ i > 1 /\ router'[c].wire[i - 1] = [src |-> r, n |-> router'[c].wire[i].n - 1]
    BY <1>2 DEF NoneMissing
  <2>1. d[c] = 0 /\ i \in Nat /\ i \in DOMAIN router[c].wire /\ router'[c].wire[i] = router[c].wire[i]
    BY DEF ShiftedBy
  <2>2. Piping(r)
    BY <2>1 DEF AInv, Answering, OnlyWhatWasSent
  <2>3. CASE router[c].wire[i].n = Len(req[r].got) + 1
    BY <2>1, <2>3
  <2>4. CASE i > 1 /\ router[c].wire[i - 1] = [src |-> r, n |-> router[c].wire[i].n - 1]
    <3>1. i - 1 \in DOMAIN router'[c].wire
      <4>1. router'[c].wire \in Seq(Message)
        BY DEF IInv, TypeOK, Router
      <4>2. \A w \in Seq(Message) : \A k \in DOMAIN w : k > 1 => k - 1 \in DOMAIN w
        OBVIOUS
      <4> QED
        BY <2>4, <4>1, <4>2
    <3>2. router'[c].wire[i - 1] = router[c].wire[i - 1]
      BY <2>1, <3>1 DEF ShiftedBy
    <3> QED
      BY <2>1, <2>4, <3>2
  <2> QED
    BY <2>1, <2>2, <2>3, <2>4 DEF AInv, Answering, NoneMissing
<1>5. NobodyMisled'
  <2>1. Calm' => Calm
    BY DEF Calm, KeepSent
  <2> QED
    BY <1>2, <2>1 DEF AInv, Answering, NobodyMisled
<1> QED
  BY <1>1, <1>3, <1>4, <1>5 DEF Answering
\* A request that is piping holds the lock and is the one the loop writes to.
LEMMA OnePiping ==
  ASSUME AInv, NEW r \in Reqs, Piping(r)
  PROVE  /\ pair.pipeWriter = r /\ pair.httpLock = r
         /\ \A q \in Reqs : q # r => ~Piping(q) /\ req[q].pc \notin Serving
  BY DEF AInv, Answering, ReaderInStep, InStep, IInv, Consistent, SerializedTransactions, Piping

\* The head of the wire of connection c is taken off.
LEMMA HeadShifts ==
  ASSUME IInv, NEW c \in RConns, router[c].wire # <<>>,
         router'[c].wire = Tail(router[c].wire),
         \A e \in RConns : e # c => router'[e].wire = router[e].wire
  PROVE  /\ [e \in RConns |-> IF e = c THEN 1 ELSE 0] \in [RConns -> Nat]
         /\ ShiftedBy([e \in RConns |-> IF e = c THEN 1 ELSE 0])
<1> DEFINE d == [e \in RConns |-> IF e = c THEN 1 ELSE 0]
<1>1. d \in [RConns -> Nat]
  OBVIOUS
<1>2. ASSUME NEW e \in RConns, NEW i \in DOMAIN router'[e].wire
      PROVE  /\ i \in Nat /\ i + d[e] \in DOMAIN router[e].wire
             /\ router'[e].wire[i] = router[e].wire[i + d[e]]
  <2>1. CASE e = c
    <3> DEFINE w == router[c].wire
    <3>1. w \in Seq(Message) /\ w # <<>> /\ d[e] = 1
      BY <2>1, StreamTypes
    <3>2. i \in DOMAIN Tail(w)
      BY <1>2, <2>1
    <3> HIDE DEF w, d
    <3>3. i \in Nat /\ i + 1 \in DOMAIN w /\ Tail(w)[i] = w[i + 1]
      BY <3>1, <3>2
    <3> QED
      BY <2>1, <3>1, <3>3 DEF w
  <2>2. CASE e # c
    <3>1. d[e] = 0 /\ router'[e].wire = router[e].wire /\ i \in 1..Len(router[e].wire)
      BY <1>2, <2>2, StreamTypes
    <3> QED
      BY <3>1, StreamTypes
  <2> QED
    BY <2>1, <2>2
<1> QED
  BY <1>1, <1>2 DEF ShiftedBy

\* Wires that stay, or are emptied, are parts of what they were.
LEMMA WiresStay ==
  ASSUME IInv, \A c \in RConns : router'[c].wire \in {router[c].wire, <<>>}
  PROVE  /\ [e \in RConns |-> 0] \in [RConns -> Nat]
         /\ ShiftedBy([e \in RConns |-> 0])
<1>1. ASSUME NEW c \in RConns, NEW i \in DOMAIN router'[c].wire
      PROVE  /\ i \in Nat /\ i + 0 \in DOMAIN router[c].wire
             /\ router'[c].wire[i] = router[c].wire[i + 0]
  <2>1. router'[c].wire = router[c].wire
    BY <1>1
  <2>2. i \in 1..Len(router[c].wire) /\ DOMAIN router[c].wire = 1..Len(router[c].wire)
    BY <1>1, <2>1, StreamTypes
  <2>3. i \in Nat /\ i + 0 = i
    BY <2>2
  <2> QED
    BY <2>1, <2>2, <2>3
<1> QED
  BY <1>1 DEF ShiftedBy

\* Steps that at most empty wires, and leave the answers as they are.
LEMMA NoMessageMoves ==
  ASSUME AInv, IInv', ReaderInStep', KeepSent,
         \A c \in RConns : router'[c].wire \in {router[c].wire, <<>>},
         \A r \in Reqs : /\ req'[r].got = req[r].got
                         /\ Forsaken(r) => Forsaken(r)'
                         /\ Piping(r)' => Piping(r) \/ req[r].reader = "idle"
  PROVE  Answering'
<1> DEFINE d == [e \in RConns |-> 0]
<1>1. d \in [RConns -> Nat] /\ ShiftedBy(d) /\ \A c \in RConns : d[c] = 0
  BY WiresStay DEF AInv
<1> HIDE DEF d
<1> QED
  BY <1>1, NothingTaken

\* Of these, the ones that do not touch the requests either.
LEMMA RequestsStay ==
  ASSUME AInv, IInv', UNCHANGED req, pair'.pipeWriter = pair.pipeWriter,
         \A c \in RConns : /\ router'[c].wire \in {router[c].wire, <<>>}
                           /\ router'[c].out = router[c].out
  PROVE  Answering'
<1>1. ReaderInStep' /\ KeepSent
  BY DEF AInv, Answering, ReaderInStep, InStep, KeepSent, Piping, Foreign
<1>2. \A r \in Reqs : /\ req'[r].got = req[r].got
                      /\ Forsaken(r) => Forsaken(r)'
                      /\ Piping(r)' => Piping(r) \/ req[r].reader = "idle"
  BY DEF Forsaken, Piping
<1> QED
  BY <1>1, <1>2, NoMessageMoves

\* A message that is forwarded past the pipe, or into a closed one, is taken
\* from nobody who reads.
LEMMA Bypassed ==
  ASSUME AInv, IInv', NEW c \in RConns, router[c].wire # <<>>, UNCHANGED req,
         pair.pipeWriter = None \/ ~req[pair.pipeWriter].pipe,
         pair'.pipeWriter = pair.pipeWriter,
         router'[c].wire = Tail(router[c].wire),
         \A e \in RConns : /\ e # c => router'[e].wire = router[e].wire
                           /\ router'[e].out = router[e].out
  PROVE  Answering'
<1> DEFINE d == [e \in RConns |-> IF e = c THEN 1 ELSE 0]
<1>1. d \in [RConns -> Nat] /\ ShiftedBy(d)
  BY HeadShifts DEF AInv
<1>2. \A r \in Reqs : ~Piping(r)
  BY ConnAssumption DEF AInv, Answering, ReaderInStep, InStep, Piping
<1>3. \A r \in Reqs : ~Piping(r)'
  BY <1>2 DEF Piping
<1>4. ReaderInStep' /\ KeepSent
  BY <1>3 DEF AInv, Answering, ReaderInStep, InStep, KeepSent, Foreign
<1>5. \A r \in Reqs : req'[r].got = req[r].got /\ (Forsaken(r) => Forsaken(r)')
  BY DEF Forsaken
<1> HIDE DEF d
<1> QED
  BY <1>1, <1>3, <1>4, <1>5, NothingTaken

\* Neither the session's steps nor a restart hand a client somebody else's answer.
LEMMA AnsweringSession ==
  ASSUME AInv, IInv', SessionNext PROVE Answering'
<1>1. CASE RequestTunnel \/ Expire
  <2>1. UNCHANGED <<pair, router, req>>
    BY <1>1 DEF RequestTunnel, Expire
  <2> QED
    BY <2>1, RequestsStay
<1>2. CASE Restart
  <2>1. \A c \in RConns : router'[c].wire = <<>> /\ router'[c].out = router[c].out
    BY <1>2 DEF Restart, AInv, IInv, TypeOK, Router
  <2>2. \A r \in Reqs : /\ (req'[r].pc = "idle" /\ req[r].pc = "idle") \/ req'[r].pc = "done"
                        /\ req'[r].got = req[r].got /\ ~req'[r].pipe
                        /\ req'[r].reader = IF req[r].reader = "idle" THEN "idle" ELSE "error"
                        /\ req'[r].conn = req[r].conn
    <3> SUFFICES ASSUME NEW r \in Reqs
                 PROVE  /\ (req'[r].pc = "idle" /\ req[r].pc = "idle") \/ req'[r].pc = "done"
                        /\ req'[r].got = req[r].got /\ ~req'[r].pipe
                        /\ req'[r].reader = IF req[r].reader = "idle" THEN "idle" ELSE "error"
                        /\ req'[r].conn = req[r].conn
      OBVIOUS
    <3>1. req[r] \in Request
      BY DEF AInv, IInv, TypeOK
    <3>2. req'[r] = [req[r] EXCEPT !.pc = Killed(@), !.pipe = FALSE,
                                   !.reader = IF @ = "idle" THEN "idle" ELSE "error"]
      BY <1>2 DEF Restart
    <3> QED
      BY <3>1, <3>2 DEF Killed, Request
  <2>3. \A r \in Reqs : req[r].reader = "idle" => req[r].got = <<>>
    BY DEF AInv, Answering, ReaderInStep, InStep
  <2>4. \A r \in Reqs : req[r].pc = "idle" => req[r].reader = "idle"
    BY DEF AInv, Answering, ReaderInStep, InStep, Fresh
  <2>5. ReaderInStep'
    <3> SUFFICES ASSUME NEW r \in Reqs
                 PROVE  /\ ~req'[r].pipe /\ req'[r].pc \in {"idle", "done"}
                        /\ req'[r].pc = "idle" => req'[r].reader = "idle"
                        /\ req'[r].reader = "idle" => req'[r].got = <<>>
                        /\ req'[r].reader # "reading"
      BY DEF ReaderInStep, InStep, Piping, Fresh
    <3> QED
      BY <2>2, <2>3, <2>4
  <2>7. KeepSent
    BY <2>1, <2>2 DEF KeepSent
  <2>6. \A r \in Reqs : (Forsaken(r) => Forsaken(r)') /\ ~Piping(r)'
    BY <2>2, <2>4 DEF Forsaken, Piping
  <2> QED
    BY <2>1, <2>2, <2>5, <2>7, <2>6, NoMessageMoves
<1> QED
  BY <1>1, <1>2 DEF SessionNext
\* What a router's handler or its peer does, but for the shell's output.
LEMMA AnsweringRouter ==
  ASSUME AInv, IInv', NEW c \in RConns,
         RouterHandler(c) \/ RouterAccept(c) \/ RouterReject(c) \/ RouterHangsUp(c)
  PROVE  Answering'
<1>1. router \in [RConns -> Router] /\ pair \in Pair /\ c # None
  BY ConnAssumption DEF AInv, IInv, TypeOK
<1>2. CASE RouterAttach(c) \/ RouterMarkActive(c) \/ RouterMarkTerminated(c) \/ RouterWriteBlocks(c)
           \/ RouterReadFails(c) \/ RouterAccept(c) \/ RouterReject(c) \/ RouterHangsUp(c)
  <2>1. UNCHANGED req /\ pair'.pipeWriter = pair.pipeWriter
    BY <1>1, <1>2
    DEF RouterAttach, RouterMarkActive, RouterMarkTerminated, RouterWriteBlocks, RouterReadFails,
        RouterAccept, RouterReject, RouterHangsUp, Pair
  <2>2. \A e \in RConns : /\ router'[e].wire \in {router[e].wire, <<>>}
                          /\ router'[e].out = router[e].out
    <3>1. ASSUME NEW pc, router' = [router EXCEPT ![c].pc = pc]
          PROVE  \A e \in RConns : router'[e].wire = router[e].wire /\ router'[e].out = router[e].out
      BY <1>1, <3>1 DEF Router
    <3>2. CASE RouterAccept(c)
      BY <1>1, <3>2 DEF RouterAccept, Router
    <3>3. CASE RouterHangsUp(c)
      BY <1>1, <3>3 DEF RouterHangsUp, Router
    <3>4. CASE RouterReadFails(c)
      BY <1>1, <3>4 DEF RouterReadFails, Router
    <3>5. CASE \/ RouterAttach(c) \/ RouterMarkActive(c) \/ RouterMarkTerminated(c)
               \/ RouterWriteBlocks(c) \/ RouterReject(c)
      <4>1. \E pc : router' = [router EXCEPT ![c].pc = pc]
        BY <3>5 DEF RouterAttach, RouterMarkActive, RouterMarkTerminated, RouterWriteBlocks,
                    RouterReject, RouterTo
      <4> QED
        BY <3>1, <4>1
    <3> QED
      BY <1>2, <3>2, <3>3, <3>4, <3>5
  <2> QED
    BY <2>1, <2>2, RequestsStay
<1>3. CASE RouterToBrowser(c) \/ RouterToBuffer(c) \/ RouterWriteFails(c) \/ RouterWriteAborted(c)
  <2>1. UNCHANGED req /\ pair'.pipeWriter = pair.pipeWriter
    <3>1. CASE RouterToBuffer(c)
      BY <1>1, <3>1, KeptOnly DEF RouterToBuffer
    <3>2. CASE ~RouterToBuffer(c)
      BY <1>1, <1>3, <3>2 DEF RouterToBrowser, RouterWriteFails, RouterWriteAborted, WriteReturns, Pair
    <3> QED
      BY <3>1, <3>2
  <2>2. /\ router[c].wire # <<>>
        /\ pair.pipeWriter = None \/ ~req[pair.pipeWriter].pipe
    <3>1. CASE RouterWriteAborted(c)
      BY <1>1, <3>1 DEF RouterWriteAborted, AInv, IInv, Consistent, MutexHolderWrites
    <3>2. CASE ~RouterWriteAborted(c)
      BY <1>3, <3>2 DEF RouterToBrowser, RouterToBuffer, RouterWriteFails, CanForward
    <3> QED
      BY <3>1, <3>2
  <2>3. /\ router'[c].wire = Tail(router[c].wire)
        /\ \A e \in RConns : /\ e # c => router'[e].wire = router[e].wire
                             /\ router'[e].out = router[e].out
    <3>1. \/ router' = [router EXCEPT ![c].wire = Tail(@)]
          \/ router' = [router EXCEPT ![c].pc = "reading", ![c].wire = Tail(@)]
      BY <1>3 DEF RouterToBrowser, RouterToBuffer, RouterWriteFails, RouterWriteAborted,
                  WriteReturns, Forwarded
    <3>2. router[c] \in Router /\ \A e \in RConns : router[e] \in Router
      BY <1>1
    <3>3. CASE router' = [router EXCEPT ![c].wire = Tail(@)]
      BY <1>1, <3>2, <3>3 DEF Router
    <3>4. CASE router' = [router EXCEPT ![c].pc = "reading", ![c].wire = Tail(@)]
      BY <1>1, <3>2, <3>4 DEF Router
    <3> QED
      BY <3>1, <3>3, <3>4
  <2> QED
    BY <2>1, <2>2, <2>3, Bypassed
<1>4. CASE RouterTeardown(c)
  <2>1. \A e \in RConns : router'[e].wire = router[e].wire /\ router'[e].out = router[e].out
    BY <1>1, <1>4 DEF RouterTeardown, RouterTo, Router
  <2>2. \A r \in Reqs : /\ req'[r].pc = req[r].pc /\ req'[r].got = req[r].got
                        /\ req'[r].reader = req[r].reader /\ req'[r].conn = req[r].conn
                        /\ req'[r].pipe = (req[r].pipe /\ r # pair.pipeWriter)
    BY <1>4 DEF RouterTeardown, AInv, IInv, TypeOK, Request
  <2>3. \A r \in Reqs : ~Piping(r)'
    BY <2>2 DEF AInv, Answering, ReaderInStep, InStep, Piping
  <2>4. \A r \in Reqs : Foreign(r)' <=> Foreign(r)
    BY <2>2 DEF Foreign
  <2>5. ReaderInStep'
    <3> SUFFICES ASSUME NEW r \in Reqs
                 PROVE  /\ req'[r].pc \in Fresh => req'[r].reader = "idle"
                        /\ req'[r].reader = "idle" =>
                              req'[r].got = <<>> /\ req'[r].pc \notin {"waiting", "copying", "draining"}
                        /\ req'[r].reader = "reading" =>
                              req'[r].got = <<>> /\ (req'[r].pc = "waiting" \/ ~req'[r].pipe)
                        /\ req'[r].reader = "error" => ~req'[r].pipe \/ Foreign(r)
                        /\ ~(req'[r].pc = "cleanup" /\ req'[r].pipe)
      BY <2>3, <2>4 DEF ReaderInStep, InStep
    <3> QED
      BY <2>2, <2>3 DEF AInv, Answering, ReaderInStep, InStep, Piping
  <2>6. KeepSent /\ \A r \in Reqs : Forsaken(r) => Forsaken(r)'
    BY <2>1, <2>2 DEF KeepSent, Forsaken
  <2> QED
    BY <2>1, <2>2, <2>3, <2>5, <2>6, NoMessageMoves
<1> QED
  BY <1>2, <1>3, <1>4 DEF RouterHandler

\* The wire of connection c gets longer, at the end: every message is one that was
\* there, with the same one before it, or one of the new ones.
LEMMA OldOrNew ==
  ASSUME IInv, NEW c \in RConns, NEW s \in Seq(Message),
         router'[c].wire = router[c].wire \o s,
         \A e \in RConns : e # c => router'[e].wire = router[e].wire,
         NEW e \in RConns, NEW i \in DOMAIN router'[e].wire
  PROVE  \/ /\ i \in DOMAIN router[e].wire /\ router'[e].wire[i] = router[e].wire[i]
            /\ i > 1 => /\ i - 1 \in DOMAIN router[e].wire
                        /\ router'[e].wire[i - 1] = router[e].wire[i - 1]
         \/ /\ e = c /\ i - Len(router[c].wire) \in DOMAIN s
            /\ router'[e].wire[i] = s[i - Len(router[c].wire)]
<1> DEFINE w == router[e].wire
<1>1. w \in Seq(Message)
  BY StreamTypes
<1>2. CASE e # c
  <2>1. router'[e].wire = w /\ i \in DOMAIN w
    BY <1>2
  <2> HIDE DEF w
  <2>2. i > 1 => i - 1 \in DOMAIN w
    BY <1>1, <2>1
  <2> QED
    BY <2>1, <2>2 DEF w
<1>3. CASE e = c
  <2>1. router'[e].wire = w \o s /\ i \in DOMAIN (w \o s)
    BY <1>3
  <2> HIDE DEF w
  <2>2. i \in 1..(Len(w) + Len(s)) /\ Len(w) \in Nat /\ Len(s) \in Nat
    BY <1>1, <2>1
  <2>3. CASE i <= Len(w)
    <3>1. /\ i \in DOMAIN w /\ (w \o s)[i] = w[i]
          /\ i > 1 => i - 1 \in DOMAIN w /\ (w \o s)[i - 1] = w[i - 1]
      BY <1>1, <2>2, <2>3
    <3> QED
      BY <2>1, <3>1 DEF w
  <2>4. CASE ~(i <= Len(w))
    <3>1. i - Len(w) \in DOMAIN s /\ (w \o s)[i] = s[i - Len(w)]
      BY <1>1, <2>2, <2>4
    <3> QED
      BY <1>3, <2>1, <3>1 DEF w
  <2> QED
    BY <2>3, <2>4
<1> QED
  BY <1>2, <1>3

\* A shell prints: that is no answer, and nobody is calm any more.
LEMMA AnsweringPrints ==
  ASSUME AInv, IInv', NEW c \in RConns, RouterPrints(c) PROVE Answering'
<1> DEFINE m == [src |-> c, n |-> router[c].out + 1]
           s == <<m>>
<1>1. router \in [RConns -> Router] /\ UNCHANGED <<pair, req>>
  BY DEF AInv, IInv, TypeOK, RouterPrints
<1>2. router[c].out \in Nat /\ m \in Message /\ m.src = c /\ c \notin Reqs
  BY <1>1, ConnAssumption, BoundAssumption DEF Router, Message
<1>3. s \in Seq(Message) /\ \A k \in DOMAIN s : s[k].src = c
  BY <1>2
<1>4. /\ router'[c].wire = router[c].wire \o s /\ router'[c].out = router[c].out + 1
      /\ \A e \in RConns : e # c => router'[e] = router[e]
  <2>1. router[c].wire \in Seq(Message) /\ router[c] \in Router
    BY <1>1 DEF Router
  <2>2. router'[c].wire = Append(router[c].wire, m) /\ router'[c].out = router[c].out + 1
    BY <1>1, <2>1 DEF RouterPrints, Router
  <2>3. \A w \in Seq(Message) : Append(w, m) = w \o s
    BY <1>2
  <2>4. \A e \in RConns : e # c => router'[e] = router[e]
    BY <1>1 DEF RouterPrints
  <2> QED
    BY <2>1, <2>2, <2>3, <2>4
<1> HIDE DEF s, m
<1>5. ASSUME NEW e \in RConns, NEW i \in DOMAIN router'[e].wire
      PROVE  \/ /\ i \in DOMAIN router[e].wire /\ router'[e].wire[i] = router[e].wire[i]
                /\ i > 1 => /\ i - 1 \in DOMAIN router[e].wire
                            /\ router'[e].wire[i - 1] = router[e].wire[i - 1]
             \/ router'[e].wire[i].src = c
  <2>1. /\ IInv /\ router'[c].wire = router[c].wire \o s
        /\ \A d \in RConns : d # c => router'[d].wire = router[d].wire
    BY <1>4 DEF AInv
  <2>2. \/ /\ i \in DOMAIN router[e].wire /\ router'[e].wire[i] = router[e].wire[i]
           /\ i > 1 => /\ i - 1 \in DOMAIN router[e].wire
                       /\ router'[e].wire[i - 1] = router[e].wire[i - 1]
        \/ /\ i - Len(router[c].wire) \in DOMAIN s
           /\ router'[e].wire[i] = s[i - Len(router[c].wire)]
    BY <1>3, <1>5, <2>1, OldOrNew
  <2> QED
    BY <1>3, <2>2
<1>6. OnlyWhatWasSent'
  <2> SUFFICES ASSUME NEW e \in RConns, NEW i \in DOMAIN router'[e].wire
               PROVE  LET x == router'[e].wire[i] IN
                      /\ x.src \in Reqs => req[x.src].conn = e /\ req[x.src].reader # "idle" /\ x.n <= Chunks
                      /\ x.src \in RConns => router'[x.src].out > 0
    BY <1>1 DEF OnlyWhatWasSent
  <2>1. \A d \in RConns : router[d].out > 0 => router'[d].out > 0
    BY <1>2, <1>4
  <2>2. router'[c].out > 0
    BY <1>2, <1>4
  <2> QED
    BY <1>2, <1>5, <2>1, <2>2 DEF AInv, Answering, OnlyWhatWasSent
<1>7. AnswersInOrder'
  <2> SUFFICES ASSUME NEW e \in RConns, NEW i \in DOMAIN router'[e].wire,
                      NEW j \in DOMAIN router'[e].wire, i < j,
                      router'[e].wire[i].src \in Reqs,
                      router'[e].wire[i].src = router'[e].wire[j].src
               PROVE  router'[e].wire[i].n < router'[e].wire[j].n
    BY DEF AnswersInOrder
  <2> QED
    BY <1>2, <1>5 DEF AInv, Answering, AnswersInOrder
<1>8. OwnInOrder'
  BY <1>1, <1>2, <1>5 DEF AInv, Answering, OwnInOrder, Foreign
<1>9. NoneMissing'
  BY <1>1, <1>2, <1>5 DEF AInv, Answering, NoneMissing, Foreign, Piping
<1>10. ReaderInStep'
  BY <1>1 DEF AInv, Answering, ReaderInStep, InStep, Piping, Foreign
<1>11. NobodyMisled'
  <2>1. router'[c].out # 0
    BY <1>2, <1>4
  <2> QED
    BY <2>1 DEF NobodyMisled, Calm
<1> QED
  BY <1>6, <1>7, <1>8, <1>9, <1>10, <1>11 DEF Answering

\* What the tabs do.
LEMMA AnsweringBrowser ==
  ASSUME AInv, IInv', NEW b \in BConns, BrowserHandler(b) \/ BrowserPeer(b) PROVE Answering'
<1>1. router \in [RConns -> Router] /\ pair \in Pair
  BY DEF AInv, IInv, TypeOK
<1>2. CASE BrowserRelay(b)
  <2>1. pair.routerConn \in RConns /\ RouterPrints(pair.routerConn)
    BY <1>1, <1>2 DEF BrowserRelay, Pair
  <2> QED
    BY <2>1, AnsweringPrints
<1>3. CASE BrowserAttach(b)
  <2>1. UNCHANGED <<req, router>> /\ pair'.pipeWriter = pair.pipeWriter
    BY <1>1, <1>3, FlushedOnly DEF BrowserAttach
  <2> QED
    BY <2>1, RequestsStay
<1>4. CASE BrowserTeardown(b)
  <2>1. UNCHANGED req /\ pair'.pipeWriter = pair.pipeWriter
    BY <1>1, <1>4 DEF BrowserTeardown, PairWithoutBrowser, Pair
  <2>2. \A c \in RConns : router'[c].wire = router[c].wire /\ router'[c].out = router[c].out
    BY <1>1, <1>4 DEF BrowserTeardown, Router
  <2> QED
    BY <2>1, <2>2, RequestsStay
<1>5. CASE BrowserReadFails(b) \/ BrowserAccept(b) \/ BrowserReject(b) \/ BrowserHangsUp(b)
  <2>1. UNCHANGED <<req, router, pair>>
    BY <1>5 DEF BrowserReadFails, BrowserAccept, BrowserReject, BrowserHangsUp
  <2> QED
    BY <2>1, RequestsStay
<1> QED
  BY <1>2, <1>3, <1>4, <1>5 DEF BrowserHandler, BrowserPeer

\* One request moves on, and no message moves.
LEMMA OneMoves ==
  ASSUME AInv, IInv', NEW r \in Reqs, UNCHANGED router, ReaderInStep',
         \A q \in Reqs : q # r => req'[q] = req[q],
         req'[r].got = req[r].got,
         req[r].reader # "idle" => req'[r].reader # "idle" /\ req'[r].conn = req[r].conn,
         req[r].pc \in {"cleanup", "release", "done"} =>
            req'[r].pc \in {"cleanup", "release", "done"},
         Piping(r)' => Piping(r) \/ req[r].reader = "idle"
  PROVE  Answering'
<1>1. KeepSent
  BY DEF KeepSent
<1>2. \A q \in Reqs : /\ req'[q].got = req[q].got
                      /\ Forsaken(q) => Forsaken(q)'
                      /\ Piping(q)' => Piping(q) \/ req[q].reader = "idle"
  BY DEF Forsaken, Piping
<1> QED
  BY <1>1, <1>2, NoMessageMoves

\* To see that everyone keeps step it is enough to look at who moved.
LEMMA OthersInStep ==
  ASSUME AInv, NEW r \in Reqs, InStep(r)',
         \A q \in Reqs : q # r => req'[q] = req[q],
         pair'.pipeWriter = pair.pipeWriter \/ \A q \in Reqs : q # r => ~req[q].pipe
  PROVE  ReaderInStep'
<1>1. ASSUME NEW q \in Reqs, q # r PROVE InStep(q)'
  <2>1. InStep(q)
    BY DEF AInv, Answering, ReaderInStep
  <2>2. req'[q] = req[q] /\ (pair'.pipeWriter = pair.pipeWriter \/ ~req[q].pipe)
    BY <1>1
  <2> QED
    BY <2>1, <2>2 DEF InStep, Piping, Foreign
<1> QED
  BY <1>1 DEF ReaderInStep

\* Who holds HttpLock is the only one with a pipe.
LEMMA OtherPipesClosed ==
  ASSUME AInv, NEW r \in Reqs, req[r].pc \in Serving
  PROVE  \A q \in Reqs : q # r => ~req[q].pipe
  BY DEF AInv, IInv, Consistent, SerializedTransactions

\* Request r moves to p; its pipe, its reader and what was read stay.
MovesTo(r, p) ==
    /\ \A q \in Reqs : q # r => req'[q] = req[q]
    /\ req'[r].pc = p /\ req'[r].pipe = req[r].pipe /\ req'[r].conn = req[r].conn
    /\ req'[r].reader = req[r].reader /\ req'[r].got = req[r].got
    /\ req'[r].aborted = req[r].aborted

LEMMA Moving ==
  ASSUME IInv, NEW r \in Reqs, NEW p,
         ReqTo(r, p) \/ \E o \in Outcome : ReqEnds(r, p, o)
  PROVE  MovesTo(r, p)
<1>1. req \in [Reqs -> Request]
  BY DEF IInv, TypeOK
<1>2. CASE ReqTo(r, p)
  BY <1>1, <1>2 DEF ReqTo, MovesTo, Request
<1>3. ASSUME NEW o \in Outcome, ReqEnds(r, p, o) PROVE MovesTo(r, p)
  <2>1. req[r] \in Request /\ req' = [req EXCEPT ![r] = [@ EXCEPT !.pc = p, !.outcome = o]]
    BY <1>1, <1>3 DEF ReqEnds
  <2>2. req'[r] = [req[r] EXCEPT !.pc = p, !.outcome = o]
    BY <1>1, <2>1
  <2>3. /\ req'[r].pc = p /\ req'[r].pipe = req[r].pipe /\ req'[r].conn = req[r].conn
        /\ req'[r].reader = req[r].reader /\ req'[r].got = req[r].got
        /\ req'[r].aborted = req[r].aborted
    <3>1. \A x \in Request : LET y == [x EXCEPT !.pc = p, !.outcome = o]
                             IN  /\ y.pc = p /\ y.pipe = x.pipe /\ y.conn = x.conn
                                 /\ y.reader = x.reader /\ y.got = x.got /\ y.aborted = x.aborted
      BY DEF Request
    <3> QED
      BY <2>1, <2>2, <3>1
  <2> QED
    BY <1>1, <2>1, <2>3 DEF MovesTo
<1> QED
  BY <1>2, <1>3

\* Such a step keeps the answers, as long as the request is in step where it gets.
LEMMA MovingAnswers ==
  ASSUME AInv, IInv', NEW r \in Reqs, NEW p, MovesTo(r, p), UNCHANGED router, InStep(r)',
         pair'.pipeWriter = pair.pipeWriter \/ \A q \in Reqs : q # r => ~req[q].pipe,
         req[r].pc \notin {"release", "done"},
         req[r].pc = "cleanup" => p \in {"cleanup", "release"}
  PROVE  Answering'
<1>1. ReaderInStep'
  BY OthersInStep DEF MovesTo
<1>2. /\ \A q \in Reqs : q # r => req'[q] = req[q]
      /\ req'[r].got = req[r].got
      /\ req'[r].reader = req[r].reader /\ req'[r].conn = req[r].conn
      /\ req[r].pc \in {"cleanup", "release", "done"} =>
            req'[r].pc \in {"cleanup", "release", "done"}
      /\ Piping(r)' => Piping(r)
  BY DEF MovesTo, Piping
<1> QED
  BY <1>1, <1>2, OneMoves

\* A request until it is sent, or refused.
LEMMA AnsweringStart ==
  ASSUME AInv, IInv', NEW r \in Reqs,
         \/ ProxyAccept(r) \/ ProxyReject(r) \/ ProxyReady(r) \/ ProxyNotReady(r) \/ ProxyLock(r)
         \/ ProxyBadRequest(r) \/ ProxyOpenPipe(r) \/ ProxySendFails(r)
  PROVE  Answering'
<1>1. req \in [Reqs -> Request] /\ req[r] \in Request /\ pair \in Pair /\ r # None
  BY ConnAssumption DEF AInv, IInv, TypeOK
<1>2. InStep(r)
  BY DEF AInv, Answering, ReaderInStep
<1>3. ASSUME NEW p \in Fresh \cup {"done", "cleanup"},
             ReqTo(r, p) \/ \E o \in Outcome : ReqEnds(r, p, o),
             UNCHANGED router, pair'.pipeWriter = pair.pipeWriter, req[r].pc \in Fresh,
             p \in Fresh \/ ~req[r].pipe \/ p = "cleanup"
      PROVE  Answering'
  <2>1. MovesTo(r, p)
    BY <1>3, Moving DEF AInv
  <2>2. InStep(r)'
    BY <1>2, <1>3, <2>1 DEF InStep, MovesTo, Piping, Foreign, Fresh
  <2> QED
    BY <1>3, <2>1, <2>2, MovingAnswers DEF Fresh
<1>4. CASE ProxyAccept(r) \/ ProxyReady(r)
  BY <1>3, <1>4 DEF ProxyAccept, ProxyReady, ReqAt, Fresh
<1>5. CASE ProxyReject(r) \/ ProxyNotReady(r)
  <2>1. ~req[r].pipe
    BY <1>5 DEF ProxyReject, ProxyNotReady, ReqAt, Serving, AInv, IInv, Consistent, SerializedTransactions
  <2> QED
    BY <1>3, <1>5, <2>1 DEF ProxyReject, ProxyNotReady, ReqAt, Fresh, Outcome
<1>6. CASE ProxyLock(r)
  <2>1. pair'.pipeWriter = pair.pipeWriter
    BY <1>1, <1>6 DEF ProxyLock, Pair
  <2> QED
    BY <1>3, <1>6, <2>1 DEF ProxyLock, ReqAt, Fresh
<1>7. CASE ProxyBadRequest(r)
  <2>1. pair'.pipeWriter = pair.pipeWriter /\ ~req[r].pipe
    BY <1>1, <1>7 DEF ProxyBadRequest, ReqAt, Pair, AInv, IInv, Consistent, PipeOwnerInside
  <2> QED
    BY <1>3, <1>7, <2>1 DEF ProxyBadRequest, ReqAt, Fresh, Outcome
<1>8. CASE ProxySendFails(r)
  BY <1>3, <1>8 DEF ProxySendFails, ReqAt, Fresh, Outcome
<1>9. CASE ProxyOpenPipe(r)
  <2>1. /\ \A q \in Reqs : q # r => req'[q] = req[q]
        /\ req'[r].pc = "piped" /\ req'[r].got = req[r].got /\ req'[r].reader = req[r].reader
        /\ pair'.pipeWriter = r /\ UNCHANGED router
    BY <1>1, <1>9 DEF ProxyOpenPipe, Request, Pair
  <2>2. req[r].pc = "locked" /\ req[r].reader = "idle"
    BY <1>2, <1>9 DEF ProxyOpenPipe, ReqAt, InStep, Fresh
  <2>3. InStep(r)'
    BY <1>2, <2>1, <2>2 DEF InStep, Piping, Fresh
  <2>4. \A q \in Reqs : q # r => ~req[q].pipe
    BY <2>2, OtherPipesClosed DEF Serving
  <2>5. ReaderInStep'
    BY <2>1, <2>3, <2>4, OthersInStep
  <2> QED
    BY <2>1, <2>2, <2>5, OneMoves
<1> QED
  BY <1>4, <1>5, <1>6, <1>7, <1>8, <1>9

\* A request that gets its answer, gives up, and leaves.
LEMMA AnsweringEnd ==
  ASSUME AInv, IInv', NEW r \in Reqs,
         \/ ReadResponseFails(r) \/ ProxyAnswered(r) \/ ProxyBadAnswer(r)
         \/ ProxyTimeout(r) \/ ProxyCanceled(r) \/ CopyEnds(r)
         \/ ProxyCleanup(r) \/ ProxyRelease(r) \/ ClientAborts(r)
  PROVE  Answering'
<1>1. req \in [Reqs -> Request] /\ req[r] \in Request /\ pair \in Pair /\ r # None
  BY ConnAssumption DEF AInv, IInv, TypeOK
<1>2. InStep(r)
  BY DEF AInv, Answering, ReaderInStep
<1>3. ASSUME NEW p \in {"copying", "cleanup"}, \E o \in Outcome : ReqEnds(r, p, o),
             UNCHANGED <<router, pair>>, req[r].pc \in {"waiting", "copying", "draining"},
             req[r].reader # "reading" \/ ~req[r].pipe,
             p = "cleanup" => ~req[r].pipe \/ Foreign(r) \/ Len(req[r].got) = Chunks
      PROVE  Answering'
  <2>1. MovesTo(r, p)
    BY <1>3, Moving DEF AInv
  <2>2. InStep(r)'
    BY <1>2, <1>3, <2>1 DEF InStep, MovesTo, Piping, Foreign, Fresh
  <2> QED
    BY <1>3, <2>1, <2>2, MovingAnswers
<1>4. CASE ProxyAnswered(r)
  BY <1>3, <1>4 DEF ProxyAnswered, ReqAt, Outcome
<1>5. CASE ProxyBadAnswer(r)
  BY <1>2, <1>3, <1>5 DEF ProxyBadAnswer, ReqAt, InStep, Outcome
<1>6. CASE CopyEnds(r)
  BY <1>3, <1>6 DEF CopyEnds, ReqAt, Outcome
<1>7. ASSUME \A q \in Reqs : q # r => req'[q] = req[q],
             req'[r].pc \in {req[r].pc, "cleanup", "done"}, ~req'[r].pipe,
             req'[r].got = req[r].got, req'[r].conn = req[r].conn,
             req'[r].reader \in {req[r].reader, "error"}, req[r].reader # "idle" \/ req'[r].reader = "idle",
             req'[r].pc # req[r].pc \/ req[r].pc \notin Fresh,
             req[r].pc \in {"cleanup", "release", "done"} =>
                req'[r].pc \in {"cleanup", "release", "done"},
             UNCHANGED router, pair'.pipeWriter = pair.pipeWriter
      PROVE  Answering'
  <2>1. InStep(r)'
    BY <1>2, <1>7 DEF InStep, Piping, Foreign, Fresh
  <2>2. ReaderInStep'
    BY <1>7, <2>1, OthersInStep
  <2> QED
    BY <1>7, <2>2, OneMoves DEF Piping
<1>8. CASE ReadResponseFails(r)
  BY <1>1, <1>2, <1>7, <1>8 DEF ReadResponseFails, InStep, Request
<1>9. CASE ProxyTimeout(r) \/ ProxyCanceled(r)
  BY <1>1, <1>2, <1>7, <1>9 DEF ProxyTimeout, ProxyCanceled, ProxyGivesUp, ReqAt, Request, Fresh
<1>10. CASE ProxyRelease(r)
  BY <1>1, <1>2, <1>7, <1>10 DEF ProxyRelease, ReqAt, Request, Pair, Fresh
<1>11. CASE ProxyCleanup(r)
  <2>1. MovesTo(r, "release") /\ UNCHANGED router /\ req[r].pc = "cleanup"
    BY <1>11, Moving DEF ProxyCleanup, ReqAt, AInv
  <2>2. \A q \in Reqs : q # r => ~req[q].pipe
    BY <2>1, OtherPipesClosed DEF Serving
  <2>3. InStep(r)'
    BY <1>2, <2>1 DEF InStep, MovesTo, Piping, Foreign, Fresh
  <2> QED
    BY <2>1, <2>2, <2>3, MovingAnswers
<1>12. CASE ClientAborts(r)
  <2>1. /\ \A q \in Reqs : q # r => req'[q] = req[q]
        /\ req'[r].pc = req[r].pc /\ req'[r].pipe = req[r].pipe /\ req'[r].conn = req[r].conn
        /\ req'[r].reader = req[r].reader /\ req'[r].got = req[r].got /\ req'[r].aborted
        /\ UNCHANGED <<router, pair>>
    BY <1>1, <1>12 DEF ClientAborts, Request
  <2>2. InStep(r)'
    BY <1>2, <2>1 DEF InStep, Piping, Foreign
  <2>3. ReaderInStep'
    BY <2>1, <2>2, OthersInStep
  <2> QED
    BY <2>1, <2>3, OneMoves DEF Piping
<1> QED
  BY <1>4, <1>5, <1>6, <1>8, <1>9, <1>10, <1>11, <1>12

\* The request is written to the connection: its answer is on the wire, or lost.
LEMMA AnsweringSend ==
  ASSUME AInv, IInv', NEW r \in Reqs, ProxySend(r) PROVE Answering'
<1>1. /\ router \in [RConns -> Router] /\ req \in [Reqs -> Request] /\ req[r] \in Request
      /\ req[r].conn \in RConns /\ req[r].pc = "piped" /\ r \notin RConns
  BY ConnAssumption DEF AInv, IInv, TypeOK, ProxySend, ReqAt, Request
<1>0. PICK c \in RConns : c = req[r].conn
  BY <1>1
<1>7. PICK s \in Seq(Message) : s = Answer(r)
  BY AnswerType
<1>2. InStep(r) /\ req[r].reader = "idle" /\ req[r].got = <<>>
  BY <1>1 DEF AInv, Answering, ReaderInStep, InStep, Fresh
<1>3. /\ \A q \in Reqs : q # r => req'[q] = req[q]
      /\ req'[r].pc = "waiting" /\ req'[r].reader = "reading" /\ req'[r].conn = c
      /\ req'[r].got = req[r].got /\ req'[r].pipe = req[r].pipe
      /\ UNCHANGED pair
  BY <1>0, <1>1 DEF ProxySend, Request
<1>4. ReaderInStep'
  <2>1. InStep(r)'
    BY <1>1, <1>2, <1>3 DEF InStep, Piping, Fresh
  <2> QED
    BY <1>3, <2>1, OthersInStep
<1>5. CASE ~router[c].open
  <2>1. UNCHANGED router
    BY <1>0, <1>1, <1>5 DEF ProxySend, Router
  <2> QED
    BY <1>0, <1>1, <1>2, <1>3, <1>4, <2>1, OneMoves
<1>6. CASE router[c].open
  <2>1. /\ router'[c].wire = router[c].wire \o s
        /\ \A e \in RConns : e # c => router'[e] = router[e]
        /\ \A e \in RConns : router'[e].out = router[e].out
    BY <1>0, <1>7, <1>1, <1>6 DEF ProxySend, Router
  <2>2. /\ s \in Seq(Message) /\ DOMAIN s = 1..Chunks
        /\ \A k \in DOMAIN s : s[k] = [src |-> r, n |-> k]
    BY <1>7 DEF Answer
  <2>3. \A e \in RConns : \A i \in DOMAIN router[e].wire : router[e].wire[i].src # r
    BY <1>2 DEF AInv, Answering, OnlyWhatWasSent
  <2> DEFINE l == Len(router[c].wire)
  <2> HIDE DEF l
  <2>4. ASSUME NEW e \in RConns, NEW i \in DOMAIN router'[e].wire
        PROVE  \/ /\ i \in DOMAIN router[e].wire /\ router'[e].wire[i] = router[e].wire[i]
                  /\ i > 1 => /\ i - 1 \in DOMAIN router[e].wire
                              /\ router'[e].wire[i - 1] = router[e].wire[i - 1]
               \/ /\ e = c /\ i - l \in 1..Chunks
                  /\ router'[e].wire[i] = [src |-> r, n |-> i - l]
                  /\ router'[e].wire[i].src = r /\ router'[e].wire[i].n = i - l
    <3>1. /\ IInv /\ c \in RConns /\ router'[c].wire = router[c].wire \o s
          /\ \A d \in RConns : d # c => router'[d].wire = router[d].wire
      BY <1>1, <2>1 DEF AInv
    <3>2. \/ /\ i \in DOMAIN router[e].wire /\ router'[e].wire[i] = router[e].wire[i]
             /\ i > 1 => /\ i - 1 \in DOMAIN router[e].wire
                         /\ router'[e].wire[i - 1] = router[e].wire[i - 1]
          \/ /\ e = c /\ i - Len(router[c].wire) \in DOMAIN s
             /\ router'[e].wire[i] = s[i - Len(router[c].wire)]
      BY <2>4, <3>1, OldOrNew
    <3>3. ASSUME NEW k \in DOMAIN s
          PROVE  k \in 1..Chunks /\ s[k] = [src |-> r, n |-> k] /\ s[k].src = r /\ s[k].n = k
      BY <2>2
    <3>4. \/ /\ i \in DOMAIN router[e].wire /\ router'[e].wire[i] = router[e].wire[i]
             /\ i > 1 => /\ i - 1 \in DOMAIN router[e].wire
                         /\ router'[e].wire[i - 1] = router[e].wire[i - 1]
          \/ e = c /\ i - l \in DOMAIN s /\ router'[e].wire[i] = s[i - l]
      BY <3>2 DEF l
    <3> QED
      BY <3>3, <3>4
  <2>5. ASSUME NEW e \in RConns, NEW i \in DOMAIN router'[e].wire, router'[e].wire[i].src # r
        PROVE  /\ i \in DOMAIN router[e].wire /\ router'[e].wire[i] = router[e].wire[i]
               /\ i > 1 => /\ i - 1 \in DOMAIN router[e].wire
                           /\ router'[e].wire[i - 1] = router[e].wire[i - 1]
    BY <2>4, <2>5
  <2>6. ASSUME NEW e \in RConns, NEW i \in DOMAIN router'[e].wire, router'[e].wire[i].src = r
        PROVE  /\ e = c /\ i - l \in 1..Chunks /\ i \in Nat
               /\ router'[e].wire[i].n = i - l
    <3>1. i \in Nat
      BY <2>6 DEF IInv, TypeOK, Router
    <3> QED
      BY <2>3, <2>4, <2>6, <3>1
  <2>7. l \in Nat
    BY <1>1, StreamTypes DEF AInv, l
  <2>8. OnlyWhatWasSent'
    <3> SUFFICES ASSUME NEW e \in RConns, NEW i \in DOMAIN router'[e].wire
                 PROVE  LET x == router'[e].wire[i] IN
                        /\ x.src \in Reqs => /\ req'[x.src].conn = e /\ req'[x.src].reader # "idle"
                                             /\ x.n <= Chunks
                        /\ x.src \in RConns => router'[x.src].out > 0
      BY DEF OnlyWhatWasSent
    <3>1. CASE router'[e].wire[i].src = r
      <4>1. router'[e].wire[i].n = i - l /\ e = c /\ i - l \in 1..Chunks
        BY <2>6, <3>1
      <4> QED
        BY <1>1, <1>3, <3>1, <4>1
    <3>2. CASE router'[e].wire[i].src # r
      BY <1>3, <2>1, <2>5, <3>2 DEF AInv, Answering, OnlyWhatWasSent
    <3> QED
      BY <3>1, <3>2
  <2>9. AnswersInOrder'
    <3> SUFFICES ASSUME NEW e \in RConns, NEW i \in DOMAIN router'[e].wire,
                        NEW j \in DOMAIN router'[e].wire, i < j,
                        router'[e].wire[i].src \in Reqs,
                        router'[e].wire[i].src = router'[e].wire[j].src
                 PROVE  router'[e].wire[i].n < router'[e].wire[j].n
      BY DEF AnswersInOrder
    <3>1. CASE router'[e].wire[i].src = r
      <4>1. /\ router'[e].wire[i].n = i - l /\ i \in Nat
            /\ router'[e].wire[j].n = j - l /\ j \in Nat
        BY <2>6, <3>1
      <4> QED
        BY <2>7, <4>1
    <3>2. CASE router'[e].wire[i].src # r
      BY <2>5, <3>2 DEF AInv, Answering, AnswersInOrder
    <3> QED
      BY <3>1, <3>2
  <2>10. \A q \in Reqs : req'[q].got = req[q].got /\ (Foreign(q)' <=> Foreign(q))
    BY <1>3 DEF Foreign
  <2>11. OwnInOrder'
    <3> SUFFICES ASSUME NEW q \in Reqs, ~Foreign(q)
                 PROVE  /\ \A i \in DOMAIN req'[q].got : req'[q].got[i] = [src |-> q, n |-> i]
                        /\ \A e \in RConns : \A i \in DOMAIN router'[e].wire :
                              router'[e].wire[i].src = q => router'[e].wire[i].n > Len(req'[q].got)
      BY <2>10 DEF OwnInOrder
    <3>1. ASSUME NEW e \in RConns, NEW i \in DOMAIN router'[e].wire, router'[e].wire[i].src = q
          PROVE  router'[e].wire[i].n > Len(req'[q].got)
      <4>1. CASE q = r
        <5>1. router'[e].wire[i].n = i - l /\ i - l \in 1..Chunks
          BY <2>6, <3>1, <4>1
        <5>2. Len(req'[q].got) = 0
          BY <1>2, <2>10, <4>1
        <5> QED
          BY <5>1, <5>2, BoundAssumption
      <4>2. CASE q # r
        BY <2>5, <2>10, <3>1, <4>2 DEF AInv, Answering, OwnInOrder
      <4> QED
        BY <4>1, <4>2
    <3> QED
      BY <2>10, <3>1 DEF AInv, Answering, OwnInOrder
  <2>12. NoneMissing'
    <3> SUFFICES ASSUME NEW q \in Reqs, Piping(q)', ~Foreign(q),
                        NEW e \in RConns, NEW i \in DOMAIN router'[e].wire,
                        router'[e].wire[i].src = q
                 PROVE  \/ router'[e].wire[i].n = Len(req'[q].got) + 1
                        \/ i > 1 /\ router'[e].wire[i - 1] = [src |-> q, n |-> router'[e].wire[i].n - 1]
      BY <2>10 DEF NoneMissing
    <3>1. CASE q = r
      <4>1. /\ e = c /\ i - l \in 1..Chunks /\ i \in Nat
            /\ router'[e].wire[i].n = i - l
        BY <2>6, <3>1
      <4>2. CASE i - l = 1
        <5>1. Len(req'[q].got) = 0
          BY <1>2, <2>10, <3>1
        <5> QED
          BY <4>1, <4>2, <5>1
      <4>3. CASE i - l # 1
        <5>1. i > 1 /\ i - 1 > l /\ (i - 1) - l \in 1..Chunks /\ (i - 1) - l = (i - l) - 1
          BY <2>7, <4>1, <4>3, BoundAssumption
        <5>2. i - 1 \in DOMAIN router'[e].wire
          <6>1. router'[e].wire \in Seq(Message)
            BY DEF IInv, TypeOK, Router
          <6>2. \A w \in Seq(Message) : \A k \in DOMAIN w : k > 1 => k - 1 \in DOMAIN w
            OBVIOUS
          <6> QED
            BY <5>1, <6>1, <6>2
        <5>3. i - 1 \notin DOMAIN router[e].wire
          <6>1. DOMAIN router[c].wire = 1..Len(router[c].wire)
            BY <1>1, StreamTypes DEF AInv
          <6> QED
            BY <2>7, <4>1, <5>1, <6>1 DEF l
        <5>4. router'[e].wire[i - 1] = [src |-> r, n |-> (i - 1) - l]
          BY <2>4, <5>2, <5>3
        <5> QED
          BY <3>1, <4>1, <5>1, <5>4
      <4> QED
        BY <4>2, <4>3
    <3>2. CASE q # r
      <4>1. Piping(q)
        BY <1>3, <3>2 DEF Piping
      <4>2. /\ i \in DOMAIN router[e].wire /\ router'[e].wire[i] = router[e].wire[i]
            /\ i > 1 => router'[e].wire[i - 1] = router[e].wire[i - 1]
        BY <2>5, <3>2
      <4>3. \/ router[e].wire[i].n = Len(req[q].got) + 1
            \/ i > 1 /\ router[e].wire[i - 1] = [src |-> q, n |-> router[e].wire[i].n - 1]
        BY <4>1, <4>2 DEF AInv, Answering, NoneMissing
      <4> QED
        BY <2>10, <4>2, <4>3
    <3> QED
      BY <3>1, <3>2
  <2>13. NobodyMisled'
    <3>1. Calm' => Calm
      BY <1>2, <1>3, <2>1 DEF Calm, Forsaken
    <3> QED
      BY <2>10, <3>1 DEF AInv, Answering, NobodyMisled
  <2> QED
    BY <1>4, <2>8, <2>9, <2>11, <2>12, <2>13 DEF Answering
<1> QED
  BY <1>5, <1>6

\* What the blocked loop offers to r: the next message of r's answer, or one that
\* is not r's.
LEMMA OfferedNext ==
  ASSUME AInv, NEW r \in Reqs, Offered(r), req[r].pc # "release"
  PROVE  /\ pair.mutex \in RConns /\ router[pair.mutex].wire \in Seq(Message)
         /\ router[pair.mutex].wire # <<>>
         /\ 1 \in DOMAIN router[pair.mutex].wire /\ Offer = router[pair.mutex].wire[1]
         /\ Piping(r) /\ r # None
         /\ Offer.src = r /\ ~Foreign(r) => Offer.n = Len(req[r].got) + 1
<1>1. /\ pair.mutex \in RConns /\ router[pair.mutex].wire # <<>>
      /\ router[pair.mutex].wire \in Seq(Message)
  BY DEF AInv, IInv, TypeOK, Pair, Router, Consistent, MutexHolderWrites, Offered
<1>2. /\ 1 \in DOMAIN router[pair.mutex].wire /\ Offer = router[pair.mutex].wire[1]
  BY <1>1, TailShifts DEF Offer
<1>3. Piping(r) /\ r # None
  BY ConnAssumption DEF Offered, Piping
<1>4. ASSUME Offer.src = r, ~Foreign(r) PROVE Offer.n = Len(req[r].got) + 1
  <2>1. \A c \in RConns : \A i \in DOMAIN router[c].wire :
           router[c].wire[i].src = r =>
              \/ router[c].wire[i].n = Len(req[r].got) + 1
              \/ i > 1
    BY <1>3, <1>4 DEF AInv, Answering, NoneMissing
  <2>2. router[pair.mutex].wire[1].src = r
    BY <1>2, <1>4
  <2>3. router[pair.mutex].wire[1].n = Len(req[r].got) + 1 \/ 1 > 1
    BY <1>1, <1>2, <2>1, <2>2
  <2> QED
    BY <1>2, <2>3
<1> QED
  BY <1>1, <1>2, <1>3, <1>4

\* Once r is piping, a message of another request on the wire means that one of
\* the two was given up.
LEMMA StrangersAreForsaken ==
  ASSUME AInv, Calm, NEW r \in Reqs, Piping(r), NEW c \in RConns,
         NEW i \in DOMAIN router[c].wire
  PROVE  router[c].wire[i].src = r
<1> DEFINE m == router[c].wire[i]
<1>1. m \in Message
  BY StreamTypes DEF AInv
<1> SUFFICES ASSUME m.src # r PROVE FALSE
  OBVIOUS
<1>2. /\ m.src \in Reqs => req[m.src].conn = c /\ req[m.src].reader # "idle" /\ m.n <= Chunks
      /\ m.src \in RConns => router[m.src].out > 0
  BY DEF AInv, Answering, OnlyWhatWasSent
<1>3. CASE m.src \in RConns
  BY <1>2, <1>3 DEF Calm
<1>4. ASSUME NEW q \in Reqs, m.src = q PROVE FALSE
  <2>1. req[q].reader # "idle" /\ m.n <= Chunks /\ q # r /\ m.n \in Nat
    BY <1>1, <1>2, <1>4 DEF Message
  <2>2. req[q].pc \notin Serving
    BY <2>1, OnePiping
  <2>3. req[q].pc = "done"
    <3>1. req[q].pc \in RequestPc /\ req[q].pc \notin Fresh
      BY <2>1 DEF AInv, IInv, TypeOK, Request, Answering, ReaderInStep, InStep
    <3> QED
      BY <2>2, <3>1 DEF RequestPc, Fresh, Serving
  <2>4. ~(Len(req[q].got) < Chunks)
    BY <2>1, <2>3 DEF Calm, Forsaken
  <2>5. ~Foreign(q)
    BY DEF AInv, Answering, NobodyMisled
  <2>6. m.n > Len(req[q].got)
    BY <1>4, <2>5 DEF AInv, Answering, OwnInOrder
  <2>7. Len(req[q].got) \in Nat
    BY StreamTypes DEF AInv
  <2> HIDE DEF m
  <2> QED
    BY <2>1, <2>4, <2>6, <2>7, BoundAssumption
<1> QED
  BY <1>1, <1>3, <1>4 DEF Message

\* The reader of r takes the message that the loop offers.
LEMMA AnsweringTake ==
  ASSUME AInv, IInv', NEW r \in Reqs, Offered(r), WriteReturns(pair.mutex),
         req[r].pc \in {"waiting", "copying", "draining"}, ReaderInStep',
         \A q \in Reqs : q # r => req'[q] = req[q],
         req'[r].got = Append(req[r].got, Offer),
         req'[r].reader # "idle", req'[r].conn = req[r].conn
  PROVE  Answering'
<1>1. PICK c \in RConns : c = pair.mutex
  BY OfferedNext
<1>2. PICK m \in Message : m = Offer
  BY OfferedNext, StreamTypes DEF AInv
<1>3. /\ router[c].wire \in Seq(Message) /\ router[c].wire # <<>>
      /\ 1 \in DOMAIN router[c].wire /\ m = router[c].wire[1]
      /\ Piping(r)
      /\ m.src = r /\ ~Foreign(r) => m.n = Len(req[r].got) + 1
  BY <1>1, <1>2, OfferedNext
<1>4. /\ router'[c].wire = Tail(router[c].wire)
      /\ \A e \in RConns : e # c => router'[e].wire = router[e].wire
      /\ \A e \in RConns : router'[e].out = router[e].out
  <2>1. router \in [RConns -> Router]
    BY DEF AInv, IInv, TypeOK
  <2>2. router' = [router EXCEPT ![c].pc = "reading", ![c].wire = Tail(@)]
    BY <1>1 DEF WriteReturns
  <2> QED
    BY <2>1, <2>2 DEF Router
<1>5. req[r].got \in Seq(Message) /\ req[r].reader # "idle"
  BY StreamTypes DEF AInv, Answering, ReaderInStep, InStep
<1>6. /\ Len(req'[r].got) = Len(req[r].got) + 1 /\ Len(req[r].got) \in Nat
      /\ DOMAIN req'[r].got = 1..(Len(req[r].got) + 1) /\ DOMAIN req[r].got = 1..Len(req[r].got)
      /\ \A i \in DOMAIN req[r].got : req'[r].got[i] = req[r].got[i]
      /\ req'[r].got[Len(req[r].got) + 1] = m
  <2>1. \A g \in Seq(Message) :
           /\ Len(Append(g, m)) = Len(g) + 1 /\ Len(g) \in Nat
           /\ DOMAIN Append(g, m) = 1..(Len(g) + 1) /\ DOMAIN g = 1..Len(g)
           /\ \A i \in DOMAIN g : Append(g, m)[i] = g[i]
           /\ Append(g, m)[Len(g) + 1] = m
    BY <1>2
  <2> QED
    BY <1>2, <1>5, <2>1
<1>7. KeepSent
  BY <1>4, <1>5 DEF KeepSent
<1>8. PICK d \in [RConns -> Nat] :
         ShiftedBy(d) /\ d[c] = 1 /\ \A e \in RConns : e # c => d[e] = 0
  <2>1. [e \in RConns |-> IF e = c THEN 1 ELSE 0] \in [RConns -> Nat]
        /\ ShiftedBy([e \in RConns |-> IF e = c THEN 1 ELSE 0])
    BY <1>3, <1>4, HeadShifts DEF AInv
  <2> QED
    BY <2>1
<1>9. OnlyWhatWasSent' /\ AnswersInOrder'
  BY <1>7, <1>8, SentStill
<1>10. \A q \in Reqs : Foreign(q)' <=> Foreign(q) \/ (q = r /\ m.src # r)
  <2>1. Foreign(r)' <=> Foreign(r) \/ m.src # r
    BY <1>6 DEF Foreign
  <2> QED
    BY <2>1 DEF Foreign
\* What is left of r's answer is on c, behind the message that was taken.
<1>11. ASSUME m.src = r, ~Foreign(r), NEW e \in RConns, NEW i \in DOMAIN router'[e].wire,
              router'[e].wire[i].src = r
       PROVE  /\ e = c /\ i \in Nat \ {0} /\ i + 1 \in DOMAIN router[c].wire
              /\ router'[e].wire[i] = router[c].wire[i + 1]
              /\ router'[e].wire[i].n > m.n
  <2>1. i + d[e] \in DOMAIN router[e].wire /\ router'[e].wire[i] = router[e].wire[i + d[e]]
    BY <1>8, <1>11 DEF ShiftedBy
  <2>2. e = c
    BY <1>3, <1>11, <2>1 DEF AInv, Answering, OnlyWhatWasSent
  <2>3. i \in Nat \ {0}
    BY <1>11 DEF IInv, TypeOK, Router
  <2>4. i + 1 \in DOMAIN router[c].wire /\ router'[e].wire[i] = router[c].wire[i + 1]
    BY <1>8, <2>1, <2>2
  <2>5. 1 < i + 1
    BY <2>3
  <2>6. router[c].wire[1].n < router[c].wire[i + 1].n
    BY <1>3, <1>11, <2>4, <2>5 DEF AInv, Answering, AnswersInOrder
  <2>7. m.n \in Nat /\ router[c].wire[i + 1].n \in Nat
    BY <1>3, <2>4, StreamTypes DEF AInv, Message
  <2> QED
    BY <1>3, <2>2, <2>3, <2>4, <2>6, <2>7
<1>12. OwnInOrder'
  <2> SUFFICES ASSUME NEW q \in Reqs, ~Foreign(q)'
               PROVE  /\ \A i \in DOMAIN req'[q].got : req'[q].got[i] = [src |-> q, n |-> i]
                      /\ \A e \in RConns : \A i \in DOMAIN router'[e].wire :
                            router'[e].wire[i].src = q => router'[e].wire[i].n > Len(req'[q].got)
    BY DEF OwnInOrder
  <2>1. ~Foreign(q)
    BY <1>10
  <2>2. /\ \A i \in DOMAIN req[q].got : req[q].got[i] = [src |-> q, n |-> i]
        /\ \A e \in RConns : \A i \in DOMAIN router[e].wire :
              router[e].wire[i].src = q => router[e].wire[i].n > Len(req[q].got)
    BY <2>1 DEF AInv, Answering, OwnInOrder
  <2>3. CASE q # r
    <3>1. req'[q].got = req[q].got
      BY <2>3
    <3>2. \A e \in RConns : \A i \in DOMAIN router'[e].wire :
             /\ i + d[e] \in DOMAIN router[e].wire
             /\ router'[e].wire[i] = router[e].wire[i + d[e]]
      BY <1>8 DEF ShiftedBy
    <3> QED
      BY <2>2, <3>1, <3>2
  <2>4. CASE q = r
    <3>1. m.src = r /\ ~Foreign(r) /\ m.n = Len(req[r].got) + 1
      BY <1>3, <1>10, <2>1, <2>4
    <3>2. m = [src |-> r, n |-> Len(req[r].got) + 1]
      BY <3>1 DEF Message
    <3>3. ASSUME NEW i \in DOMAIN req'[r].got PROVE req'[r].got[i] = [src |-> r, n |-> i]
      <4>1. i \in DOMAIN req[r].got \/ i = Len(req[r].got) + 1
        BY <1>6
      <4> QED
        BY <1>6, <2>2, <2>4, <3>2, <4>1
    <3>4. ASSUME NEW e \in RConns, NEW i \in DOMAIN router'[e].wire, router'[e].wire[i].src = r
          PROVE  router'[e].wire[i].n > Len(req'[r].got)
      BY <1>6, <1>11, <3>1, <3>4
    <3> QED
      BY <2>4, <3>3, <3>4
  <2> QED
    BY <2>3, <2>4
<1>13. NoneMissing'
  <2> SUFFICES ASSUME NEW q \in Reqs, Piping(q)', ~Foreign(q)',
                      NEW e \in RConns, NEW i \in DOMAIN router'[e].wire,
                      router'[e].wire[i].src = q
               PROVE  \/ router'[e].wire[i].n = Len(req'[q].got) + 1
                      \/ i > 1 /\ router'[e].wire[i - 1] = [src |-> q, n |-> router'[e].wire[i].n - 1]
    BY DEF NoneMissing
  <2>1. q = r
    <3>1. \A x \in Reqs : x # r => ~Piping(x)
      BY <1>3, OnePiping
    <3> QED
      BY <3>1 DEF Piping
  <2>2. m.src = r /\ ~Foreign(r) /\ m.n = Len(req[r].got) + 1
    BY <1>3, <1>10, <2>1
  <2>3. /\ e = c /\ i \in Nat \ {0} /\ i + 1 \in DOMAIN router[c].wire
        /\ router'[e].wire[i] = router[c].wire[i + 1] /\ router'[e].wire[i].n > m.n
    BY <1>11, <2>1, <2>2
  <2>4. router[c].wire[i + 1].n \in Nat
    BY <2>3, StreamTypes DEF AInv, Message
  <2>5. \/ router[c].wire[i + 1].n = Len(req[r].got) + 1
        \/ router[c].wire[(i + 1) - 1] = [src |-> r, n |-> router[c].wire[i + 1].n - 1]
    BY <1>3, <2>1, <2>2, <2>3 DEF AInv, Answering, NoneMissing
  <2>6. router[c].wire[i] = [src |-> r, n |-> router[c].wire[i + 1].n - 1]
    <3>1. (i + 1) - 1 = i
      BY <2>3
    <3>2. router[c].wire[i + 1].n # Len(req[r].got) + 1
      BY <1>6, <2>2, <2>3, <2>4
    <3> QED
      BY <2>5, <3>1, <3>2
  <2>7. CASE i = 1
    <3>1. m.n = router[c].wire[i + 1].n - 1
      BY <1>3, <2>6, <2>7
    <3>2. router[c].wire[i + 1].n = (Len(req[r].got) + 1) + 1
      <4>1. \A x, l \in Nat : l + 1 = x - 1 => x = (l + 1) + 1
        OBVIOUS
      <4>2. Len(req[r].got) + 1 = router[c].wire[i + 1].n - 1
        BY <2>2, <3>1
      <4> QED
        BY <1>6, <2>4, <4>1, <4>2
    <3> QED
      BY <1>6, <2>1, <2>3, <3>2
  <2>8. CASE i # 1
    <3>1. i > 1 /\ i - 1 \in Nat /\ (i - 1) + 1 = i
      BY <2>3, <2>8
    <3>2. i - 1 \in DOMAIN router'[e].wire
      <4>1. router'[e].wire \in Seq(Message)
        BY DEF IInv, TypeOK, Router
      <4>2. \A w \in Seq(Message) : \A k \in DOMAIN w : k > 1 => k - 1 \in DOMAIN w
        OBVIOUS
      <4> QED
        BY <3>1, <4>1, <4>2
    <3>3. router'[e].wire[i - 1] = router[c].wire[i]
      BY <1>8, <2>3, <3>1, <3>2 DEF ShiftedBy
    <3> QED
      BY <2>1, <2>3, <2>6, <3>1, <3>3
  <2> QED
    BY <2>7, <2>8
<1>14. NobodyMisled'
  <2> SUFFICES ASSUME Calm' PROVE \A q \in Reqs : ~Foreign(q)'
    BY DEF NobodyMisled
  <2>1. Calm
    BY <1>4 DEF Calm, Forsaken
  <2>2. m.src = r
    BY <1>3, <2>1, StrangersAreForsaken
  <2> QED
    BY <1>10, <2>1, <2>2 DEF AInv, Answering, NobodyMisled
<1> QED
  BY <1>9, <1>12, <1>13, <1>14 DEF Answering

\* The three actions that take a message.
LEMMA AnsweringReads ==
  ASSUME AInv, IInv', NEW r \in Reqs, ReadResponse(r) \/ CopyBody(r) \/ CopyBreaks(r)
  PROVE  Answering'
<1>1. req \in [Reqs -> Request] /\ req[r] \in Request /\ pair \in Pair
  BY DEF AInv, IInv, TypeOK
<1>2. InStep(r) /\ req[r].got \in Seq(Message) /\ Len(req[r].got) \in Nat
  BY StreamTypes DEF AInv, Answering, ReaderInStep
<1>3. Offered(r) /\ WriteReturns(pair.mutex)
  BY DEF ReadResponse, CopyBody, CopyBreaks
<1>4. req[r].pc \in {"waiting", "copying", "draining"} /\ req[r].pipe
  <2>1. CASE ReadResponse(r)
    BY <1>2, <2>1 DEF ReadResponse, Offered, InStep
  <2>2. CASE CopyBody(r) \/ CopyBreaks(r)
    BY <2>2 DEF CopyBody, CopyBreaks, Offered, ReqAt
  <2> QED
    BY <2>1, <2>2
<1>5. PICK m \in Message : m = Offer /\ (m.src = r /\ ~Foreign(r) => m.n = Len(req[r].got) + 1)
  BY <1>3, <1>4, OfferedNext, StreamTypes DEF AInv
<1>6. /\ \A q \in Reqs : q # r => req'[q] = req[q]
      /\ req'[r].got = Append(req[r].got, m)
      /\ req'[r].conn = req[r].conn /\ req'[r].pipe /\ req'[r].aborted = req[r].aborted
      /\ pair'.pipeWriter = pair.pipeWriter
  <2>1. pair'.pipeWriter = pair.pipeWriter
    BY <1>1, <1>3 DEF WriteReturns, Pair
  <2>2. CASE ReadResponse(r)
    BY <1>1, <1>4, <1>5, <2>1, <2>2 DEF ReadResponse, Request
  <2>3. CASE CopyBody(r)
    BY <1>1, <1>4, <1>5, <2>1, <2>3 DEF CopyBody, Request
  <2>4. CASE CopyBreaks(r)
    <3>1. PICK next \in {"draining", "cleanup"} :
             req' = [req EXCEPT ![r].got = Append(@, Offer), ![r].pc = next,
                                ![r].outcome = "canceled"]
      BY <2>4 DEF CopyBreaks
    <3> QED
      BY <1>1, <1>4, <1>5, <2>1, <3>1 DEF Request
  <2> QED
    BY <2>2, <2>3, <2>4
<1>7. /\ Len(req'[r].got) = Len(req[r].got) + 1
      /\ Foreign(r) \/ m.src # r => Foreign(r)'
  <2>1. \A g \in Seq(Message) : /\ Len(Append(g, m)) = Len(g) + 1
                                /\ Append(g, m)[Len(g) + 1] = m
                                /\ Len(g) + 1 \in DOMAIN Append(g, m)
                                /\ \A i \in DOMAIN g : /\ i \in DOMAIN Append(g, m)
                                                       /\ Append(g, m)[i] = g[i]
    BY <1>5
  <2> QED
    BY <1>2, <1>6, <2>1 DEF Foreign
<1>9. pair.pipeWriter = r
  BY <1>3 DEF Offered
<1>10. CASE ReadResponse(r)
  <2>1. /\ req'[r].pc = "waiting" /\ req[r].reader = "reading"
        /\ req'[r].reader = IF IsHead(Offer) THEN "head" ELSE "error"
    BY <1>1, <1>2, <1>4, <1>10 DEF ReadResponse, InStep, Request
  <2>2. IsHead(m) \/ Foreign(r)'
    <3>1. Len(req[r].got) = 0
      BY <1>2, <2>1 DEF InStep
    <3> QED
      BY <1>5, <1>7, <3>1 DEF IsHead
  <2>3. InStep(r)'
    BY <1>5, <1>6, <1>9, <2>1, <2>2 DEF InStep, Piping, Fresh
  <2> QED
    BY <1>3, <1>4, <1>5, <1>6, <2>1, <2>3, OthersInStep, AnsweringTake
<1>11. CASE CopyBody(r) \/ CopyBreaks(r)
  <2>1. req'[r].reader = req[r].reader /\ req[r].reader \notin {"idle", "reading"}
    <3>1. req[r].reader \notin {"idle", "reading"}
      <4>1. req[r].pc \in {"copying", "draining"}
        BY <1>11 DEF CopyBody, CopyBreaks, ReqAt
      <4> QED
        BY <1>2, <1>4, <4>1 DEF InStep
    <3>2. CASE CopyBody(r)
      BY <1>1, <3>1, <3>2 DEF CopyBody, Request
    <3>3. CASE CopyBreaks(r)
      <4>1. PICK next \in {"draining", "cleanup"} :
               req' = [req EXCEPT ![r].got = Append(@, Offer), ![r].pc = next,
                                  ![r].outcome = "canceled"]
        BY <3>3 DEF CopyBreaks
      <4> QED
        BY <1>1, <3>1, <4>1 DEF Request
    <3> QED
      BY <1>11, <3>2, <3>3
  <2>2. \/ req'[r].pc \in {"copying", "draining"}
        \/ req'[r].pc = "cleanup" /\ (req[r].aborted \/ Len(req'[r].got) = Chunks)
    <3>1. CASE CopyBody(r)
      <4>1. req'[r].pc = IF LastChunk(r) THEN "cleanup" ELSE req[r].pc
        BY <1>1, <3>1 DEF CopyBody, Request
      <4>2. req[r].pc \in {"copying", "draining"}
        BY <3>1 DEF CopyBody
      <4> QED
        BY <1>7, <4>1, <4>2 DEF LastChunk
    <3>2. CASE CopyBreaks(r)
      <4>1. req[r].aborted
        BY <3>2 DEF CopyBreaks
      <4>2. PICK next \in {"draining", "cleanup"} :
               req' = [req EXCEPT ![r].got = Append(@, Offer), ![r].pc = next,
                                  ![r].outcome = "canceled"]
        BY <3>2 DEF CopyBreaks
      <4>3. req'[r].pc = next
        BY <1>1, <4>2 DEF Request
      <4> QED
        BY <4>1, <4>3
    <3> QED
      BY <1>11, <3>1, <3>2
  <2>3. InStep(r)'
    BY <1>2, <1>4, <1>6, <1>7, <1>9, <2>1, <2>2 DEF InStep, Piping, Fresh
  <2>4. ReaderInStep'
    BY <1>6, <2>3, OthersInStep
  <2> QED
    BY <1>3, <1>4, <1>5, <1>6, <2>1, <2>4, AnsweringTake
<1> QED
  BY <1>10, <1>11

\* A step of the gateway keeps the invariant of the answers.
LEMMA NextAInv == AInv /\ [Next]_vars => AInv'
<1> SUFFICES ASSUME AInv, [Next]_vars PROVE Answering' /\ IInv'
  BY DEF AInv
<1>1. IInv'
  BY NextIInv DEF AInv
<1>2. CASE SessionNext
  BY <1>1, <1>2, AnsweringSession
<1>3. ASSUME NEW c \in RConns, RouterHandler(c) \/ RouterPeer(c) PROVE Answering'
  BY <1>1, <1>3, AnsweringRouter, AnsweringPrints DEF RouterPeer
<1>4. ASSUME NEW b \in BConns, BrowserHandler(b) \/ BrowserPeer(b) PROVE Answering'
  BY <1>1, <1>4, AnsweringBrowser
<1>5. ASSUME NEW r \in Reqs, ProxyHandler(r) \/ ReadGoroutine(r) \/ ProxyPeer(r) PROVE Answering'
  BY <1>1, <1>5, AnsweringStart, AnsweringSend, AnsweringReads, AnsweringEnd
  DEF ProxyHandler, ReadGoroutine, ProxyPeer
<1>6. CASE UNCHANGED vars
  <2>1. UNCHANGED <<pair, router, req>>
    BY <1>6 DEF vars
  <2> QED
    BY <1>1, <2>1, RequestsStay
<1> QED
  BY <1>1, <1>2, <1>3, <1>4, <1>5, <1>6 DEF Next, Quiet

\* Every client is handed the answer to its own request, from the start and in
\* order, until a request was given up or a shell has printed, whatever the
\* restarts, the tabs and the hang-ups: for any number of connections, tabs and
\* requests, and answers of any length.
THEOREM AnswersReachTheirClients == Spec => []OwnResponse
<1>1. AInv => OwnResponse
  <2> SUFFICES ASSUME AInv, Calm, NEW r \in Reqs, NEW i \in DOMAIN req[r].got
               PROVE  req[r].got[i] = [src |-> r, n |-> i]
    BY DEF OwnResponse, Calm
  <2>1. ~Foreign(r)
    BY DEF AInv, Answering, NobodyMisled
  <2> QED
    BY <2>1 DEF AInv, Answering, OwnInOrder
<1> QED
  BY <1>1, InitAInv, NextAInv, PTL DEF Spec

\* While the router's loop is in pw.Write, with the mutex, its message will be
\* read or the pipe closed, unless the client went away or what is not of the
\* answer came to its pipe; with no bound on the requests and the connections.
THEOREM WritesAreAttended == Spec => []BlockedWriteIsAttended
<1>1. ASSUME AInv, pair.mutex # None, NEW r, r = pair.pipeWriter,
             ~Attended(r), ~req[r].aborted, ~Mixed(r)
      PROVE  FALSE
  <2>1. /\ r \in Reqs /\ req[r].pipe
        /\ req[r].pc \in {"piped", "waiting", "copying", "draining", "cleanup"}
    BY <1>1 DEF Attended, AInv, IInv, TypeOK, Pair, Consistent, MutexHolderWrites, PipeOwnerInside
  <2>2. InStep(r) /\ ~Foreign(r) /\ req[r].reader \in {"idle", "reading", "head", "error"}
    BY <1>1, <2>1 DEF AInv, Answering, ReaderInStep, Mixed, Foreign, IInv, TypeOK, Request
  <2>3. Offered(r) /\ Offer.src = r
    BY <1>1, <2>1 DEF Offered, Mixed
  <2>4. PICK c \in RConns : /\ c = pair.mutex /\ 1 \in DOMAIN router[c].wire
                            /\ Offer = router[c].wire[1]
    BY <1>1, <2>1, <2>3, OfferedNext
  <2>5. Offer.n = Len(req[r].got) + 1 /\ Offer.n <= Chunks /\ req[r].reader # "idle"
    BY <1>1, <2>1, <2>2, <2>3, <2>4, OfferedNext DEF AInv, Answering, OnlyWhatWasSent
  <2>6. req[r].pc = "cleanup" /\ Len(req[r].got) = Chunks
    BY <1>1, <2>1, <2>2, <2>5 DEF Attended, ReqAt, InStep, Fresh
  <2> QED
    BY <2>5, <2>6, BoundAssumption
<1>2. AInv => BlockedWriteIsAttended
  BY <1>1 DEF BlockedWriteIsAttended
<1> QED
  BY <1>2, InitAInv, NextAInv, PTL DEF Spec

-----------------------------------------------------------------------------
(* The row of tunnel_sessions, with one router connection and no restart.  *)

\* The router dials in once.
OneConnection == \A c, d \in RConns : c = d

\* The row says ACTIVE from the moment the connection's handler has written it
\* to the moment it has written TERMINATED; an open connection is the pair's.
RowFollowsHandler ==
    /\ session.status = "ACTIVE" =>
          \E c \in RConns : router[c].pc \in {"reading", "writing", "teardown", "dbterm"}
    /\ \A c \in RConns :
          /\ router[c].pc \in {"reading", "writing", "teardown", "dbterm"} =>
                session.status = "ACTIVE"
          /\ router[c].pc \in {"attached", "reading", "writing"} /\ router[c].open =>
                pair.active

\* The inductive invariant of the row.
SInv == IInv /\ RowFollowsHandler

\* Steps that leave the row and the handlers of the connections alone.
LEMMA RowUnmoved ==
  ASSUME SInv, UNCHANGED session.status,
         \A c \in RConns : /\ \/ router'[c].pc = router[c].pc
                              \/ router[c].pc = "writing" /\ router'[c].pc = "reading"
                           /\ router'[c].open => router[c].open /\ pair'.active = pair.active
  PROVE  RowFollowsHandler'
  BY DEF SInv, RowFollowsHandler

\* A router's handler writes the row after the pair, and its peer neither.
LEMMA StatusRouter ==
  ASSUME SInv, OneConnection, NEW c \in RConns, RouterHandler(c) \/ RouterPeer(c)
  PROVE  RowFollowsHandler'
<1> USE DEF SInv, IInv, TypeOK, Router, Session, Pair, OneConnection, RouterAt, RouterTo, CanForward, Forwarded, RowFollowsHandler
<1>1. CASE RouterAttach(c)
  BY <1>1 DEF RouterAttach
<1>2. CASE RouterMarkActive(c)
  BY <1>2 DEF RouterMarkActive
<1>3. CASE RouterToBrowser(c)
  BY <1>3 DEF RouterToBrowser
<1>4. CASE RouterToBuffer(c)
  <2>1. UNCHANGED session /\ pair'.active = pair.active
    BY <1>4, KeptOnly DEF RouterToBuffer
  <2>2. \A d \in RConns : router'[d].pc = router[d].pc /\ router'[d].open = router[d].open
    BY <1>4 DEF RouterToBuffer
  <2> QED
    BY <2>1, <2>2, RowUnmoved
<1>5. CASE RouterWriteFails(c)
  BY <1>5 DEF RouterWriteFails
<1>6. CASE RouterWriteBlocks(c)
  BY <1>6 DEF RouterWriteBlocks
<1>7. CASE RouterWriteAborted(c)
  <2>1. router[c].pc = "writing"
    BY <1>7, ConnAssumption DEF RouterWriteAborted, Consistent, MutexHolderWrites
  <2>2. /\ UNCHANGED session /\ pair'.active = pair.active
        /\ \A d \in RConns : /\ router'[d].open = router[d].open
                             /\ router'[d].pc = IF d = c THEN "reading" ELSE router[d].pc
    BY <1>7 DEF RouterWriteAborted, WriteReturns
  <2> QED
    BY <2>1, <2>2, RowUnmoved
<1>8. CASE RouterReadFails(c)
  BY <1>8 DEF RouterReadFails
<1>9. CASE RouterTeardown(c)
  BY <1>9 DEF RouterTeardown
<1>10. CASE RouterMarkTerminated(c)
  BY <1>10 DEF RouterMarkTerminated
<1>11. CASE RouterAccept(c)
  BY <1>11 DEF RouterAccept
<1>12. CASE RouterReject(c)
  BY <1>12 DEF RouterReject
<1>13. CASE RouterHangsUp(c)
  BY <1>13 DEF RouterHangsUp
<1>14. CASE RouterPrints(c)
  <2>1. \A d \in RConns : router'[d].pc = router[d].pc /\ router'[d].open = router[d].open
    BY <1>14 DEF RouterPrints
  <2> QED
    BY <1>14, <2>1, RowUnmoved DEF RouterPrints
<1> QED
  BY <1>1, <1>2, <1>3, <1>4, <1>5, <1>6, <1>7, <1>8, <1>9, <1>10, <1>11, <1>12, <1>13, <1>14
  DEF RouterHandler, RouterPeer

\* A tab's teardown closes the connection whose handler will write the row.
LEMMA StatusBrowser ==
  ASSUME SInv, OneConnection, NEW b \in BConns, BrowserHandler(b) \/ BrowserPeer(b)
  PROVE  RowFollowsHandler'
<1> USE DEF SInv
<1>1. CASE BrowserTeardown(b)
  <2>1. \A c \in RConns : /\ router'[c].pc = router[c].pc
                          /\ router'[c].open = (router[c].open /\ c # pair.routerConn)
    BY <1>1 DEF BrowserTeardown, IInv, TypeOK, Router
  <2>2. /\ UNCHANGED session /\ pair'.active = FALSE
    BY <1>1 DEF BrowserTeardown, PairWithoutBrowser, IInv, TypeOK, Pair
  <2>3. ASSUME NEW c \in RConns, router[c].pc \in {"attached", "reading", "writing"}, router[c].open
        PROVE  c = pair.routerConn
    BY <2>3 DEF RowFollowsHandler, OneConnection, IInv, TypeOK, Pair, Consistent, ActiveIffRouter
  <2> QED
    BY <2>1, <2>2, <2>3 DEF RowFollowsHandler
<1>2. CASE BrowserRelay(b)
  <2>1. pair.routerConn \in RConns
    BY <1>2 DEF BrowserRelay, IInv, TypeOK, Pair
  <2> QED
    BY <1>2, <2>1, StatusRouter DEF BrowserRelay, RouterPeer
<1>3. CASE BrowserAttach(b) \/ BrowserReadFails(b) \/ BrowserAccept(b) \/ BrowserReject(b) \/ BrowserHangsUp(b)
  <2>1. UNCHANGED <<session, router>> /\ pair'.active = pair.active
    BY <1>3, FlushedOnly
    DEF BrowserAttach, BrowserReadFails, BrowserAccept, BrowserReject, BrowserHangsUp,
                IInv, TypeOK, Pair
  <2> QED
    BY <2>1, RowUnmoved
<1> QED
  BY <1>1, <1>2, <1>3 DEF BrowserHandler, BrowserPeer

\* A proxied request moves the router's loop at most from one read to the next.
LEMMA StatusProxy ==
  ASSUME SInv, NEW r \in Reqs, ProxyHandler(r) \/ ReadGoroutine(r) \/ ProxyPeer(r)
  PROVE  RowFollowsHandler'
<1> USE DEF SInv, IInv, TypeOK
<1>1. CASE ReadResponse(r) \/ CopyBody(r) \/ CopyBreaks(r)
  <2>1. UNCHANGED session /\ Offered(r) /\ WriteReturns(pair.mutex)
    BY <1>1 DEF ReadResponse, CopyBody, CopyBreaks
  <2>2. pair.mutex \in RConns /\ router[pair.mutex].pc = "writing"
    BY <2>1 DEF Offered, Pair, Consistent, MutexHolderWrites
  <2>3. pair'.active = pair.active
    BY <2>1 DEF WriteReturns, Pair
  <2>4. \A c \in RConns : /\ \/ router'[c].pc = router[c].pc
                             \/ router[c].pc = "writing" /\ router'[c].pc = "reading"
                          /\ router'[c].open = router[c].open
    BY <2>1, <2>2 DEF WriteReturns, Router
  <2> QED
    BY <2>1, <2>3, <2>4, RowUnmoved
<1>2. CASE ProxySend(r)
  <2>1. \A c \in RConns : router'[c].pc = router[c].pc /\ router'[c].open = router[c].open
    BY <1>2 DEF ProxySend, Router
  <2> QED
    BY <1>2, <2>1, RowUnmoved DEF ProxySend
<1>3. CASE UNCHANGED <<session, router>>
  <2>1. pair'.active = pair.active
    BY <1>3 DEF ProxyHandler, ReadGoroutine, ProxyPeer, ProxyAccept, ProxyReject, ProxyReady,
         ProxyNotReady, ProxyLock, ProxyBadRequest, ProxyOpenPipe, ProxySend, ProxySendFails,
         ReadResponse, ReadResponseFails, ProxyAnswered, ProxyBadAnswer, ProxyTimeout,
         ProxyCanceled, ProxyGivesUp, CopyBody, CopyBreaks, CopyEnds, ProxyCleanup, ProxyRelease,
         ClientAborts, WriteReturns, Pair
  <2> QED
    BY <1>3, <2>1, RowUnmoved
<1> QED
  BY <1>1, <1>2, <1>3
  DEF ProxyHandler, ReadGoroutine, ProxyPeer, ProxyAccept, ProxyReject, ProxyReady,
      ProxyNotReady, ProxyLock, ProxyBadRequest, ProxyOpenPipe, ProxySendFails,
      ReadResponseFails, ProxyAnswered, ProxyBadAnswer, ProxyTimeout, ProxyCanceled,
      ProxyGivesUp, CopyEnds, ProxyCleanup, ProxyRelease, ClientAborts

\* Every step keeps the row with the handler.
LEMMA NextSInv == MaxRestarts = 0 /\ OneConnection /\ SInv /\ [Next]_vars => SInv'
<1> SUFFICES ASSUME MaxRestarts = 0, OneConnection, SInv, [Next]_vars PROVE RowFollowsHandler'
  BY NextIInv DEF SInv
<1>1. CASE SessionNext
  <2>1. session.restarts \in Int /\ ~(session.restarts < 0)
    BY DEF SInv, IInv, TypeOK, Session
  <2>2. ~Restart
    BY <2>1 DEF Restart
  <2>3. UNCHANGED <<pair, router>> /\ (session.status # "ACTIVE" <=> session'.status # "ACTIVE")
    BY <1>1, <2>2 DEF SessionNext, RequestTunnel, Expire, SInv, IInv, TypeOK, Session
  <2> QED
    BY <2>3 DEF SInv, RowFollowsHandler
<1>2. CASE UNCHANGED vars
  BY <1>2, RowUnmoved DEF vars
<1> QED
  BY <1>1, <1>2, StatusRouter, StatusBrowser, StatusProxy DEF Next, Quiet

\* The row tracks the session through every order of hang-ups and tear-downs on
\* either side, for any number of tabs and requests, as long as one router
\* connection is all the session ever has and the gateway is not restarted.
THEOREM RowTracksSession ==
  ASSUME OneConnection, MaxRestarts = 0 PROVE Spec => []StatusTracksSession
<1>1. Init => SInv
  BY InitIInv DEF Init, SInv, RowFollowsHandler
<1>2. SInv /\ [Next]_vars => SInv'
  BY NextSInv
<1>3. SInv => StatusTracksSession
  <2> SUFFICES ASSUME SInv,
                      \A c \in RConns : \/ router[c].pc \in {"idle", "upgraded", "done"}
                                        \/ router[c].pc \in {"reading", "writing"} /\ router[c].open
               PROVE  session.status = "ACTIVE" <=> pair.active
    BY DEF StatusTracksSession
  <2>1. ASSUME session.status = "ACTIVE" PROVE pair.active
    BY <2>1 DEF SInv, RowFollowsHandler
  <2>2. ASSUME pair.active PROVE session.status = "ACTIVE"
    <3>1. pair.routerConn \in RConns /\ router[pair.routerConn].pc \in Attached
      BY <2>2 DEF SInv, IInv, TypeOK, Pair, Consistent, ActiveIffRouter, LiveRegistration
    <3> QED
      BY <3>1 DEF SInv, RowFollowsHandler, Attached
  <2>3. pair.active \in BOOLEAN
    BY DEF SInv, IInv, TypeOK, Pair
  <2> QED
    BY <2>1, <2>2, <2>3
<1> QED
  BY <1>1, <1>2, <1>3, PTL DEF Spec

-----------------------------------------------------------------------------
(* What a terminal shows, in a session of one router connection that is not *)
(* used for requests.                                                       *)

\* One connection of the router, and no proxied request.
OnlyTerminals == OneConnection /\ Reqs = {}

\* The number of the last message that the router's loop took off the wire, and
\* whether it may take more.
Passed(c) == router[c].out - Len(router[c].wire)
Live(c)   == router[c].pc \notin {"teardown", "dbterm", "done"}

\* The wire continues where the loop is.
WireContinues ==
    \A c \in RConns : \A i \in 1..Len(router[c].wire) : router[c].wire[i].n = Passed(c) + i

\* What is shown or kept came off the wire.
CameOffTheWire ==
    \A c \in RConns :
       /\ \A b \in BConns : \A i \in 1..Len(browser[b].shown) : browser[b].shown[i].n <= Passed(c)
       /\ \A j \in 1..Len(pair.buffer) : pair.buffer[j].n <= Passed(c)

\* The buffer is there for the first terminal only, has no gap, is younger than
\* all that is shown, and misses nothing until it is full.
BufferContinues ==
    /\ pair.browserConn # None => pair.buffer = <<>>
    /\ \A i, j \in 1..Len(pair.buffer) : pair.buffer[j].n = pair.buffer[i].n + (j - i)
    /\ \A b \in BConns : \A i \in 1..Len(browser[b].shown), j \in 1..Len(pair.buffer) :
          browser[b].shown[i].n < pair.buffer[j].n
    /\ \A c \in RConns : Live(c) /\ pair.buffer # <<>> /\ BufferHasRoom =>
          pair.buffer[Len(pair.buffer)].n = Passed(c)

\* The pair's terminal has seen everything up to the loop's place, but for what
\* the buffer had no room for.
TerminalFollows ==
    /\ \A b \in BConns : browser[b].pc \in {"idle", "upgraded"} => browser[b].shown = <<>>
    /\ \A b \in BConns, c \in RConns :
          Live(c) /\ pair.browserConn = b /\ browser[b].open /\ browser[b].shown # <<>> =>
             \/ browser[b].shown[Len(browser[b].shown)].n = Passed(c)
             \/ Len(browser[b].shown) = browser[b].gap

\* What makes FaithfulTerminal inductive.
Showing == WireContinues /\ CameOffTheWire /\ BufferContinues /\ TerminalFollows /\ FaithfulTerminal

\* The inductive invariant of the terminals.
TInv == IInv /\ Showing

\* The streams are streams.
LEMMA Streams ==
  ASSUME TInv
  PROVE  /\ pair.buffer \in Seq(Message)
         /\ \A b \in BConns : browser[b].shown \in Seq(Message)
         /\ \A c \in RConns : router[c].wire \in Seq(Message) /\ router[c].out \in Nat
                              /\ Len(router[c].wire) \in Nat /\ Passed(c) \in Int
  BY BoundAssumption DEF TInv, IInv, TypeOK, Pair, Browser, Router, Passed

\* Messages are numbered.
LEMMA MessageNumber == \A m \in Message : m.n \in Nat
  BY DEF Message

\* What Append adds, and what it leaves.
LEMMA AppendIndexed ==
  ASSUME NEW s \in Seq(Message), NEW m \in Message
  PROVE  /\ Len(Append(s, m)) = Len(s) + 1 /\ Append(s, m)[Len(s) + 1] = m
         /\ \A i \in 1..Len(s) : Append(s, m)[i] = s[i]
  OBVIOUS

\* Without requests nothing is ever piped.
LEMMA NoPipe ==
  ASSUME IInv, OnlyTerminals
  PROVE  pair.pipeWriter = None /\ pair.mutex = None
  BY DEF OnlyTerminals, IInv, TypeOK, Pair, Consistent, MutexHolderWrites

\* Steps that move no message.
LEMMA NothingMoves ==
  ASSUME TInv, pair'.buffer = pair.buffer, pair'.kept = pair.kept, pair'.browserConn \in {pair.browserConn, None},
         \A c \in RConns : /\ router'[c].wire = router[c].wire /\ router'[c].out = router[c].out
                           /\ Live(c)' => Live(c),
         \A b \in BConns : /\ browser'[b].shown = browser[b].shown
                           /\ browser'[b].gap = browser[b].gap
                           /\ browser'[b].open => browser[b].open \/ browser[b].shown = <<>>
                           /\ browser'[b].pc \in {"idle", "upgraded"} =>
                                 browser[b].pc \in {"idle", "upgraded"}
  PROVE  Showing'
<1>1. \A c \in RConns : Passed(c)' = Passed(c)
  BY DEF Passed
<1>2. WireContinues' /\ CameOffTheWire'
  BY <1>1 DEF WireContinues, CameOffTheWire, TInv, Showing
<1>3. BufferContinues'
  BY <1>1 DEF BufferContinues, BufferHasRoom, TInv, Showing
<1>4. TerminalFollows'
  BY <1>1, ConnAssumption DEF TerminalFollows, TInv, Showing
<1>5. FaithfulTerminal'
  BY DEF FaithfulTerminal, TInv, Showing
<1> QED
  BY <1>2, <1>3, <1>4, <1>5 DEF Showing

\* A closed connection's wire is dropped.
LEMMA WireDropped ==
  ASSUME TInv, NEW c \in RConns, OnlyTerminals, RouterReadFails(c)
  PROVE  Showing'
<1>1. /\ router'[c].pc = "teardown" /\ router'[c].out = router[c].out /\ router'[c].wire = <<>>
      /\ UNCHANGED <<pair, browser>>
  BY DEF RouterReadFails, TInv, IInv, TypeOK, Router
<1>2. \A d \in RConns : d = c
  BY DEF OnlyTerminals, OneConnection
<1>3. Passed(c)' = router[c].out /\ Passed(c) <= router[c].out /\ Passed(c) \in Int
      /\ router[c].out \in Int
  BY <1>1, Streams DEF Passed
<1>4. WireContinues'
  BY <1>1, <1>2 DEF WireContinues
<1>5. CameOffTheWire'
  <2>1. \A b \in BConns : \A i \in 1..Len(browser[b].shown) : browser[b].shown[i].n \in Int
    BY Streams, MessageNumber
  <2>2. \A j \in 1..Len(pair.buffer) : pair.buffer[j].n \in Int
    BY Streams, MessageNumber
  <2> DEFINE p == Passed(c)
             p1 == Passed(c)'
  <2>3. p1 \in Int /\ p \in Int /\ p <= p1
    BY <1>3
  <2>4. /\ \A b \in BConns : \A i \in 1..Len(browser[b].shown) : browser[b].shown[i].n <= p
        /\ \A j \in 1..Len(pair.buffer) : pair.buffer[j].n <= p
    BY DEF TInv, Showing, CameOffTheWire
  <2> HIDE DEF p, p1
  <2>5. /\ \A b \in BConns : \A i \in 1..Len(browser[b].shown) : browser[b].shown[i].n <= p1
        /\ \A j \in 1..Len(pair.buffer) : pair.buffer[j].n <= p1
    BY <2>1, <2>2, <2>3, <2>4
  <2> QED
    BY <1>1, <1>2, <2>5 DEF CameOffTheWire, p1
<1>6. BufferContinues' /\ TerminalFollows' /\ FaithfulTerminal'
  BY <1>1, <1>2 DEF TInv, Showing, BufferContinues, BufferHasRoom, TerminalFollows,
                       FaithfulTerminal, Live
<1> QED
  BY <1>4, <1>5, <1>6 DEF Showing

\* The shell writes: the wire gets longer, at the end.
LEMMA Printed ==
  ASSUME TInv, NEW c \in RConns, OnlyTerminals, RouterPrints(c)
  PROVE  Showing'
<1> DEFINE w  == router[c].wire
           n  == router[c].out
           w1 == router'[c].wire
           m  == [src |-> c, n |-> n + 1]
<1>1. /\ w1 = Append(w, m) /\ router'[c].out = n + 1 /\ router'[c].pc = router[c].pc
      /\ router[c].open /\ UNCHANGED <<pair, browser>>
  BY DEF RouterPrints, TInv, IInv, TypeOK, Router
<1>2. \A d \in RConns : d = c
  BY DEF OnlyTerminals, OneConnection
<1>3. w \in Seq(Message) /\ n \in Nat /\ Len(w) \in Nat
  BY Streams
<1>4. Len(w1) = Len(w) + 1 /\ \A i \in 1..Len(w1) : w1[i] = IF i = Len(w) + 1 THEN m ELSE w[i]
  <2> HIDE DEF w, w1, m
  <2> QED
    BY <1>1, <1>3
<1>5. Passed(c)' = Passed(c) /\ Passed(c) = n - Len(w)
  <2>1. Passed(c)' = (n + 1) - Len(w1) /\ Passed(c) = n - Len(w)
    BY <1>1 DEF Passed
  <2> HIDE DEF n, w, w1, m
  <2> QED
    BY <1>3, <1>4, <2>1
<1>6. WireContinues'
  <2>1. ASSUME NEW i \in 1..Len(w1) PROVE w1[i].n = Passed(c) + i
    <3>1. CASE i = Len(w) + 1
      <4>1. w1[i].n = n + 1
        BY <1>4, <3>1
      <4> QED
        BY <1>3, <1>5, <3>1, <4>1
    <3>2. CASE i # Len(w) + 1
      <4>1. i \in 1..Len(w) /\ w1[i] = w[i]
        BY <1>3, <1>4, <3>2
      <4> QED
        BY <4>1 DEF TInv, Showing, WireContinues
    <3> QED
      BY <3>1, <3>2
  <2> QED
    BY <1>2, <1>5, <2>1 DEF WireContinues
<1>7. CameOffTheWire'
  BY <1>1, <1>2, <1>5 DEF TInv, Showing, CameOffTheWire
<1>8. BufferContinues' /\ TerminalFollows' /\ FaithfulTerminal'
  <2>1. Live(c)' = Live(c)
    BY <1>1 DEF Live
  <2> HIDE DEF w, w1, n, m
  <2>2. BufferContinues'
    BY <1>1, <1>2, <1>5, <2>1 DEF TInv, Showing, BufferContinues, BufferHasRoom
  <2>3. TerminalFollows'
    BY <1>1, <1>2, <1>5, <2>1 DEF TInv, Showing, TerminalFollows
  <2>4. FaithfulTerminal'
    BY <1>1 DEF TInv, Showing, FaithfulTerminal
  <2> QED
    BY <2>2, <2>3, <2>4
<1> QED
  BY <1>6, <1>7, <1>8 DEF Showing

\* What a message that is taken off the wire does to the loop's place.
LEMMA TakenOff ==
  ASSUME TInv, OnlyTerminals, NEW c \in RConns, router[c].wire # <<>>, Forwarded(c)
  PROVE  /\ Passed(c)' = Passed(c) + 1 /\ Passed(c) \in Int
         /\ Head(router[c].wire) \in Message /\ Head(router[c].wire).n = Passed(c) + 1
         /\ router'[c].pc = router[c].pc /\ router'[c].open = router[c].open
         /\ WireContinues'
<1> DEFINE w  == router[c].wire
           w1 == router'[c].wire
<1>1. w1 = Tail(w) /\ router'[c].out = router[c].out /\ router'[c].pc = router[c].pc
      /\ router'[c].open = router[c].open
  BY DEF Forwarded, TInv, IInv, TypeOK, Router
<1>2. w \in Seq(Message) /\ w # <<>> /\ router[c].out \in Nat
  BY Streams
<1>3. /\ Len(w1) = Len(w) - 1 /\ Len(w) \in Nat /\ Len(w) >= 1 /\ Head(w) = w[1]
      /\ \A i \in 1..Len(w1) : w1[i] = w[i + 1]
  <2> HIDE DEF w, w1
  <2> QED
    BY <1>1, <1>2, TailShifts
<1>4. Passed(c) = router[c].out - Len(w) /\ Passed(c)' = router[c].out - Len(w1)
  BY <1>1 DEF Passed
<1>5. Passed(c)' = Passed(c) + 1 /\ Passed(c) \in Int
  <2> HIDE DEF w, w1
  <2> QED
    BY <1>2, <1>3, <1>4
<1>6. \A i \in 1..Len(w) : w[i].n = Passed(c) + i
  BY DEF TInv, Showing, WireContinues
<1>7. Head(w).n = Passed(c) + 1 /\ Head(w) \in Message
  <2>1. 1 \in 1..Len(w)
    BY <1>3
  <2> QED
    BY <1>2, <1>3, <1>6, <2>1, HeadTail
<1>8. WireContinues'
  <2>1. ASSUME NEW i \in 1..Len(w1) PROVE w1[i].n = Passed(c)' + i
    <3> DEFINE p == Passed(c)
               p1 == Passed(c)'
    <3>1. p1 = p + 1 /\ p \in Int /\ \A j \in 1..Len(w) : w[j].n = p + j
      BY <1>5, <1>6
    <3> HIDE DEF p, p1, w, w1
    <3>2. i + 1 \in 1..Len(w) /\ i \in Int
      BY <1>3
    <3>3. w1[i].n = p + (i + 1)
      BY <1>3, <3>1, <3>2
    <3>4. p1 + i = p + (i + 1)
      BY <3>1, <3>2
    <3> QED
      BY <3>3, <3>4 DEF p, p1
  <2>2. \A d \in RConns : d = c
    BY DEF OnlyTerminals, OneConnection
  <2> QED
    BY <2>1, <2>2 DEF WireContinues
<1> QED
  BY <1>1, <1>5, <1>7, <1>8

\* The terminal gets the next message.
LEMMA ShownNext ==
  ASSUME TInv, OnlyTerminals, NEW c \in RConns, RouterToBrowser(c)
  PROVE  Showing'
<1> DEFINE b  == pair.browserConn
           s  == browser[b].shown
           m  == Head(router[c].wire)
           p  == Passed(c)
           s1 == browser'[b].shown
<1>1. router[c].wire # <<>> /\ Forwarded(c) /\ UNCHANGED pair /\ b \in BConns /\ router[c].pc = "reading"
  BY DEF RouterToBrowser, CanForward, RouterAt, TInv, IInv, TypeOK, Pair
<1>2. \A d \in RConns : d = c
  BY DEF OnlyTerminals, OneConnection
<1>3. /\ Passed(c)' = p + 1 /\ p \in Int /\ m \in Message /\ m.n = p + 1
      /\ WireContinues' /\ Live(c) /\ Live(c)'
  BY <1>1, TakenOff DEF Live
<1>4. /\ \A a \in BConns : a # b => browser'[a] = browser[a]
      /\ browser'[b].pc = browser[b].pc /\ browser'[b].open = browser[b].open
      /\ browser'[b].gap = browser[b].gap
      /\ s1 = IF browser[b].open THEN Append(s, m) ELSE s
  BY <1>1 DEF RouterToBrowser, TInv, IInv, TypeOK, Browser
<1>5. pair.buffer = <<>> /\ b # None
  BY <1>1, ConnAssumption DEF TInv, Showing, BufferContinues
<1>6. s \in Seq(Message) /\ Len(s) \in Nat /\ (\A i \in 1..Len(s) : s[i].n \in Nat /\ s[i].n <= p)
  BY <1>1, Streams, MessageNumber DEF TInv, Showing, CameOffTheWire
<1> HIDE DEF s, s1, m, p
<1>7. /\ Len(s1) \in Nat /\ \A i \in 1..Len(s1) : s1[i].n \in Nat /\ s1[i].n <= p + 1
      /\ browser[b].open => /\ Len(s1) = Len(s) + 1 /\ s1[Len(s) + 1].n = p + 1
                            /\ \A i \in 1..Len(s) : s1[i] = s[i]
      /\ ~browser[b].open => s1 = s
  <2>1. CASE browser[b].open
    <3>1. /\ Len(s1) = Len(s) + 1 /\ s1[Len(s) + 1] = m
          /\ \A i \in 1..Len(s) : s1[i] = s[i]
      BY <1>3, <1>4, <1>6, <2>1, AppendIndexed
    <3>2. ASSUME NEW i \in 1..Len(s1) PROVE s1[i].n \in Nat /\ s1[i].n <= p + 1
      <4>1. CASE i = Len(s) + 1
        BY <1>3, <3>1, <4>1, MessageNumber
      <4>2. CASE i # Len(s) + 1
        <5>1. i \in 1..Len(s)
          BY <1>6, <3>1, <4>2
        <5>2. s[i].n \in Nat /\ s[i].n <= p /\ s1[i] = s[i]
          BY <1>6, <3>1, <5>1
        <5> QED
          BY <1>3, <5>2
      <4> QED
        BY <4>1, <4>2
    <3> QED
      BY <1>3, <1>6, <2>1, <3>1, <3>2
  <2>2. CASE ~browser[b].open
    <3>1. s1 = s
      BY <1>4, <2>2
    <3>2. ASSUME NEW i \in 1..Len(s) PROVE s[i].n \in Nat /\ s[i].n <= p + 1
      BY <1>3, <1>6
    <3> QED
      BY <1>6, <2>2, <3>1, <3>2
  <2> QED
    BY <2>1, <2>2
<1>8. CameOffTheWire'
  <2>1. \A a \in BConns : \A i \in 1..Len(browser[a].shown) :
           browser[a].shown[i].n \in Nat /\ browser[a].shown[i].n <= p
    BY Streams, MessageNumber DEF p, TInv, Showing, CameOffTheWire
  <2>2. \A a \in BConns : \A i \in 1..Len(browser'[a].shown) : browser'[a].shown[i].n <= p + 1
    <3>1. ASSUME NEW a \in BConns, a # b, NEW i \in 1..Len(browser'[a].shown)
          PROVE  browser'[a].shown[i].n <= p + 1
      BY <1>3, <1>4, <2>1, <3>1
    <3>2. \A i \in 1..Len(browser'[b].shown) : browser'[b].shown[i].n <= p + 1
      BY <1>7 DEF s1
    <3> QED
      BY <3>1, <3>2
  <2> QED
    BY <1>1, <1>2, <1>3, <1>5, <2>2 DEF CameOffTheWire
<1>9. BufferContinues'
  BY <1>1, <1>5 DEF BufferContinues
<1>10. TerminalFollows'
  <2>1. \A a \in BConns : browser'[a].pc \in {"idle", "upgraded"} => browser'[a].shown = <<>>
    <3>1. browser[b].pc \in {"reading", "teardown"}
      BY <1>5 DEF b, TInv, IInv, Consistent, LiveRegistration
    <3> QED
      BY <1>4, <3>1 DEF TInv, Showing, TerminalFollows
  <2>2. ASSUME browser'[b].open PROVE s1[Len(s1)].n = p + 1
    BY <1>4, <1>6, <1>7, <2>2
  <2> QED
    BY <1>1, <1>2, <1>3, <2>1, <2>2 DEF TerminalFollows, b, s1
<1>11. FaithfulTerminal'
  <2>1. ASSUME NEW a \in BConns, NEW i \in 1..Len(browser'[a].shown) - 1
        PROVE  LET t == browser'[a].shown IN
               t[i + 1].n = t[i].n + 1 \/ (i = browser'[a].gap /\ t[i + 1].n > t[i].n)
    <3>1. CASE a # b \/ ~browser[b].open
      <4>1. browser'[a].shown = browser[a].shown /\ browser'[a].gap = browser[a].gap
        BY <1>4, <1>7, <3>1 DEF s, s1
      <4> QED
        BY <2>1, <4>1 DEF TInv, Showing, FaithfulTerminal
    <3>2. CASE a = b /\ browser[b].open
      <4>1. i \in 1..Len(s1) - 1 /\ Len(s1) = Len(s) + 1
        BY <1>7, <2>1, <3>2 DEF s1
      <4>2. CASE i = Len(s)
        <5>1. i \in 1..Len(s) /\ s # <<>> /\ s1[i] = s[i] /\ s1[i + 1].n = p + 1
          BY <1>6, <1>7, <3>2, <4>1, <4>2
        <5>2. s[i].n = p \/ i = browser[b].gap
          BY <1>1, <1>2, <1>3, <3>2, <4>2, <5>1 DEF TInv, Showing, TerminalFollows, b, s, p
        <5>3. p + 1 = p + 1 /\ p + 1 > s[i].n
          BY <1>3, <1>6, <5>1
        <5> QED
          BY <1>4, <3>2, <5>1, <5>2, <5>3 DEF s1
      <4>3. CASE i # Len(s)
        <5>1. i \in 1..Len(s) - 1 /\ i \in 1..Len(s) /\ i + 1 \in 1..Len(s)
          BY <1>6, <4>1, <4>3
        <5>2. s1[i] = s[i] /\ s1[i + 1] = s[i + 1]
          BY <1>7, <3>2, <5>1
        <5>3. s[i + 1].n = s[i].n + 1 \/ (i = browser[b].gap /\ s[i + 1].n > s[i].n)
          BY <1>1, <5>1 DEF TInv, Showing, FaithfulTerminal, s
        <5> QED
          BY <1>4, <3>2, <5>2, <5>3 DEF s1
      <4> QED
        BY <4>2, <4>3
    <3> QED
      BY <3>1, <3>2
  <2> DEFINE New(a, i) == a = b /\ browser[b].open /\ i = Len(s) + 1
  <2>2. ASSUME NEW a \in BConns, NEW i \in DOMAIN browser'[a].shown
        PROVE  /\ New(a, i) => browser'[a].shown[i].n = p + 1
               /\ ~New(a, i) => /\ i \in DOMAIN browser[a].shown
                                /\ browser'[a].shown[i] = browser[a].shown[i]
                                /\ browser[a].shown[i].n <= p
    <3>1. DOMAIN browser[a].shown = 1..Len(browser[a].shown) /\ Len(browser[a].shown) \in Nat
      BY Streams
    <3>2. \A k \in 1..Len(browser[a].shown) : browser[a].shown[k].n <= p
      BY DEF TInv, Showing, CameOffTheWire, p
    <3>3. CASE a # b \/ ~browser[b].open
      <4>1. browser'[a].shown = browser[a].shown
        BY <1>4, <1>7, <3>3 DEF s, s1
      <4> QED
        BY <2>2, <3>1, <3>2, <3>3, <4>1
    <3>4. CASE a = b /\ browser[b].open
      <4>1. DOMAIN s1 = 1..Len(s) + 1
        BY <1>3, <1>4, <1>6, <3>4
      <4>2. i \in 1..Len(s) + 1
        BY <2>2, <3>4, <4>1 DEF s1
      <4>3. CASE i = Len(s) + 1
        BY <1>7, <3>4, <4>3 DEF s1
      <4>4. CASE i # Len(s) + 1
        <5>1. i \in 1..Len(s)
          BY <1>6, <4>2, <4>4
        <5> QED
          BY <1>7, <3>1, <3>2, <3>4, <4>4, <5>1 DEF s, s1
      <4> QED
        BY <4>3, <4>4
    <3> QED
      BY <3>3, <3>4
  <2>3. ASSUME NEW a \in BConns, NEW d \in BConns,
               NEW i \in DOMAIN browser'[a].shown, NEW j \in DOMAIN browser'[d].shown,
               browser'[a].shown[i] = browser'[d].shown[j]
        PROVE  a = d /\ i = j
    <3>1. CASE New(a, i) /\ New(d, j)
      BY <3>1
    <3>2. CASE ~New(a, i) /\ ~New(d, j)
      <4> HIDE DEF New
      <4> QED
        BY <2>2, <2>3, <3>2 DEF TInv, Showing, FaithfulTerminal
    <3>3. CASE New(a, i) <=> ~New(d, j)
      <4>1. ~(p + 1 <= p)
        BY <1>3
      <4> HIDE DEF New
      <4> QED
        BY <2>2, <2>3, <3>3, <4>1
    <3> HIDE DEF New
    <3> QED
      BY <3>1, <3>2, <3>3
  <2> QED
    BY <2>1, <2>3 DEF FaithfulTerminal
<1> QED
  BY <1>3, <1>8, <1>9, <1>10, <1>11 DEF Showing

\* Equal numbers in a stream without gaps are at one place.
LEMMA SameNumber ==
  ASSUME NEW x \in Nat, NEW y, NEW i \in Int, NEW j \in Int, y = x + (j - i), y = x
  PROVE  i = j
  OBVIOUS

\* Two messages as far from the next one as their places are from the end.
LEMMA GapIsDistance ==
  ASSUME NEW x \in Int, NEW y \in Int, NEW i \in Int, NEW j \in Int, NEW k \in Int, NEW q \in Int,
         x + (k + 1 - i) = q + 1, y + (k + 1 - j) = q + 1
  PROVE  y = x + (j - i)
  OBVIOUS

\* The next message is kept for the first terminal, or lost.
LEMMA KeptNext ==
  ASSUME TInv, OnlyTerminals, NEW c \in RConns, RouterToBuffer(c)
  PROVE  Showing'
<1> DEFINE u  == pair.buffer
           m  == Head(router[c].wire)
           p  == Passed(c)
           u1 == pair'.buffer
<1>1. /\ router[c].wire # <<>> /\ Forwarded(c) /\ UNCHANGED browser /\ router[c].pc = "reading"
      /\ pair.browserConn = None /\ pair'.browserConn = None
      /\ u1 = IF BufferHasRoom THEN Append(u, m) ELSE u
      /\ ~BufferHasRoom => pair' = pair
  BY DEF RouterToBuffer, CanForward, RouterAt, TInv, IInv, TypeOK, Pair
<1>2. \A d \in RConns : d = c
  BY DEF OnlyTerminals, OneConnection
<1>3. /\ Passed(c)' = p + 1 /\ p \in Int /\ m \in Message /\ m.n = p + 1
      /\ WireContinues' /\ Live(c) /\ Live(c)'
  BY <1>1, TakenOff DEF Live
<1>4. u \in Seq(Message) /\ Len(u) \in Nat /\ \A i \in 1..Len(u) : u[i].n \in Nat /\ u[i].n <= p
  BY Streams, MessageNumber DEF TInv, Showing, CameOffTheWire
<1>5. \A b \in BConns : \A i \in 1..Len(browser[b].shown) :
        browser[b].shown[i].n \in Nat /\ browser[b].shown[i].n <= p
  BY Streams, MessageNumber DEF TInv, Showing, CameOffTheWire
<1>6. /\ \A i, j \in 1..Len(u) : u[j].n = u[i].n + (j - i)
      /\ u # <<>> /\ BufferHasRoom => u[Len(u)].n = p
      /\ \A b \in BConns : \A i \in 1..Len(browser[b].shown), j \in 1..Len(u) :
            browser[b].shown[i].n < u[j].n
  BY <1>3 DEF TInv, Showing, BufferContinues
<1>7. TerminalFollows' /\ FaithfulTerminal'
  BY <1>1, ConnAssumption DEF TerminalFollows, FaithfulTerminal, TInv, Showing
<1> HIDE DEF u, u1, m, p
<1>8. CASE BufferHasRoom
  <2>1. /\ Len(u1) = Len(u) + 1 /\ u1[Len(u) + 1] = m
        /\ \A i \in 1..Len(u) : u1[i] = u[i]
    BY <1>1, <1>3, <1>4, <1>8, AppendIndexed
  <2> DEFINE L == Len(u)
             U(i) == u1[i].n
  <2>2. /\ L \in Nat /\ Len(u1) = L + 1 /\ U(L + 1) = p + 1
        /\ \A i \in 1..L : U(i) \in Nat /\ U(i) <= p /\ U(i) + (L - i) = p
    <3>1. ASSUME NEW i \in 1..L PROVE U(i) \in Nat /\ U(i) <= p /\ U(i) + (L - i) = p
      <4>1. u1[i] = u[i] /\ L \in 1..L /\ u # <<>>
        BY <1>4, <2>1
      <4>2. u[L].n = p /\ u[L].n = u[i].n + (L - i)
        BY <1>6, <1>8, <4>1
      <4> QED
        BY <1>4, <4>1, <4>2
    <3> QED
      BY <1>3, <1>4, <2>1, <3>1
  <2>21. \A i \in 1..Len(u1) : i = L + 1 \/ (i \in 1..L /\ u1[i] = u[i])
    BY <1>4, <2>1
  <2> HIDE DEF L, U
  <2>3. \A i \in 1..L + 1 : U(i) \in Int /\ U(i) <= p + 1 /\ U(i) + ((L + 1) - i) = p + 1
    <3>1. ASSUME NEW i \in 1..L + 1
          PROVE  U(i) \in Int /\ U(i) <= p + 1 /\ U(i) + ((L + 1) - i) = p + 1
      <4>1. CASE i = L + 1
        BY <1>3, <2>2, <4>1
      <4>2. CASE i # L + 1
        <5>1. i \in 1..L
          BY <2>2, <4>2
        <5>2. U(i) \in Nat /\ U(i) <= p /\ U(i) + (L - i) = p
          BY <2>2, <5>1
        <5> QED
          BY <1>3, <2>2, <5>1, <5>2
      <4> QED
        BY <4>1, <4>2
    <3> QED
      BY <3>1
  <2>4. \A i, j \in 1..L + 1 : U(j) = U(i) + (j - i)
    <3>1. ASSUME NEW i \in 1..L + 1, NEW j \in 1..L + 1 PROVE U(j) = U(i) + (j - i)
      <4>1. /\ U(i) \in Int /\ U(i) + ((L + 1) - i) = p + 1
            /\ U(j) \in Int /\ U(j) + ((L + 1) - j) = p + 1
        BY <2>3
      <4>2. i \in Int /\ j \in Int /\ L \in Int
        BY <2>2
      <4> QED
        BY <1>3, <4>1, <4>2, GapIsDistance
    <3> QED
      BY <3>1
  <2>5. ASSUME NEW b \in BConns, NEW i \in 1..Len(browser[b].shown), NEW j \in 1..Len(u1)
        PROVE  browser[b].shown[i].n < U(j) /\ browser[b].shown[i].n <= p + 1
    <3>1. browser[b].shown[i].n \in Nat /\ browser[b].shown[i].n <= p
      BY <1>5
    <3>2. CASE j = L + 1
      BY <1>3, <2>2, <3>1, <3>2
    <3>3. CASE j \in 1..L /\ u1[j] = u[j]
      BY <1>3, <1>6, <3>1, <3>3 DEF U, L
    <3> QED
      BY <2>21, <3>2, <3>3
  <2>6. CameOffTheWire'
    <3>1. \A j \in 1..Len(u1) : u1[j].n <= p + 1
      BY <2>2, <2>3 DEF U
    <3>2. \A b \in BConns : \A i \in 1..Len(browser[b].shown) : browser[b].shown[i].n <= p + 1
      BY <1>3, <1>5
    <3> QED
      BY <1>1, <1>2, <1>3, <3>1, <3>2 DEF CameOffTheWire, u1
  <2>7. BufferContinues'
    <3>1. u1[Len(u1)].n = p + 1
      BY <2>2 DEF U
    <3>2. \A i, j \in 1..Len(u1) : u1[j].n = u1[i].n + (j - i)
      BY <2>2, <2>4 DEF U
    <3>3. \A b \in BConns : \A i \in 1..Len(browser[b].shown), j \in 1..Len(u1) :
             browser[b].shown[i].n < u1[j].n
      BY <2>5 DEF U
    <3> QED
      BY <1>1, <1>2, <1>3, <3>1, <3>2, <3>3 DEF BufferContinues, u1
  <2> QED
    BY <1>3, <1>7, <2>6, <2>7 DEF Showing
<1>9. CASE ~BufferHasRoom
  <2>1. u1 = u /\ ~BufferHasRoom'
    BY <1>1, <1>9 DEF BufferHasRoom
  <2>2. CameOffTheWire'
    <3>1. \A i \in 1..Len(u) : u[i].n <= p + 1
      BY <1>3, <1>4
    <3>2. \A b \in BConns : \A i \in 1..Len(browser[b].shown) : browser[b].shown[i].n <= p + 1
      BY <1>3, <1>5
    <3> QED
      BY <1>1, <1>2, <1>3, <2>1, <3>1, <3>2 DEF CameOffTheWire, u1
  <2>3. BufferContinues'
    BY <1>1, <1>6, <2>1 DEF BufferContinues, u1
  <2> QED
    BY <1>3, <1>7, <2>2, <2>3 DEF Showing
<1> QED
  BY <1>8, <1>9

\* A tab becomes the pair's terminal and gets what was kept.
LEMMA AttachFlushes ==
  ASSUME TInv, OnlyTerminals, NEW b \in BConns, BrowserAttach(b)
  PROVE  Showing'
<1> DEFINE u  == pair.buffer
           s1 == browser'[b].shown
<1>1. /\ browser[b].pc = "upgraded" /\ UNCHANGED <<session, router, req>>
      /\ pair'.browserConn = b /\ pair'.buffer = <<>>
      /\ \A a \in BConns : a # b => browser'[a] = browser[a]
      /\ browser'[b].pc = "reading" /\ browser'[b].open = browser[b].open
      /\ browser'[b].gap = IF BufferHasRoom THEN 0 ELSE Len(u)
      /\ s1 = IF browser[b].open THEN browser[b].shown \o u ELSE browser[b].shown
  BY FlushedOnly DEF BrowserAttach, BrowserAt, TInv, IInv, TypeOK, Pair, Browser
<1>2. browser[b].shown = <<>> /\ u \in Seq(Message) /\ Len(u) \in Nat
  BY <1>1, Streams DEF TInv, Showing, TerminalFollows
<1>3. s1 = IF browser[b].open THEN u ELSE <<>>
  <2> HIDE DEF u
  <2> QED
    BY <1>1, <1>2
<1>4. \A c \in RConns : Passed(c)' = Passed(c) /\ Live(c)' = Live(c)
  BY <1>1 DEF Passed, Live
<1>5. WireContinues'
  BY <1>1, <1>4 DEF TInv, Showing, WireContinues
<1>6. CameOffTheWire'
  <2>1. ASSUME NEW c \in RConns, NEW a \in BConns, NEW i \in 1..Len(browser'[a].shown)
        PROVE  browser'[a].shown[i].n <= Passed(c)
    <3>1. CASE a # b
      BY <1>1, <2>1, <3>1 DEF TInv, Showing, CameOffTheWire
    <3>2. CASE a = b
      BY <1>3, <2>1, <3>2 DEF TInv, Showing, CameOffTheWire
    <3> QED
      BY <3>1, <3>2
  <2> QED
    BY <1>1, <1>4, <2>1 DEF CameOffTheWire
<1>7. BufferContinues'
  BY <1>1 DEF BufferContinues
<1>8. TerminalFollows'
  <2>1. ASSUME NEW c \in RConns, Live(c), browser[b].open, s1 # <<>>
        PROVE  s1[Len(s1)].n = Passed(c) \/ Len(s1) = browser'[b].gap
    <3>1. s1 = u
      BY <1>3, <2>1
    <3>2. CASE BufferHasRoom
      BY <2>1, <3>1, <3>2 DEF TInv, Showing, BufferContinues
    <3>3. CASE ~BufferHasRoom
      BY <1>1, <3>1, <3>3
    <3> QED
      BY <3>2, <3>3
  <2>2. \A a \in BConns : browser'[a].pc \in {"idle", "upgraded"} => browser'[a].shown = <<>>
    BY <1>1 DEF TInv, Showing, TerminalFollows
  <2> QED
    BY <1>1, <1>4, <2>1, <2>2 DEF TerminalFollows
<1>9. FaithfulTerminal'
  <2>1. ASSUME NEW i \in 1..Len(s1) - 1 PROVE s1[i + 1].n = s1[i].n + 1
    <3>1. s1 = u /\ i \in 1..Len(u) /\ i + 1 \in 1..Len(u)
      BY <1>2, <1>3, <2>1
    <3>2. u[i + 1].n = u[i].n + ((i + 1) - i)
      BY <3>1 DEF TInv, Showing, BufferContinues
    <3> QED
      BY <3>1, <3>2
  <2>2. ASSUME NEW i \in DOMAIN s1, NEW j \in DOMAIN s1, s1[i] = s1[j] PROVE i = j
    <3>1. s1 = u /\ i \in 1..Len(u) /\ j \in 1..Len(u)
      BY <1>2, <1>3, <2>2
    <3>2. u[j].n = u[i].n + (j - i)
      BY <3>1 DEF TInv, Showing, BufferContinues
    <3>3. u[i].n \in Nat /\ u[j].n = u[i].n
      BY <1>2, <2>2, <3>1, MessageNumber
    <3> HIDE DEF u
    <3>4. i \in Int /\ j \in Int
      BY <3>1
    <3> QED
      BY <3>2, <3>3, <3>4, SameNumber
  <2>3. ASSUME NEW a \in BConns, a # b, NEW i \in DOMAIN browser[a].shown, NEW j \in DOMAIN s1
        PROVE  browser[a].shown[i] # s1[j]
    <3>1. s1 = u /\ j \in 1..Len(u) /\ i \in 1..Len(browser[a].shown)
      BY <1>2, <1>3, <2>3, Streams
    <3>2. browser[a].shown[i].n < u[j].n
      BY <3>1 DEF TInv, Showing, BufferContinues
    <3>3. u[j].n \in Nat
      BY <1>2, <3>1, MessageNumber
    <3> QED
      BY <3>1, <3>2, <3>3
  <2> HIDE DEF s1
  <2>4. \A a \in BConns : LET s == browser'[a].shown IN
          \A i \in 1..Len(s) - 1 : \/ s[i + 1].n = s[i].n + 1
                                   \/ i = browser'[a].gap /\ s[i + 1].n > s[i].n
    <3>1. ASSUME NEW a \in BConns, a # b, NEW i \in 1..Len(browser'[a].shown) - 1
          PROVE  LET s == browser'[a].shown IN
                 s[i + 1].n = s[i].n + 1 \/ (i = browser'[a].gap /\ s[i + 1].n > s[i].n)
      <4>1. browser'[a].shown = browser[a].shown /\ browser'[a].gap = browser[a].gap
        BY <1>1, <3>1
      <4> QED
        BY <3>1, <4>1 DEF TInv, Showing, FaithfulTerminal
    <3>2. \A i \in 1..Len(browser'[b].shown) - 1 :
             browser'[b].shown[i + 1].n = browser'[b].shown[i].n + 1
      BY <2>1 DEF s1
    <3> QED
      BY <3>1, <3>2
  <2>5. ASSUME NEW a \in BConns, NEW d \in BConns,
               NEW i \in DOMAIN browser'[a].shown, NEW j \in DOMAIN browser'[d].shown,
               browser'[a].shown[i] = browser'[d].shown[j]
        PROVE  a = d /\ i = j
    <3>1. CASE a = b /\ d = b
      BY <2>2, <2>5, <3>1 DEF s1
    <3>2. CASE a = b /\ d # b
      <4>1. i \in DOMAIN s1 /\ j \in DOMAIN browser[d].shown /\ browser[d].shown[j] = s1[i]
        BY <1>1, <2>5, <3>2 DEF s1
      <4> QED
        BY <2>3, <3>2, <4>1
    <3>3. CASE a # b /\ d = b
      <4>1. j \in DOMAIN s1 /\ i \in DOMAIN browser[a].shown /\ browser[a].shown[i] = s1[j]
        BY <1>1, <2>5, <3>3 DEF s1
      <4> QED
        BY <2>3, <3>3, <4>1
    <3>4. CASE a # b /\ d # b
      BY <1>1, <2>5, <3>4 DEF TInv, Showing, FaithfulTerminal
    <3> QED
      BY <3>1, <3>2, <3>3, <3>4
  <2> QED
    BY <2>4, <2>5 DEF FaithfulTerminal
<1> QED
  BY <1>5, <1>6, <1>7, <1>8, <1>9 DEF Showing

\* A restart empties the wire and the buffer, and closes every tab.
LEMMA RestartShowsNothing ==
  ASSUME TInv, OnlyTerminals, Restart
  PROVE  Showing'
<1>1. /\ pair'.buffer = <<>> /\ pair'.browserConn = None
      /\ \A c \in RConns : router'[c].wire = <<>> /\ router'[c].out = router[c].out
      /\ \A b \in BConns : /\ browser'[b].shown = browser[b].shown
                           /\ browser'[b].gap = browser[b].gap
                           /\ browser'[b].pc \in {"idle", "upgraded"} => browser[b].pc = "idle"
  BY DEF Restart, NewPair, Killed, TInv, IInv, TypeOK, Router, Browser
<1>2. ASSUME NEW c \in RConns, NEW b \in BConns, NEW i \in 1..Len(browser[b].shown)
      PROVE  browser[b].shown[i].n <= router[c].out
  <2> DEFINE x == browser[b].shown[i].n
             n == router[c].out
             l == Len(router[c].wire)
  <2>1. x \in Nat /\ n \in Nat /\ l \in Nat
    BY Streams, MessageNumber
  <2>2. x <= n - l
    BY DEF TInv, Showing, CameOffTheWire, Passed
  <2> HIDE DEF x, n, l
  <2>3. x <= n
    BY <2>1, <2>2
  <2> QED
    BY <2>3 DEF x, n
<1>3. \A c \in RConns : Passed(c)' = router[c].out
  BY <1>1, Streams DEF Passed
<1>4. WireContinues' /\ CameOffTheWire' /\ BufferContinues'
  BY <1>1, <1>2, <1>3 DEF WireContinues, CameOffTheWire, BufferContinues
<1>5. TerminalFollows'
  BY <1>1, ConnAssumption DEF TInv, Showing, TerminalFollows
<1>6. FaithfulTerminal'
  BY <1>1 DEF TInv, Showing, FaithfulTerminal
<1> QED
  BY <1>4, <1>5, <1>6 DEF Showing

\* What a router's handler or its peer does.
LEMMA ShowingRouter ==
  ASSUME TInv, OnlyTerminals, NEW c \in RConns, RouterHandler(c) \/ RouterPeer(c)
  PROVE  Showing'
<1>1. pair.pipeWriter = None /\ pair.mutex = None /\ c # None
  BY NoPipe, ConnAssumption DEF TInv
<1>2. CASE RouterAttach(c) \/ RouterMarkActive(c) \/ RouterMarkTerminated(c)
           \/ RouterAccept(c) \/ RouterReject(c) \/ RouterHangsUp(c)
  <2> DEFINE Unmoved == \A d \in RConns :
                /\ router'[d].wire = router[d].wire /\ router'[d].out = router[d].out
                /\ router'[d].pc # router[d].pc => Live(d)
  <2>1. CASE RouterAttach(c)
    <3>1. Unmoved /\ pair'.buffer = pair.buffer /\ pair'.kept = pair.kept /\ pair'.browserConn = pair.browserConn /\ UNCHANGED browser
      BY <2>1 DEF RouterAttach, RouterAt, RouterTo, Live, TInv, IInv, TypeOK, Router, Pair
    <3> QED
      BY <3>1, NothingMoves DEF Live
  <2>2. CASE RouterMarkActive(c)
    <3>1. Unmoved /\ UNCHANGED <<pair, browser>>
      BY <2>2 DEF RouterMarkActive, RouterAt, RouterTo, Live, TInv, IInv, TypeOK, Router
    <3> QED
      BY <3>1, NothingMoves DEF Live
  <2>3. CASE RouterMarkTerminated(c)
    <3>1. /\ UNCHANGED <<pair, browser>>
          /\ \A d \in RConns : /\ router'[d].wire = router[d].wire /\ router'[d].out = router[d].out
                               /\ router'[d].pc \in {router[d].pc, "done"}
      BY <2>3 DEF RouterMarkTerminated, RouterAt, RouterTo, TInv, IInv, TypeOK, Router
    <3> QED
      BY <3>1, NothingMoves DEF Live
  <2>4. CASE RouterAccept(c)
    <3>1. Unmoved /\ UNCHANGED <<pair, browser>>
      BY <2>4 DEF RouterAccept, RouterAt, Live, TInv, IInv, TypeOK, Router
    <3> QED
      BY <3>1, NothingMoves DEF Live
  <2>5. CASE RouterReject(c)
    <3>1. Unmoved /\ UNCHANGED <<pair, browser>>
      BY <2>5 DEF RouterReject, RouterAt, RouterTo, Live, TInv, IInv, TypeOK, Router
    <3> QED
      BY <3>1, NothingMoves DEF Live
  <2>6. CASE RouterHangsUp(c)
    <3>1. Unmoved /\ UNCHANGED <<pair, browser>>
      BY <2>6 DEF RouterHangsUp, TInv, IInv, TypeOK, Router
    <3> QED
      BY <3>1, NothingMoves DEF Live
  <2> QED
    BY <1>2, <2>1, <2>2, <2>3, <2>4, <2>5, <2>6
<1>3. CASE RouterTeardown(c)
  <2>1. /\ \A d \in RConns : /\ router'[d].wire = router[d].wire /\ router'[d].out = router[d].out
                             /\ Live(d)' => Live(d)
        /\ pair'.buffer = pair.buffer /\ pair'.kept = pair.kept
        /\ pair'.browserConn = None
        /\ \A b \in BConns : /\ browser'[b].shown = browser[b].shown
                             /\ browser'[b].gap = browser[b].gap
                             /\ browser'[b].open => browser[b].open
                             /\ browser'[b].pc = browser[b].pc
    BY <1>3 DEF RouterTeardown, BrowserClosed, RouterAt, RouterTo, Live, TInv, IInv, TypeOK,
         Router, Pair, Browser
  <2> QED
    BY <2>1, NothingMoves
<1>4. CASE RouterToBrowser(c)
  BY <1>4, ShownNext
<1>5. CASE RouterToBuffer(c)
  BY <1>5, KeptNext
<1>6. CASE RouterReadFails(c)
  BY <1>6, WireDropped
<1>7. CASE RouterPrints(c)
  BY <1>7, Printed
<1>8. ~RouterWriteFails(c) /\ ~RouterWriteBlocks(c) /\ ~RouterWriteAborted(c)
  BY <1>1 DEF RouterWriteFails, RouterWriteBlocks, RouterWriteAborted
<1> QED
  BY <1>2, <1>3, <1>4, <1>5, <1>6, <1>7, <1>8 DEF RouterHandler, RouterPeer

\* What a tab's handler or its user does.
LEMMA ShowingBrowser ==
  ASSUME TInv, OnlyTerminals, NEW b \in BConns, BrowserHandler(b) \/ BrowserPeer(b)
  PROVE  Showing'
<1>1. CASE BrowserAttach(b)
  BY <1>1, AttachFlushes
<1>2. CASE BrowserRelay(b)
  <2>1. pair.routerConn \in RConns /\ RouterPrints(pair.routerConn)
    BY <1>2 DEF BrowserRelay, TInv, IInv, TypeOK, Pair
  <2> QED
    BY <2>1, Printed
<1>3. CASE BrowserTeardown(b)
  <2>1. /\ \A c \in RConns : /\ router'[c].wire = router[c].wire /\ router'[c].out = router[c].out
                             /\ router'[c].pc = router[c].pc
        /\ pair'.buffer = pair.buffer /\ pair'.kept = pair.kept
        /\ pair'.browserConn = None
        /\ \A a \in BConns : /\ browser'[a].shown = browser[a].shown
                             /\ browser'[a].gap = browser[a].gap
                             /\ browser'[a].open = browser[a].open
                             /\ a # b => browser'[a].pc = browser[a].pc
        /\ browser'[b].pc = "done"
    BY <1>3 DEF BrowserTeardown, PairWithoutBrowser, BrowserTo, TInv, IInv, TypeOK,
         Router, Pair, Browser
  <2> QED
    BY <2>1, NothingMoves DEF Live
<1>4. CASE BrowserReadFails(b) \/ BrowserAccept(b) \/ BrowserReject(b) \/ BrowserHangsUp(b)
  <2> DEFINE Unmoved == \A a \in BConns :
                /\ browser'[a].shown = browser[a].shown /\ browser'[a].gap = browser[a].gap
                /\ browser'[a].open => browser[a].open \/ browser[a].pc = "idle"
                /\ browser'[a].pc \in {"idle", "upgraded"} => browser[a].pc \in {"idle", "upgraded"}
  <2>1. Unmoved
    <3>1. CASE BrowserReadFails(b)
      BY <3>1 DEF BrowserReadFails, BrowserTo, TInv, IInv, TypeOK, Browser
    <3>2. CASE BrowserAccept(b)
      BY <3>2 DEF BrowserAccept, BrowserAt, TInv, IInv, TypeOK, Browser
    <3>3. CASE BrowserReject(b)
      BY <3>3 DEF BrowserReject, BrowserTo, TInv, IInv, TypeOK, Browser
    <3>4. CASE BrowserHangsUp(b)
      BY <3>4 DEF BrowserHangsUp, TInv, IInv, TypeOK, Browser
    <3> QED
      BY <1>4, <3>1, <3>2, <3>3, <3>4
  <2>2. UNCHANGED <<pair, router>>
    BY <1>4 DEF BrowserReadFails, BrowserAccept, BrowserReject, BrowserHangsUp
  <2>3. \A a \in BConns : browser[a].pc = "idle" => browser[a].shown = <<>>
    BY DEF TInv, Showing, TerminalFollows
  <2> QED
    BY <2>1, <2>2, <2>3, NothingMoves DEF Live
<1> QED
  BY <1>1, <1>2, <1>3, <1>4 DEF BrowserHandler, BrowserPeer

\* Every step keeps the streams.
LEMMA NextTInv == OnlyTerminals /\ TInv /\ [Next]_vars => TInv'
<1> SUFFICES ASSUME OnlyTerminals, TInv, [Next]_vars PROVE Showing'
  BY NextIInv DEF TInv
<1>1. CASE RequestTunnel \/ Expire \/ UNCHANGED vars
  <2>1. UNCHANGED <<pair, router, browser>>
    BY <1>1 DEF RequestTunnel, Expire, vars
  <2> QED
    BY <2>1, NothingMoves DEF Live
<1>2. CASE Restart
  BY <1>2, RestartShowsNothing
<1>3. Reqs = {}
  BY DEF OnlyTerminals
<1> QED
  BY <1>1, <1>2, <1>3, ShowingRouter, ShowingBrowser DEF Next, SessionNext, Quiet

\* In a session of one router connection without requests, whatever tabs come,
\* go and lag, and the gateway restarts, a terminal shows the shell's output in
\* order, once, and complete but for what the full buffer lost.
THEOREM TerminalsAreFaithful == ASSUME OnlyTerminals PROVE Spec => []FaithfulTerminal
<1>1. Init => TInv
  BY InitIInv, ConnAssumption
  DEF Init, NewPair, TInv, Showing, WireContinues, CameOffTheWire, BufferContinues,
      TerminalFollows, FaithfulTerminal
<1>2. TInv /\ [Next]_vars => TInv'
  BY NextTInv
<1>3. TInv => FaithfulTerminal
  BY DEF TInv, Showing
<1> QED
  BY <1>1, <1>2, <1>3, PTL DEF Spec

=============================================================================
