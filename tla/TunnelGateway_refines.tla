------------------------ MODULE TunnelGateway_refines ------------------------
(***************************************************************************)
(* TunnelGateway implements ProxyService: each step of the gateway is a    *)
(* step of the service, or leaves what the clients see of it unchanged.    *)
(***************************************************************************)
EXTENDS TunnelGateway_proofs

\* What the clients see of a request, and how it may change: the request keeps
\* its phase and what it heard.
Unseen(r) == Phase(req'[r].pc) = Phase(req[r].pc) /\ Len(req'[r].got) = Len(req[r].got)

\* The phases of the places of a handler.
LEMMA Phases ==
    /\ Phase("idle") = "away" /\ Phase("polling") = "waiting" /\ Phase("queued") = "waiting"
    /\ Phase("done") = "gone"
    /\ \A pc \in Serving : Phase(pc) = "served"
    /\ \A pc \in RequestPc : Phase(pc) = "served" <=> pc \in Serving
  BY DEF Phase, Serving, RequestPc

\* A step that no client sees.
LEMMA Stutters ==
  ASSUME UNCHANGED pair.pipeWriter, \A r \in Reqs : Unseen(r)
  PROVE  UNCHANGED Service!vars
  BY DEF Service!vars, Unseen

\* A step in which one request changes its phase.
LEMMA PhaseStep ==
  ASSUME NEW r \in Reqs, NEW p, Phase(req'[r].pc) = p,
         \A q \in Reqs : /\ q # r => Phase(req'[q].pc) = Phase(req[q].pc)
                         /\ Len(req'[q].got) = Len(req[q].got)
  PROVE  /\ [q \in Reqs |-> Phase(req'[q].pc)]
              = [[q \in Reqs |-> Phase(req[q].pc)] EXCEPT ![r] = p]
         /\ [q \in Reqs |-> Len(req'[q].got)] = [q \in Reqs |-> Len(req[q].got)]
  OBVIOUS

\* A step in which one request takes a message.
LEMMA HearStep ==
  ASSUME NEW r \in Reqs, Len(req'[r].got) = Len(req[r].got) + 1,
         \A q \in Reqs : /\ q # r => Len(req'[q].got) = Len(req[q].got)
                         /\ Phase(req'[q].pc) = Phase(req[q].pc)
  PROVE  /\ [q \in Reqs |-> Len(req'[q].got)]
              = [[q \in Reqs |-> Len(req[q].got)] EXCEPT ![r] = @ + 1]
         /\ [q \in Reqs |-> Phase(req'[q].pc)] = [q \in Reqs |-> Phase(req[q].pc)]
  OBVIOUS

\* The router's and the browsers' steps: none but the router's teardown is seen.
LEMMA RouterStep ==
  ASSUME IInv, NEW c \in RConns, RouterHandler(c) \/ RouterPeer(c)
  PROVE  Service!Next \/ UNCHANGED Service!vars
<1>1. CASE RouterTeardown(c)
  <2>1. /\ pair'.pipeWriter = None
        /\ \A r \in Reqs : Unseen(r)
    BY <1>1 DEF RouterTeardown, Unseen, IInv, TypeOK, Pair, Request
  <2>2. CASE pair.pipeWriter = None
    BY <2>1, <2>2, Stutters
  <2>3. CASE pair.pipeWriter # None
    BY <2>1, <2>3 DEF Service!Next, Service!TakeBack, Unseen
  <2> QED
    BY <2>2, <2>3
<1>2. CASE ~RouterTeardown(c)
  <2>1. UNCHANGED req /\ pair'.pipeWriter = pair.pipeWriter
    <3>1. CASE RouterToBuffer(c)
      <4>1. UNCHANGED req /\ pair \in Pair
        BY <3>1 DEF RouterToBuffer, IInv, TypeOK
      <4> QED
        BY <3>1, <4>1, KeptOnly
    <3>2. CASE ~RouterToBuffer(c)
      BY <1>2, <3>2
      DEF RouterHandler, RouterPeer, RouterAttach, RouterMarkActive, RouterToBrowser,
          RouterWriteFails, RouterWriteBlocks, RouterWriteAborted, WriteReturns,
          RouterReadFails, RouterMarkTerminated, RouterAccept, RouterReject, RouterHangsUp,
          RouterPrints, IInv, TypeOK, Pair
    <3> QED
      BY <3>1, <3>2
  <2> QED
    BY <2>1, Stutters DEF Unseen
<1> QED
  BY <1>1, <1>2

LEMMA BrowserStep ==
  ASSUME IInv, NEW b \in BConns, BrowserHandler(b) \/ BrowserPeer(b)
  PROVE  UNCHANGED Service!vars
<1>1. UNCHANGED req /\ pair'.pipeWriter = pair.pipeWriter
  BY FlushedOnly
  DEF BrowserHandler, BrowserPeer, BrowserAttach, BrowserReadFails, BrowserTeardown,
      PairWithoutBrowser, BrowserAccept, BrowserReject, BrowserHangsUp, BrowserRelay,
      RouterPrints, IInv, TypeOK, Pair
<1> QED
  BY <1>1, Stutters DEF Unseen

\* A restart of the gateway stops the service.
LEMMA SessionStep ==
  ASSUME IInv, SessionNext PROVE Service!Next \/ UNCHANGED Service!vars
<1>1. CASE RequestTunnel \/ Expire
  BY <1>1, Stutters DEF RequestTunnel, Expire, Unseen
<1>2. CASE Restart
  <2>1. pair'.pipeWriter = None
    BY <1>2 DEF Restart, NewPair
  <2>2. \A r \in Reqs : /\ req'[r].pc = Killed(req[r].pc) /\ req'[r].got = req[r].got
                        /\ req[r].pc \in RequestPc
    BY <1>2 DEF Restart, IInv, TypeOK, Request
  <2>3. \A r \in Reqs : Phase(req'[r].pc)
                          = IF Phase(req[r].pc) = "away" THEN "away" ELSE "gone"
    BY <2>2 DEF Killed, Phase, RequestPc, Serving
  <2> QED
    BY <2>1, <2>2, <2>3 DEF Service!Next, Service!Stop
<1> QED
  BY <1>1, <1>2 DEF SessionNext

\* A request that is let into, or turned away from, the part of the handler
\* that HttpLock serialises.
LEMMA ArrivalStep ==
  ASSUME IInv, NEW r \in Reqs,
         ProxyAccept(r) \/ ProxyReject(r) \/ ProxyReady(r) \/ ProxyNotReady(r) \/ ProxyLock(r)
  PROVE  Service!Next \/ UNCHANGED Service!vars
<1>1. /\ \A q \in Reqs : /\ q # r => Phase(req'[q].pc) = Phase(req[q].pc)
                         /\ Len(req'[q].got) = Len(req[q].got)
      /\ UNCHANGED pair.pipeWriter
  BY DEF ProxyAccept, ProxyReject, ProxyReady, ProxyNotReady, ProxyLock, ReqTo, ReqEnds,
         IInv, TypeOK, Request, Pair
<1>2. CASE ProxyAccept(r)
  <2>1. Phase(req[r].pc) = "away" /\ Phase(req'[r].pc) = "waiting"
    BY <1>2, Phases DEF ProxyAccept, ReqAt, ReqTo, IInv, TypeOK, Request
  <2> QED
    BY <1>1, <2>1, PhaseStep DEF Service!Next, Service!Arrive
<1>3. CASE ProxyReject(r) \/ ProxyNotReady(r)
  <2>1. Phase(req[r].pc) \in {"away", "waiting"} /\ Phase(req'[r].pc) = "gone"
    BY <1>3, Phases DEF ProxyReject, ProxyNotReady, ReqAt, ReqEnds, IInv, TypeOK, Request
  <2> QED
    BY <1>1, <2>1, PhaseStep DEF Service!Next, Service!TurnAway
<1>4. CASE ProxyReady(r)
  <2>1. Phase(req[r].pc) = "waiting" /\ Phase(req'[r].pc) = "waiting"
    BY <1>4, Phases DEF ProxyReady, ReqAt, ReqTo, IInv, TypeOK, Request
  <2> QED
    BY <1>1, <2>1, Stutters DEF Unseen
<1>5. CASE ProxyLock(r)
  <2>1. Phase(req[r].pc) = "waiting" /\ Phase(req'[r].pc) = "served"
    BY <1>5, Phases DEF ProxyLock, ReqAt, ReqTo, IInv, TypeOK, Request, Serving
  <2>2. \A q \in Reqs : Phase(req[q].pc) # "served"
    BY <1>5, Phases, ConnAssumption
    DEF ProxyLock, IInv, TypeOK, Request, Consistent, SerializedTransactions
  <2> QED
    BY <1>1, <2>1, <2>2, PhaseStep DEF Service!Next, Service!Serve
<1> QED
  BY <1>2, <1>3, <1>4, <1>5

\* A request that holds HttpLock takes a message: only the one that has the
\* stream is offered any.
LEMMA MessageStep ==
  ASSUME IInv, NEW r \in Reqs, ReadResponse(r) \/ CopyBody(r) \/ CopyBreaks(r)
  PROVE  Service!Next
<1>1. Offered(r) /\ WriteReturns(pair.mutex)
  BY DEF ReadResponse, CopyBody, CopyBreaks
<1>2. req[r].pipe /\ pair.pipeWriter = r /\ UNCHANGED pair.pipeWriter
  BY <1>1 DEF Offered, WriteReturns, IInv, TypeOK, Pair
<1>3. req[r].pc \in Serving
  BY <1>2 DEF IInv, Consistent, SerializedTransactions
<1>4. req'[r].pc \in Serving
  BY <1>3 DEF ReadResponse, CopyBody, CopyBreaks, Serving, IInv, TypeOK, Request
<1>5. /\ req'[r].got = Append(req[r].got, Offer)
      /\ \A q \in Reqs : q # r => req'[q] = req[q]
  BY DEF ReadResponse, CopyBody, CopyBreaks, IInv, TypeOK, Request
<1>6. Len(Append(req[r].got, Offer)) = Len(req[r].got) + 1
  <2>1. req[r].got \in Seq(Message)
    BY DEF IInv, TypeOK, Request
  <2>2. Offer \in Message
    BY <1>1, OfferType
  <2> QED
    BY <2>1, <2>2, Appended
<1> QED
  BY <1>2, <1>3, <1>4, <1>5, <1>6, HearStep, Phases DEF Service!Next, Service!Hear

\* The other steps of a request that holds HttpLock.
LEMMA ServedStep ==
  ASSUME IInv, NEW r \in Reqs,
         \/ ProxySend(r) \/ ProxySendFails(r) \/ ReadResponseFails(r)
         \/ ProxyAnswered(r) \/ ProxyBadAnswer(r) \/ ProxyTimeout(r) \/ ProxyCanceled(r)
         \/ CopyEnds(r) \/ ClientAborts(r)
  PROVE  UNCHANGED Service!vars
<1>1. UNCHANGED pair.pipeWriter
  BY DEF ProxySend, ProxySendFails, ReadResponseFails, ProxyAnswered, ProxyBadAnswer,
         ProxyTimeout, ProxyCanceled, ProxyGivesUp, CopyEnds, ClientAborts
<1>2. \A q \in Reqs : q # r => req'[q] = req[q]
  BY DEF ProxySend, ProxySendFails, ReadResponseFails, ProxyAnswered, ProxyBadAnswer,
         ProxyTimeout, ProxyCanceled, ProxyGivesUp, CopyEnds, ClientAborts,
         ReqEnds, IInv, TypeOK
<1>3. /\ req'[r].got = req[r].got
      /\ req'[r].pc = req[r].pc \/ (req[r].pc \in Serving /\ req'[r].pc \in Serving)
  <2> USE DEF IInv, TypeOK, Request, ReqAt, ReqEnds, Serving
  <2>1. CASE ProxySend(r) \/ ProxySendFails(r)
    BY <2>1 DEF ProxySend, ProxySendFails
  <2>2. CASE ReadResponseFails(r) \/ ClientAborts(r)
    BY <2>2 DEF ReadResponseFails, ClientAborts
  <2>3. CASE ProxyAnswered(r) \/ ProxyBadAnswer(r)
    BY <2>3 DEF ProxyAnswered, ProxyBadAnswer
  <2>4. CASE ProxyTimeout(r) \/ ProxyCanceled(r)
    BY <2>4 DEF ProxyTimeout, ProxyCanceled, ProxyGivesUp
  <2>5. CASE CopyEnds(r)
    BY <2>5 DEF CopyEnds
  <2> QED
    BY <2>1, <2>2, <2>3, <2>4, <2>5
<1>4. \A q \in Reqs : Unseen(q)
  BY <1>2, <1>3, Phases DEF Unseen
<1> QED
  BY <1>1, <1>4, Stutters

\* The pipe is opened, and given back; and the request leaves.
LEMMA PipeStep ==
  ASSUME IInv, NEW r \in Reqs,
         ProxyOpenPipe(r) \/ ProxyCleanup(r) \/ ProxyBadRequest(r) \/ ProxyRelease(r)
  PROVE  Service!Next \/ UNCHANGED Service!vars
<1>1. \A q \in Reqs : /\ q # r => Phase(req'[q].pc) = Phase(req[q].pc)
                      /\ Len(req'[q].got) = Len(req[q].got)
  <2>1. CASE ProxyOpenPipe(r)
    BY <2>1 DEF ProxyOpenPipe, IInv, TypeOK, Request
  <2>2. CASE ProxyCleanup(r) \/ ProxyBadRequest(r)
    BY <2>2 DEF ProxyCleanup, ProxyBadRequest, ReqTo, ReqEnds, IInv, TypeOK, Request
  <2>3. CASE ProxyRelease(r)
    BY <2>3 DEF ProxyRelease, IInv, TypeOK, Request
  <2> QED
    BY <2>1, <2>2, <2>3
<1>2. pair.pipeWriter \in Reqs \cup {None} /\ pair.httpLock \in Reqs \cup {None}
  BY DEF IInv, TypeOK, Pair
<1>3. CASE ProxyOpenPipe(r)
  <2>1. req[r].pc \in Serving /\ req'[r].pc \in Serving /\ pair'.pipeWriter = r
    BY <1>3 DEF ProxyOpenPipe, ReqAt, Serving, IInv, TypeOK, Request, Pair
  <2>2. pair.pipeWriter = None
    BY <1>2, <1>3, <2>1 DEF ProxyOpenPipe, ReqAt, IInv, Consistent, SerializedTransactions,
                            PipeOwnerInside
  <2>3. \A q \in Reqs : Unseen(q)
    BY <1>1, <2>1, Phases DEF Unseen
  <2> QED
    BY <2>1, <2>2, <2>3, Phases DEF Service!Next, Service!Lend, Unseen
<1>4. CASE ProxyCleanup(r)
  <2>1. /\ req[r].pc \in Serving /\ req'[r].pc \in Serving
        /\ pair'.pipeWriter \in {None, pair.pipeWriter}
    BY <1>4 DEF ProxyCleanup, PipeWriterWithout, ReqAt, ReqTo, Serving, IInv, TypeOK,
                Request, Pair
  <2>2. \A q \in Reqs : Unseen(q)
    BY <1>1, <2>1, Phases DEF Unseen
  <2>3. CASE pair'.pipeWriter = pair.pipeWriter
    BY <2>2, <2>3, Stutters
  <2>4. CASE pair'.pipeWriter # pair.pipeWriter
    BY <2>1, <2>2, <2>4 DEF Service!Next, Service!TakeBack, Unseen
  <2> QED
    BY <2>3, <2>4
<1>5. CASE ProxyBadRequest(r) \/ ProxyRelease(r)
  <2>1. /\ req[r].pc \in {"locked", "release"} /\ req'[r].pc = "done"
        /\ UNCHANGED pair.pipeWriter
    BY <1>5 DEF ProxyBadRequest, ProxyRelease, ReqAt, ReqEnds, IInv, TypeOK, Request, Pair
  <2>2. Phase(req[r].pc) = "served" /\ Phase(req'[r].pc) = "gone"
    BY <2>1, Phases DEF Serving
  <2>3. pair.pipeWriter # r
    BY <2>1, ConnAssumption DEF IInv, Consistent, PipeOwnerInside
  <2> QED
    BY <1>1, <2>1, <2>2, <2>3, PhaseStep DEF Service!Next, Service!Leave
<1> QED
  BY <1>3, <1>4, <1>5

\* Every step of the gateway is a step of the service or is not seen.
LEMMA NextRefines == IInv /\ [Next]_vars => [Service!Next]_(Service!vars)
<1> SUFFICES ASSUME IInv, [Next]_vars PROVE Service!Next \/ UNCHANGED Service!vars
  OBVIOUS
<1>1. CASE SessionNext
  BY <1>1, SessionStep
<1>2. ASSUME NEW c \in RConns, RouterHandler(c) \/ RouterPeer(c)
      PROVE  Service!Next \/ UNCHANGED Service!vars
  BY <1>2, RouterStep
<1>3. ASSUME NEW b \in BConns, BrowserHandler(b) \/ BrowserPeer(b)
      PROVE  Service!Next \/ UNCHANGED Service!vars
  BY <1>3, BrowserStep
<1>4. ASSUME NEW r \in Reqs, ProxyHandler(r) \/ ReadGoroutine(r) \/ ProxyPeer(r)
      PROVE  Service!Next \/ UNCHANGED Service!vars
  BY <1>4, ArrivalStep, MessageStep, ServedStep, PipeStep
  DEF ProxyHandler, ReadGoroutine, ProxyPeer
<1>5. CASE UNCHANGED vars
  BY <1>5, Stutters DEF vars, Unseen
<1> QED
  BY <1>1, <1>2, <1>3, <1>4, <1>5 DEF Next, Quiet

LEMMA InitRefines == Init => Service!Init
  BY Phases DEF Init, NewPair, Service!Init

\* The gateway implements the service that the LuCI proxy promises.
THEOREM Refinement == Spec => ImplementsService
  BY InitRefines, NextRefines, Invariance, PTL DEF Spec, ImplementsService, Service!Spec

=============================================================================
