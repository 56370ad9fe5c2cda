---------------------------- MODULE ProxyService ----------------------------
(***************************************************************************)
(* What the LuCI proxy promises its clients, locks and pipes aside: there  *)
(* is one stream from the router, it is lent to one client at a time, and  *)
(* a client hears of it only while it is lent to it.  The handler of       *)
(* backend/internal/tunnel/tunnel.go implements this (see TunnelGateway).  *)
(***************************************************************************)
EXTENDS Naturals

CONSTANTS
    Clients,
    Nobody   \* not a client: the stream is not lent

VARIABLES
    phase, \* where each client is
    sink,  \* the client that the stream is lent to
    heard  \* how many messages of the stream each client was given

vars == <<phase, sink, heard>>

Init ==
    /\ phase = [r \in Clients |-> "away"]
    /\ sink = Nobody
    /\ heard = [r \in Clients |-> 0]

Arrive(r) ==
    /\ phase[r] = "away"
    /\ phase' = [phase EXCEPT ![r] = "waiting"]
    /\ UNCHANGED <<sink, heard>>

\* A client is turned away before it was served.
TurnAway(r) ==
    /\ phase[r] \in {"away", "waiting"}
    /\ phase' = [phase EXCEPT ![r] = "gone"]
    /\ UNCHANGED <<sink, heard>>

Serve(r) ==
    /\ phase[r] = "waiting"
    /\ \A q \in Clients : phase[q] # "served"
    /\ phase' = [phase EXCEPT ![r] = "served"]
    /\ UNCHANGED <<sink, heard>>

Lend(r) ==
    /\ phase[r] = "served" /\ sink = Nobody
    /\ sink' = r
    /\ UNCHANGED <<phase, heard>>

Hear(r) ==
    /\ phase[r] = "served" /\ sink = r
    /\ heard' = [heard EXCEPT ![r] = @ + 1]
    /\ UNCHANGED <<phase, sink>>

\* The stream is taken back: by the client, or because the router left.
TakeBack ==
    /\ sink # Nobody
    /\ sink' = Nobody
    /\ UNCHANGED <<phase, heard>>

\* A client leaves only after it has given the stream back.
Leave(r) ==
    /\ phase[r] = "served" /\ sink # r
    /\ phase' = [phase EXCEPT ![r] = "gone"]
    /\ UNCHANGED <<sink, heard>>

\* Everything stops, and everyone who had come is gone.
Stop ==
    /\ phase' = [r \in Clients |-> IF phase[r] = "away" THEN "away" ELSE "gone"]
    /\ sink' = Nobody
    /\ UNCHANGED heard

Next ==
    \/ \E r \in Clients : \/ Arrive(r) \/ TurnAway(r) \/ Serve(r)
                          \/ Lend(r) \/ Hear(r) \/ Leave(r)
    \/ TakeBack
    \/ Stop

Spec == Init /\ [][Next]_vars

=============================================================================
