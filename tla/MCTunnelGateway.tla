-------------------------- MODULE MCTunnelGateway --------------------------
(* Small instances of TunnelGateway for TLC. *)
EXTENDS TunnelGateway, TLC

CONSTANTS c1, c2, b1, b2, r1, r2

NoOne    == {}
OneConn  == {c1}
TwoConns == {c1, c2}
OneTab   == {b1}
TwoTabs  == {b1, b2}
OneReq   == {r1}
TwoReqs  == {r1, r2}

\* The requests, the connections and the tabs are interchangeable.
Symmetry ==
    Permutations(TwoConns) \cup Permutations(TwoReqs) \cup Permutations(TwoTabs)
=============================================================================
