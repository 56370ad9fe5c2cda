-------------------------- MODULE MCRemoteViewers --------------------------
(* Small instances of RemoteViewers for TLC. *)
EXTENDS RemoteViewers

CONSTANTS r1, r2

TwoRouters == {r1, r2}
=============================================================================
