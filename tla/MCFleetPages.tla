---------------------------- MODULE MCFleetPages ----------------------------
(* Small instances of FleetPages for TLC. *)
EXTENDS FleetPages

CONSTANTS s1, s2

TwoSlots == {s1, s2}
TwoParts == {"summary", "devices"}
=============================================================================
