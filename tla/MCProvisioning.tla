--------------------------- MODULE MCProvisioning ---------------------------
(* Small instances of Provisioning for TLC. *)
EXTENDS Provisioning

CONSTANTS d1, d2, o1, o2, s1, s2, c1, c2, k1, k2

NoOne      == {}
OneDevice  == {d1}
OtherDevice == {d2}
TwoDevices == {d1, d2}
OneOrg     == {o1}
TwoOrgs    == {o1, o2}
OneSecret  == {s1}
TwoSecrets == {s1, s2}
OneClaim   == {c1}
TwoClaims  == {c1, c2}
OneSlot    == {k1}
TwoSlots   == {k1, k2}
OwnMac     == [d \in Devices |-> d]
SameMac    == [d \in Devices |-> d1]
=============================================================================
