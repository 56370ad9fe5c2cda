-------------------------- MODULE MCConsoleSession --------------------------
(* Small instances of ConsoleSession for TLC. *)
EXTENDS ConsoleSession, TLC

CONSTANTS t1, t2, u1, u2, k1, k2

TwoTabs     == {t1, t2}
TwoUsers    == {u1, u2}
TwoTokens   == {k1, k2}
OneQuiet    == {"settings"}

Symmetry == Permutations(TwoTabs) \cup Permutations(TwoUsers) \cup Permutations(TwoTokens)
=============================================================================
