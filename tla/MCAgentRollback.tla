-------------------------- MODULE MCAgentRollback --------------------------
(* Small instances of AgentRollback for TLC. *)
EXTENDS AgentRollback

CONSTANTS good, bad

TwoChanges == {good, bad}
OneBad     == {bad}
AllFail    == {"backup", "uci", "commit", "reload", "restore", "remove"}
=============================================================================
