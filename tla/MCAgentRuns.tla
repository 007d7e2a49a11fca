---------------------------- MODULE MCAgentRuns ----------------------------
(***************************************************************************)
(* The instance of AgentRuns for TLC.                                      *)
(***************************************************************************)
EXTENDS AgentRuns

TwoRuns == 1 .. 2
=============================================================================
