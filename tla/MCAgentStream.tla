--------------------------- MODULE MCAgentStream ---------------------------
(***************************************************************************)
(* The instance of AgentStream for TLC.                                    *)
(***************************************************************************)
EXTENDS AgentStream

TwoRuns == 1 .. 2
=============================================================================
