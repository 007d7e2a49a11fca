------------------------ MODULE MCIntegrationBinding ------------------------
(***************************************************************************)
(* Instances of IntegrationBinding for TLC.  "ask" and "tell" both show    *)
(* the first Step to its reviewers.                                        *)
(***************************************************************************)
EXTENDS IntegrationBinding

FirstStep == [b \in Binding |-> 0]
=============================================================================
