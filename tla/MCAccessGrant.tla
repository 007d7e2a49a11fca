--------------------------- MODULE MCAccessGrant ---------------------------
(***************************************************************************)
(* Instances of AccessGrant for TLC: the values of its CONSTANTs.  Times   *)
(* are small: DefaultMaxAccess is 2, so a Rule may cap below it and a      *)
(* duration may be below, at and above the cap.                            *)
(***************************************************************************)
EXTENDS AccessGrant

ReviewStep(timeout, onTimeout) ==
  [reviewers |-> {"u"}, require |-> "ANY", count |-> 0,
   timeout |-> timeout, onTimeout |-> onTimeout]

Deny == [effect |-> "DENY", max |-> Nil, steps |-> <<>>]
Auto == [effect |-> "AUTO_APPROVE", max |-> 1, steps |-> <<>>]
NoSteps == [effect |-> "REVIEW", max |-> Nil, steps |-> <<>>]
TwoSteps ==
  [effect |-> "REVIEW", max |-> 1,
   steps |-> <<ReviewStep(1, "GOTO_NEXT_STEP"), ReviewStep(1, "REJECT")>>]
Timed == [effect |-> "REVIEW", max |-> Nil, steps |-> <<ReviewStep(1, "UNSET")>>]

FewRules == {Auto, Timed}
CoreRules == {Deny, Auto, NoSteps, TwoSteps}

TwoPriorities == {Unset, -3}
=============================================================================
