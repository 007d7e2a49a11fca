--------------------------- MODULE MCAccessReview ---------------------------
(***************************************************************************)
(* Instances of AccessReview for TLC: the values of its CONSTANTs.         *)
(***************************************************************************)
EXTENDS AccessReview, TLC

CallerSymmetry == Permutations(Caller)

Users == {"u1", "u2"}

ReviewStep(require, count, timeout, requester) ==
  [reviewers |-> Users, require |-> require, count |-> count, timeout |-> timeout,
   onTimeout |-> "GOTO_NEXT_STEP", requester |-> requester, subject |-> TRUE]

\* Two approvals, the requester's own being accepted.
TwoOf == [effect |-> "REVIEW", max |-> Nil, steps |-> <<ReviewStep("COUNT", 2, Nil, TRUE)>>]

\* Any reviewer but the requester, for a while, then all of these.
AnyThenAll ==
  [effect |-> "REVIEW", max |-> Nil,
   steps |-> <<ReviewStep("ANY", 0, 1, FALSE), ReviewStep("ALL", 0, Nil, FALSE)>>]

Both == [effect |-> "REVIEW", max |-> Nil, steps |-> <<ReviewStep("ALL", 0, Nil, TRUE)>>]

CountRules == {TwoOf}
StepRules == {AnyThenAll, Both}
=============================================================================
