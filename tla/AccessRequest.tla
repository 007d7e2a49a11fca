--------------------------- MODULE AccessRequest ---------------------------
(***************************************************************************)
(* The access Request object of the just-in-time access API and the pure   *)
(* functions by which the API server and the controllers of nocturne       *)
(* compute its next version.  A Request lives in the resource store; every *)
(* handler clones a copy of it, applies one of these functions and writes  *)
(* the result back with a compare-and-swap on the resource version (see    *)
(* AccessGrant and AccessReview).                                          *)
(*                                                                         *)
(* Times are natural numbers and Nil is the unset protobuf message, so the *)
(* clock starts at 1.  What no property tells apart is left out: the       *)
(* LastStates history, names, justification, urgency, origin, resource.    *)
(***************************************************************************)
EXTENDS Integers, Sequences, FiniteSets

CONSTANT DefaultMaxAccess   \* defaultMaxAccessDuration

ASSUME DefaultMaxAccessAssumption == DefaultMaxAccess \in Nat \ {0}

Nil == 0

Final == {"REJECTED", "REVOKED", "EXPIRED", "CANCELLED"}

Status == {"PENDING", "APPROVED"} \union Final

\* A Policy Rule as a Request copies it is a record of its effect, the
\* maxAccessDuration of its Authorization (max, Nil when unset) and the Steps
\* of its review: who may review, how many must approve, the timeout.
Effect == {"DENY", "REVIEW", "AUTO_APPROVE"}

NoRule == [effect |-> "NONE", max |-> Nil, steps |-> <<>>]

\* Mutation of NewRequest: the state is left unset.
StatelessRequest(duration, deadline) ==
  [status |-> "STATUS_UNKNOWN", rule |-> NoRule, duration |-> duration,
   deadline |-> deadline, effective |-> Nil, step |-> 0, stepAt |-> Nil,
   startAt |-> Nil, endAt |-> Nil, accessEndsAt |-> Nil, triggerRef |-> Nil]

\* The Request that CreateRequest stores: PENDING, no Rule matched yet.
NewRequest(duration, deadline) ==
  [status |-> "PENDING", rule |-> NoRule, duration |-> duration,
   deadline |-> deadline, effective |-> Nil, step |-> 0, stepAt |-> Nil,
   startAt |-> Nil, endAt |-> Nil, accessEndsAt |-> Nil, triggerRef |-> Nil]

\* setState / setRequestState, the same in the API server, the two
\* controllers and the watcher: ApprovalEndAt is set once, by whatever ends
\* the wait for a decision.
SetState(req, status, now) ==
  IF req.status = status THEN req
  ELSE [req EXCEPT !.status = status,
                   !.endAt = IF @ = Nil /\ status # "PENDING" THEN now ELSE @]

\* Mutation of AccessDuration: the Rule's maximum is only a default.
UncappedDuration(duration, rule) ==
  IF duration # Nil THEN duration
  ELSE IF rule.max > 0 THEN rule.max ELSE DefaultMaxAccess

\* getAccessDuration: the asked duration, capped by the Rule's maximum.
AccessDuration(duration, rule) ==
  LET max == IF rule.max > 0 THEN rule.max ELSE DefaultMaxAccess
  IN  IF duration = Nil \/ duration > max THEN max ELSE duration

\* validateReviewAction: a review Rule the controller can start.
ValidReview(rule) ==
  /\ rule.steps # <<>>
  /\ \A i \in DOMAIN rule.steps :
       /\ rule.steps[i].reviewers # {}
       /\ (rule.steps[i].require = "COUNT") <=> (rule.steps[i].count > 0)

\* The start of the wait for a decision, once a Rule grants one.
Begun(req, rule, now) ==
  [req EXCEPT !.rule = rule,
              !.effective = AccessDuration(req.duration, rule),
              !.startAt = IF @ = Nil THEN now ELSE @]

\* initializeRequest, rule being the one matchPolicyRule returned (NoRule
\* when no Rule matches).
InitializeRequest(req, rule, now) ==
  CASE rule = NoRule -> SetState(req, "REJECTED", now)
    [] rule.effect = "DENY" -> SetState([req EXCEPT !.rule = rule], "REJECTED", now)
    [] rule.effect = "REVIEW" -> [Begun(req, rule, now) EXCEPT !.stepAt = now]
    [] rule.effect = "AUTO_APPROVE" -> SetState(Begun(req, rule, now), "APPROVED", now)

NeedsRule(req) == req.status = "PENDING" /\ req.rule = NoRule

\* ensureAccessEndsAt: the access window, anchored to the approval.
EnsureAccessEndsAt(req, now) ==
  IF req.accessEndsAt # Nil \/ req.rule = NoRule THEN req
  ELSE LET length == IF req.effective > 0 THEN req.effective
                     ELSE AccessDuration(req.duration, req.rule)
           anchor == IF req.endAt = Nil THEN now ELSE req.endAt
       IN  [req EXCEPT !.endAt = anchor, !.accessEndsAt = anchor + length]

WindowPassed(req, now) == req.accessEndsAt # Nil /\ req.accessEndsAt <= now

\* expireIfNeeded, and doCheckApprovedRequest of the watcher.
ExpireIfNeeded(req, now) ==
  IF WindowPassed(req, now) THEN SetState(req, "EXPIRED", now) ELSE req

\* Mutation of Reconciled: an approval by review gets no window.
ReconciledWithoutWindow(req, rule, now) ==
  IF NeedsRule(req) THEN InitializeRequest(req, rule, now) ELSE ExpireIfNeeded(req, now)

\* The version of req that doReconcile compares with the one it was given.
Reconciled(req, rule, now) ==
  LET init == IF NeedsRule(req) THEN InitializeRequest(req, rule, now) ELSE req
  IN  IF init.status # "APPROVED" THEN init
      ELSE ExpireIfNeeded(EnsureAccessEndsAt(init, now), now)

\* Mutation of GotoNextStepOr: one Step too many.
PastLastStep(status, req, now) ==
  IF req.step >= Len(req.rule.steps) THEN SetState(req, status, now)
  ELSE [req EXCEPT !.step = @ + 1, !.stepAt = now]

\* gotoNextStepOrApprove (status "APPROVED") of the review controller and
\* gotoNextReviewStepOrExpire (status "EXPIRED") of the watcher.
GotoNextStepOr(status, req, now) ==
  IF req.step + 1 >= Len(req.rule.steps) THEN SetState(req, status, now)
  ELSE [req EXCEPT !.step = @ + 1, !.stepAt = now]

\* doCheckPendingRequest: the deadline, then the current Step's timeout.
CheckPending(req, now) ==
  LET waiting == req.rule.effect = "REVIEW" /\ req.step < Len(req.rule.steps)
      step == req.rule.steps[req.step + 1]
  IN  IF req.deadline # Nil /\ req.deadline <= now THEN SetState(req, "EXPIRED", now)
      ELSE IF ~waiting THEN req
      ELSE IF step.timeout = Nil \/ req.stepAt + step.timeout > now THEN req
      ELSE CASE step.onTimeout = "GOTO_NEXT_STEP" -> GotoNextStepOr("EXPIRED", req, now)
             [] step.onTimeout = "REJECT" -> SetState(req, "REJECTED", now)
             [] OTHER -> SetState(req, "EXPIRED", now)

\* Mutation of Checked: only the APPROVED Requests are looked at.
CheckedApproved(req, now) ==
  IF req.status = "APPROVED" THEN ExpireIfNeeded(req, now) ELSE req

\* doCheckRequest of the periodic watcher.
Checked(req, now) ==
  CASE req.status = "PENDING" -> CheckPending(req, now)
    [] req.status = "APPROVED" -> ExpireIfNeeded(req, now)
    [] OTHER -> req

=============================================================================
