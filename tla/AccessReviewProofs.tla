------------------------- MODULE AccessReviewProofs -------------------------
(***************************************************************************)
(* Proofs about AccessReview, for every set of users, every review Rule,   *)
(* any number of calls in flight, with edits, locks, failures and          *)
(* restarts: its variables keep their types, LastSteps is a faithful       *)
(* account, the outcome is what AccessGrant assumes, and a Step is passed  *)
(* only by its quorum; and, while nothing disturbs the review, that no     *)
(* decision is forgotten.                                                  *)
(*                                                                         *)
(* None of these is inductive: the controller decides from copies.  The    *)
(* invariant says what a copy is good for: an approval that a copy holds   *)
(* was recorded (Backed), a copy names a Review of the same Step (HeldOK), *)
(* and as long as the Request still has the version that was read, what    *)
(* the controller is about to write is right for it (Current).             *)
(***************************************************************************)
EXTENDS AccessReview, FiniteSetTheorems, SequenceTheorems, TLAPS

RequestType ==
  [status : Status, rule : Rules, duration : Nat, deadline : Nat, effective : Nat,
   step : Nat, stepAt : Nat, startAt : Nat, endAt : Nat, accessEndsAt : Nat,
   triggerRef : Nat]

Entry == [id : Nat, step : Nat, decision : Decision]

EventType(ids) == [id : ids, unset : BOOLEAN, force : BOOLEAN]

RequestOK == request \in RequestType /\ request.step < Len(request.rule.steps)

StoreOK == now \in Nat /\ version \in Nat /\ disturbances \in Nat /\ RequestOK

\* An APPROVE was recorded when it was written.
Backed(rev, record) == rev.decision = "APPROVE" => <<rev.step, rev.user>> \in record

ReviewOK ==
  /\ review \in Seq(ReviewType)
  /\ feed \in Seq(EventType(DOMAIN review))
  /\ \A i \in DOMAIN review : review[i].id = i /\ Backed(review[i], approved)

CallOK ==
  /\ call \in [Caller -> CallType]
  /\ \A c \in Caller :
       /\ call[c].seen = NoReview \/ call[c].seen.id \in DOMAIN review
       /\ call[c].pc = "meta" => call[c].seen # NoReview

HistoryOK ==
  /\ active \subseteq User /\ lapsed \subseteq User
  /\ approved \subseteq Nat \X User
  /\ User \ active \subseteq lapsed

\* The copy of the Review that the controller holds.
HeldOK ==
  /\ work \in WorkType
  /\ work.pc # "idle" =>
       /\ work.rev.id \in DOMAIN review
       /\ work.rev.step = review[work.rev.id].step
       /\ Backed(work.rev, approved)

\* What the controller is about to write, the Request being what it read.
Current ==
  /\ InReview /\ work.rev.step = request.step
  /\ work.rev.decision = "REJECT" => work.pc = "write" /\ work.outcome = "reject"
  /\ work.pc = "write" /\ work.outcome = "pass" => QuorumOf(request.step)

WorkOK ==
  work.pc \in {"list", "write"} =>
    work.rv <= version /\ (version = work.rv => Current)

LastOK ==
  /\ lastSteps \in Seq(Entry)
  /\ \A i \in DOMAIN lastSteps : lastSteps[i].id \in DOMAIN review
  /\ LastStepsConsistent

IInv == StoreOK /\ ReviewOK /\ CallOK /\ HistoryOK /\ HeldOK /\ WorkOK /\ LastOK
-----------------------------------------------------------------------------
(* The operators of AccessRequest and the Rules.                           *)

\* A Rule of the review has Steps, each of the right type.
LEMMA RuleSteps ==
  ASSUME NEW rule \in Rules
  PROVE  /\ rule # NoRule /\ rule.effect = "REVIEW" /\ rule.max \in Nat
         /\ rule.steps \in Seq(StepType) /\ Len(rule.steps) \in Nat \ {0}
<1>1. /\ rule = [effect |-> "REVIEW", max |-> rule.max, steps |-> rule.steps]
      /\ rule.max \in Nat /\ rule.steps \in Seq(StepType) /\ rule.steps # <<>>
  BY ReviewAssumption DEF ValidReview
<1>2. rule.effect = "REVIEW"
  BY <1>1
<1>3. rule # NoRule
  BY <1>2 DEF NoRule
<1>4. Len(rule.steps) \in Nat /\ Len(rule.steps) # 0
  BY <1>1
<1> QED BY <1>1, <1>2, <1>3, <1>4

\* The Step that a Request waits at.
LEMMA StepAtType ==
  ASSUME RequestOK
  PROVE  StepAt(request.step) \in StepType
<1>1. request.rule \in Rules /\ request.step \in Nat
  BY DEF RequestOK, RequestType
<1>2. request.step + 1 \in 1 .. Len(request.rule.steps)
  BY <1>1, RuleSteps DEF RequestOK
<1> QED BY <1>1, <1>2, RuleSteps DEF StepAt

\* setState changes the status and the end of the wait.
LEMMA SetStateType ==
  ASSUME NEW req \in RequestType, NEW status \in Status, NEW t \in Nat
  PROVE  LET next == SetState(req, status, t)
         IN  next \in RequestType /\ next.status = status
             /\ next.step = req.step /\ next.rule = req.rule
BY DEF SetState, RequestType, Nil

\* The next Step is one the Rule has, or the wait ends.
LEMMA GotoNextType ==
  ASSUME NEW req \in RequestType, NEW status \in Status, NEW t \in Nat,
         req.step < Len(req.rule.steps)
  PROVE  LET next == GotoNextStepOr(status, req, t)
         IN  /\ next \in RequestType /\ next.rule = req.rule
             /\ next.step < Len(req.rule.steps) /\ next.step >= req.step
             /\ next.status = status \/ (next.status = req.status /\ next.step = req.step + 1)
<1>1. req.rule \in Rules /\ req.step \in Nat /\ Len(req.rule.steps) \in Nat
  BY RuleSteps DEF RequestType
<1>2. CASE req.step + 1 >= Len(req.rule.steps)
  BY <1>1, <1>2, SetStateType DEF GotoNextStepOr
<1>3. CASE ~(req.step + 1 >= Len(req.rule.steps))
  <2>1. GotoNextStepOr(status, req, t) = [req EXCEPT !.step = @ + 1, !.stepAt = t]
    BY <1>3 DEF GotoNextStepOr
  <2>2. req.step + 1 \in Nat /\ req.step + 1 < Len(req.rule.steps) /\ req.step + 1 >= req.step
    BY <1>1, <1>3
  <2> DEFINE next == [req EXCEPT !.step = @ + 1, !.stepAt = t]
  <2>3. /\ next \in RequestType /\ next.rule = req.rule /\ next.status = req.status
        /\ next.step = req.step + 1
    BY <2>2 DEF RequestType
  <2> HIDE DEF next
  <2> QED BY <2>1, <2>2, <2>3 DEF next
<1> QED BY <1>2, <1>3

\* What the watcher may do to a pending Request: end it, not by an approval,
\* or take it to the next Step once the current one has timed out.
LEMMA CheckedPending ==
  ASSUME RequestOK, now \in Nat, request.status = "PENDING"
  PROVE  LET next == Checked(request, now)
         IN  /\ next \in RequestType /\ next.rule = request.rule
             /\ next.step < Len(request.rule.steps) /\ next.step >= request.step
             /\ next.status # "APPROVED"
             /\ next.step # request.step => StepTimedOut
<1> DEFINE step == request.rule.steps[request.step + 1]
           Fine(next) == /\ next \in RequestType /\ next.rule = request.rule
                         /\ next.step < Len(request.rule.steps) /\ next.step >= request.step
                         /\ next.status # "APPROVED"
                         /\ next.step # request.step => StepTimedOut
<1>1. request \in RequestType /\ request.step < Len(request.rule.steps) /\ request.step \in Nat
      /\ request.rule \in Rules
  BY DEF RequestOK, RequestType
<1>2. Fine(request) /\ Fine(SetState(request, "EXPIRED", now)) /\ Fine(SetState(request, "REJECTED", now))
  <2>1. ASSUME NEW status \in {"EXPIRED", "REJECTED"}
        PROVE  Fine(SetState(request, status, now))
    <3>1. status \in Status /\ status # "APPROVED"
      BY DEF Status, Final
    <3> QED BY <1>1, <3>1, SetStateType
  <2>2. Fine(request)
    BY <1>1
  <2> QED BY <2>1, <2>2
<1>3. step \in StepType
  BY StepAtType DEF StepAt
<1>4. ASSUME ~(step.timeout = Nil \/ request.stepAt + step.timeout > now),
             step.onTimeout = "GOTO_NEXT_STEP"
      PROVE  Fine(GotoNextStepOr("EXPIRED", request, now))
  <2>1. step.timeout \in Nat /\ request.stepAt \in Nat
    BY <1>1, <1>3 DEF StepType, RequestType
  <2>2. StepTimedOut
    BY <1>4, <2>1 DEF StepTimedOut, StepAt
  <2> QED BY <1>1, <2>2, GotoNextType DEF Status, Final
<1> HIDE DEF Fine
<1>5. Fine(CheckPending(request, now))
  BY <1>2, <1>4 DEF CheckPending
<1>6. Checked(request, now) = CheckPending(request, now)
  BY DEF Checked
<1> QED BY <1>5, <1>6 DEF Fine
-----------------------------------------------------------------------------
(* The Reviews of a Step and its quorum.                                   *)

\* Recorded approvals and lapses are never taken back, and so a quorum.
LEMMA QuorumGrows ==
  ASSUME RequestOK, HistoryOK', QuorumOf(request.step),
         request' = request, approved \subseteq approved', lapsed \subseteq lapsed'
  PROVE  QuorumOf(request.step)'
<1> DEFINE step == StepAt(request.step)
           before == Approvers(request.step)
           after == Approvers(request.step)'
<1>1. StepAt(request.step)' = step /\ step \in StepType
  BY StepAtType DEF StepAt
<1>2. before \subseteq after
  BY <1>1 DEF Approvers, SeparationOfDuties
<1>3. CASE step.require = "ANY"
  BY <1>1, <1>2, <1>3 DEF QuorumOf
<1>4. CASE step.require = "ALL"
  BY <1>1, <1>2, <1>4 DEF QuorumOf, SeparationOfDuties
<1>5. CASE step.require = "COUNT"
  <2>1. after \subseteq User
    BY <1>1 DEF Approvers, StepType
  <2>2. IsFiniteSet(after)
    BY <2>1, FS_Subset, ReviewAssumption
  <2>3. IsFiniteSet(before) /\ Cardinality(before) <= Cardinality(after)
        /\ Cardinality(before) \in Nat /\ Cardinality(after) \in Nat
    BY <1>2, <2>2, FS_Subset, FS_CardinalityType
  <2>4. Cardinality(before) >= step.count
    BY <1>5 DEF QuorumOf
  <2>5. step.count \in Nat
    BY <1>1 DEF StepType
  <2> HIDE DEF before, after, step
  <2>6. Cardinality(after) >= step.count
    BY <2>3, <2>4, <2>5
  <2> QED BY <1>1, <1>5, <2>6 DEF QuorumOf, after, step
<1> QED BY <1>1, <1>3, <1>4, <1>5 DEF StepType

\* The Reviews that the controller takes for those of the Step do have it,
\* and their approvals were recorded.
LEMMA ListedBacked ==
  ASSUME ReviewOK, HeldOK, work.pc # "idle", work.rev.step = request.step,
         NEW u \in Deciders(CurrentStepReviews(work.rev), "APPROVE")
  PROVE  <<request.step, u>> \in approved
<1>1. PICK rev \in CurrentStepReviews(work.rev) : rev.decision = "APPROVE" /\ rev.user = u
  BY DEF Deciders
<1>2. rev.step = request.step /\ Backed(rev, approved)
  BY <1>1 DEF CurrentStepReviews, ReviewOK, HeldOK
<1> QED BY <1>1, <1>2 DEF Backed

\* What the controller takes for an approval of the Step is its quorum.
LEMMA ApprovedByQuorum ==
  ASSUME RequestOK, ReviewOK, HeldOK, HistoryOK, work.pc # "idle", work.rev.step = request.step,
         StepApproved(StepAt(request.step), CurrentStepReviews(work.rev))
  PROVE  QuorumOf(request.step)
<1> DEFINE step == StepAt(request.step)
           users == Deciders(CurrentStepReviews(work.rev), "APPROVE")
           chosen == {u \in users : Eligible(step, u)}
<1>1. step \in StepType
  BY StepAtType
<1>2. chosen \subseteq Approvers(request.step)
  BY ListedBacked DEF Approvers, Eligible
<1>3. CASE step.require = "ANY"
  <2>1. chosen # {}
    BY <1>3 DEF StepApproved
  <2> QED BY <1>2, <1>3, <2>1 DEF QuorumOf
<1>4. CASE step.require = "ALL"
  <2> DEFINE asked == {u \in step.reviewers : Eligible(step, u)}
  <2>1. asked # {} /\ asked \subseteq users
    BY <1>4 DEF StepApproved
  <2>2. asked \subseteq Approvers(request.step)
    BY <1>2, <2>1
  <2>3. ASSUME NEW u \in step.reviewers, SeparationOfDuties(step, u)
        PROVE  u \in Approvers(request.step) \union lapsed
    <3>1. u \in User
      BY <1>1 DEF StepType
    <3>2. CASE u \in active
      BY <2>2, <2>3, <3>2 DEF Eligible
    <3>3. CASE u \notin active
      BY <3>1, <3>3 DEF HistoryOK
    <3> QED BY <3>2, <3>3
  <2> QED BY <1>4, <2>1, <2>2, <2>3 DEF QuorumOf
<1>5. CASE step.require = "COUNT"
  <2>1. Approvers(request.step) \subseteq User
    BY <1>1 DEF Approvers, StepType
  <2>2. IsFiniteSet(Approvers(request.step))
    BY <2>1, FS_Subset, ReviewAssumption
  <2>3. IsFiniteSet(chosen) /\ Cardinality(chosen) <= Cardinality(Approvers(request.step))
        /\ Cardinality(chosen) \in Nat /\ Cardinality(Approvers(request.step)) \in Nat
    BY <1>2, <2>2, FS_Subset, FS_CardinalityType
  <2>4. Cardinality(chosen) >= step.count
    BY <1>5 DEF StepApproved
  <2>5. step.count \in Nat
    BY <1>1 DEF StepType
  <2> HIDE DEF chosen, step
  <2>6. Cardinality(Approvers(request.step)) >= step.count
    BY <2>3, <2>4, <2>5
  <2> QED BY <1>5, <2>6 DEF QuorumOf, step
<1> QED BY <1>1, <1>3, <1>4, <1>5 DEF StepType
-----------------------------------------------------------------------------
(* The kinds of steps.                                                     *)

\* What the API and the administrators do: Reviews are added and changed,
\* none of them gets another Step, what was recorded stays.
Grown ==
  /\ DOMAIN review \subseteq DOMAIN review'
  /\ \A i \in DOMAIN review : review'[i].step = review[i].step
  /\ approved \subseteq approved' /\ lapsed \subseteq lapsed'

\* Events of Reviews stay events of Reviews when there are more of them.
LEMMA FeedGrows ==
  ASSUME NEW few, NEW many, few \subseteq many, NEW events \in Seq(EventType(few))
  PROVE  events \in Seq(EventType(many))
<1>1. \A i \in 1 .. Len(events) : events[i] \in EventType(many)
  <2> TAKE i \in 1 .. Len(events)
  <2>1. events[i] \in EventType(few)
    BY ElementOfSeq
  <2> QED BY <2>1 DEF EventType
<1>2. events \in [1 .. Len(events) -> EventType(many)] /\ Len(events) \in Nat
  BY <1>1, LenProperties
<1> QED BY <1>2, SeqDef

\* The Reviews move on under the controller.
LEMMA ApiKeeps ==
  ASSUME IInv, UNCHANGED <<stored, work>>, now' \in Nat, disturbances' \in Nat,
         ReviewOK', CallOK', HistoryOK', Grown
  PROVE  IInv'
<1>1. request' = request /\ version' = version /\ lastSteps' = lastSteps /\ work' = work
  BY DEF stored
<1>2. StoreOK'
  BY <1>1 DEF IInv, StoreOK, RequestOK
<1>3. HeldOK'
  BY <1>1 DEF IInv, HeldOK, Grown, Backed
<1>4. WorkOK'
  <2>1. QuorumOf(request.step) => QuorumOf(request.step)'
    BY <1>1, QuorumGrows DEF IInv, StoreOK, Grown
  <2>2. InReview' = InReview
    BY <1>1 DEF InReview
  <2>3. Current => Current'
    BY <1>1, <2>1, <2>2 DEF Current
  <2> QED BY <1>1, <2>3 DEF IInv, WorkOK
<1>5. LastOK'
  BY <1>1 DEF IInv, LastOK, LastStepsConsistent, Grown
<1> QED BY <1>2, <1>3, <1>4, <1>5 DEF IInv

\* The controller goes on, or stops, without a write.
LEMMA ControllerKeeps ==
  ASSUME IInv, UNCHANGED <<now, stored, active, review, call, history>>,
         disturbances' \in Nat, feed' \in Seq(EventType(DOMAIN review)), HeldOK', WorkOK'
  PROVE  IInv'
<1>1. /\ now' = now /\ request' = request /\ version' = version /\ lastSteps' = lastSteps
      /\ active' = active /\ review' = review /\ call' = call
      /\ approved' = approved /\ lapsed' = lapsed
  BY DEF stored, history
<1>2. StoreOK' /\ ReviewOK' /\ CallOK' /\ HistoryOK'
  BY <1>1 DEF IInv, StoreOK, RequestOK, ReviewOK, Backed, CallOK, HistoryOK
<1>3. LastOK'
  BY <1>1 DEF IInv, LastOK, LastStepsConsistent
<1> QED BY <1>2, <1>3 DEF IInv

\* Somebody else writes the Request: what the controller read is past.
LEMMA RequestKeeps ==
  ASSUME IInv, UNCHANGED <<now, lastSteps, active, reviews, call, work, history>>,
         disturbances' \in Nat, version' = version + 1, RequestOK',
         request'.step >= request.step,
         request.status = "REJECTED" => request'.status = "REJECTED"
  PROVE  IInv'
<1>1. /\ now' = now /\ lastSteps' = lastSteps /\ active' = active /\ review' = review
      /\ feed' = feed /\ call' = call /\ work' = work /\ approved' = approved /\ lapsed' = lapsed
  BY DEF reviews, history
<1>2. StoreOK' /\ ReviewOK' /\ CallOK' /\ HistoryOK' /\ HeldOK'
  BY <1>1 DEF IInv, StoreOK, ReviewOK, Backed, CallOK, HistoryOK, HeldOK
<1>3. WorkOK'
  <2>1. version \in Nat /\ (work.pc \in {"list", "write"} => work.rv \in Nat /\ work.rv <= version)
    BY DEF IInv, StoreOK, WorkOK, HeldOK, WorkType
  <2> QED BY <1>1, <2>1 DEF WorkOK
<1>4. LastOK'
  <2>1. request.step \in Nat /\ request'.step \in Nat
    BY <1>2 DEF IInv, StoreOK, RequestOK, RequestType
  <2>2. \A i \in DOMAIN lastSteps : lastSteps[i].step \in Nat
    <3>1. \A i \in DOMAIN lastSteps : lastSteps[i] \in Entry
      BY DEF IInv, LastOK
    <3> QED BY <3>1 DEF Entry
  <2>3. \A i \in DOMAIN lastSteps : lastSteps[i].step <= request'.step
    BY <2>1, <2>2 DEF IInv, LastOK, LastStepsConsistent
  <2> QED BY <1>1, <2>3 DEF IInv, LastOK, LastStepsConsistent
<1> QED BY <1>2, <1>3, <1>4 DEF IInv
-----------------------------------------------------------------------------
(* The reviewer API and the administrators.                                *)

\* The records that stand for nothing.
LEMMA NoReviewType == NoReview \in ReviewType /\ NoReview.id = 0
BY ReviewAssumption DEF NoReview, ReviewType, Decision

\* A call that is not in flight.
LEMMA NoCallOK == NoCall \in CallType /\ NoCall.seen = NoReview /\ NoCall.pc = "idle"
BY NoReviewType, ReviewAssumption DEF NoCall, CallType

\* What a call may hold.
CallFine(one) ==
  /\ one \in CallType
  /\ one.seen = NoReview \/ one.seen.id \in DOMAIN review
  /\ one.pc = "meta" => one.seen # NoReview

\* One call goes on.
LEMMA CallMoves ==
  ASSUME IInv, NEW c \in Caller, NEW one, CallFine(one),
         DOMAIN review \subseteq DOMAIN review', call' = [call EXCEPT ![c] = one]
  PROVE  CallOK'
BY DEF IInv, CallOK, CallFine

\* A Review is written over: its Step stays, its approval is recorded.
LEMMA Rewritten ==
  ASSUME IInv, NEW i \in DOMAIN review, NEW item \in ReviewType, NEW event,
         item.id = i, item.step = review[i].step, Backed(item, approved'),
         event \in EventType(DOMAIN review),
         review' = [review EXCEPT ![i] = item], feed' = Append(feed, event),
         approved \subseteq approved', lapsed' = lapsed
  PROVE  ReviewOK' /\ Grown
<1>1. review \in Seq(ReviewType) /\ feed \in Seq(EventType(DOMAIN review))
  BY DEF IInv, ReviewOK
<1>2. review' \in Seq(ReviewType) /\ DOMAIN review' = DOMAIN review
  BY <1>1
<1>3. feed' \in Seq(EventType(DOMAIN review'))
  BY <1>1, <1>2
<1>4. ASSUME NEW j \in DOMAIN review'
      PROVE  review'[j].id = j /\ Backed(review'[j], approved')
  <2>1. CASE j = i
    BY <2>1, <1>2
  <2>2. CASE j # i
    BY <2>2, <1>2 DEF IInv, ReviewOK, Backed
  <2> QED BY <2>1, <2>2
<1> QED BY <1>2, <1>3, <1>4 DEF ReviewOK, Grown

\* The history that goes with a write of a Review.
LEMMA RecordedType ==
  ASSUME HistoryOK, NEW item \in ReviewType, Recorded(item), UNCHANGED <<active, lapsed>>
  PROVE  HistoryOK' /\ approved \subseteq approved' /\ Backed(item, approved')
BY DEF HistoryOK, Recorded, Backed, ReviewType

\* Reading changes nothing but the call.
LEMMA ReadReviewStep ==
  ASSUME IInv, NEW c \in Caller, NEW u \in User, ReadReview(c, u)
  PROVE  IInv'
<1>1. PICK item \in {NoReview} \union {review[i] : i \in DOMAIN review} :
        call' = [call EXCEPT ![c] = [pc |-> "write", user |-> u, step |-> request.step, seen |-> item]]
  BY DEF ReadReview, OwnReviews
<1>2. item \in ReviewType /\ (item = NoReview \/ item.id \in DOMAIN review)
  BY NoReviewType DEF IInv, ReviewOK
<1>3. request.step \in Nat
  BY DEF IInv, StoreOK, RequestOK, RequestType
<1>4. UNCHANGED <<now, stored, active, reviews, work, disturbances, history>>
  BY DEF ReadReview
<1>5. CallOK'
  <2> DEFINE one == [pc |-> "write", user |-> u, step |-> request.step, seen |-> item]
  <2>1. CallFine(one)
    BY <1>2, <1>3 DEF CallFine, CallType
  <2> HIDE DEF one
  <2>2. call' = [call EXCEPT ![c] = one] /\ review' = review
    BY <1>1, <1>4 DEF one, reviews
  <2> QED BY <2>1, <2>2, CallMoves
<1>6. ReviewOK' /\ HistoryOK' /\ Grown
  BY <1>4 DEF IInv, ReviewOK, Backed, HistoryOK, Grown, reviews, history
<1> QED BY <1>4, <1>5, <1>6, ApiKeeps DEF IInv, StoreOK

\* A new Review.
LEMMA AddReviewStep ==
  ASSUME IInv, NEW c \in Caller, NEW decision \in Decision, AddReview(c, decision)
  PROVE  IInv'
<1> DEFINE item == [id |-> Len(review) + 1, user |-> call[c].user, step |-> call[c].step,
                    decision |-> decision, rv |-> 1, live |-> TRUE]
           event == Event(item, FALSE)
<1>1. /\ review' = Append(review, item) /\ feed' = Append(feed, event) /\ Recorded(item)
      /\ call' = [call EXCEPT ![c] = NoCall]
      /\ UNCHANGED <<now, stored, active, work, disturbances, lapsed>>
  BY DEF AddReview, Return
<1>2. call[c] \in CallType /\ review \in Seq(ReviewType) /\ feed \in Seq(EventType(DOMAIN review))
  BY DEF IInv, CallOK, ReviewOK
<1>3. item \in ReviewType /\ item.id = Len(review) + 1
  BY <1>2 DEF CallType, ReviewType
<1>4. HistoryOK' /\ approved \subseteq approved' /\ Backed(item, approved')
  BY <1>1, <1>3, RecordedType DEF IInv
<1> HIDE DEF item
<1>5. /\ review' \in Seq(ReviewType) /\ DOMAIN review \subseteq DOMAIN review'
      /\ DOMAIN review' = 1 .. Len(review) + 1 /\ Len(review) \in Nat
      /\ review'[Len(review) + 1] = item
      /\ \A j \in 1 .. Len(review) : review'[j] = review[j]
      /\ DOMAIN review = 1 .. Len(review)
  BY <1>1, <1>2, <1>3
<1>6. event \in EventType(DOMAIN review')
  BY <1>3, <1>5 DEF Event, EventType
<1>7. feed' \in Seq(EventType(DOMAIN review'))
  <2>1. feed \in Seq(EventType(DOMAIN review'))
    BY <1>2, <1>5, FeedGrows
  <2> HIDE DEF event
  <2> QED BY <1>1, <1>6, <2>1
<1>8. ASSUME NEW j \in DOMAIN review'
      PROVE  review'[j].id = j /\ Backed(review'[j], approved')
  <2>1. CASE j = Len(review) + 1
    BY <1>3, <1>4, <1>5, <2>1
  <2>2. CASE j # Len(review) + 1
    <3>1. j \in DOMAIN review /\ review'[j] = review[j]
      BY <1>5, <2>2
    <3> QED BY <1>4, <3>1 DEF IInv, ReviewOK, Backed
  <2> QED BY <2>1, <2>2
<1>9. ReviewOK' /\ Grown
  BY <1>1, <1>4, <1>5, <1>7, <1>8 DEF ReviewOK, Grown
<1>10. CallOK'
  BY <1>1, <1>5, NoCallOK, CallMoves DEF CallFine
<1> QED BY <1>1, <1>4, <1>9, <1>10, ApiKeeps DEF IInv, StoreOK

\* Another decision for a Review, if it is still the one that was read.
LEMMA ChangeReviewStep ==
  ASSUME IInv, NEW c \in Caller, NEW decision \in Decision, ChangeReview(c, decision)
  PROVE  IInv'
<1> DEFINE seen == call[c].seen
           item == [seen EXCEPT !.decision = decision, !.rv = @ + 1]
           goes == [call[c] EXCEPT !.pc = "meta", !.seen = item]
<1>1. /\ seen # NoReview /\ seen \in ReviewType /\ call[c] \in CallType
      /\ call \in [Caller -> CallType] /\ seen.id \in DOMAIN review
  BY DEF ChangeReview, IInv, CallOK, CallType
<1>2. UNCHANGED <<now, stored, active, work, lapsed>>
  BY DEF ChangeReview
<1>3. CASE review[seen.id] = seen
  <2>1. /\ review' = [review EXCEPT ![seen.id] = item] /\ feed' = Append(feed, Event(item, TRUE))
        /\ Recorded(item)
        /\ \/ call' = [call EXCEPT ![c] = NoCall] /\ disturbances' = disturbances
           \/ call' = [call EXCEPT ![c].pc = "meta", ![c].seen = item]
              /\ disturbances' = disturbances + 1
    BY <1>3 DEF ChangeReview, Return, GoOn, Disturb
  <2>2. item \in ReviewType /\ item.id = seen.id /\ item.step = seen.step
    <3>1. seen.rv + 1 \in Nat
      BY <1>1 DEF ReviewType
    <3> HIDE DEF seen
    <3> QED BY <1>1, <3>1 DEF ReviewType
  <2>3. call' = [call EXCEPT ![c] = NoCall] \/ call' = [call EXCEPT ![c] = goes]
    BY <1>1, <2>1
  <2>4. HistoryOK' /\ approved \subseteq approved' /\ Backed(item, approved')
    BY <1>2, <2>1, <2>2, RecordedType DEF IInv
  <2> HIDE DEF item
  <2>5. Event(item, TRUE) \in EventType(DOMAIN review)
    BY <1>1, <2>2 DEF Event, EventType
  <2>6. ReviewOK' /\ Grown
    BY <1>1, <1>2, <1>3, <2>1, <2>2, <2>4, <2>5, Rewritten
  <2>7. goes \in CallType /\ goes.seen = item
    BY <1>1, <2>2 DEF CallType
  <2>8. item # NoReview
    BY <1>1, <2>2, NoReviewType DEF IInv, ReviewOK
  <2>9. CallFine(goes) /\ CallFine(NoCall)
    BY <1>1, <2>2, <2>7, <2>8, NoCallOK DEF CallFine
  <2> HIDE DEF goes
  <2>10. CallOK'
    BY <2>3, <2>6, <2>9, CallMoves DEF Grown
  <2>11. disturbances' \in Nat
    BY <2>1 DEF IInv, StoreOK
  <2> QED BY <1>2, <2>4, <2>6, <2>10, <2>11, ApiKeeps DEF IInv, StoreOK
<1>4. CASE review[seen.id] # seen
  <2>1. call' = [call EXCEPT ![c] = NoCall] /\ UNCHANGED <<reviews, approved, disturbances>>
    BY <1>4 DEF ChangeReview, Return
  <2>2. ReviewOK' /\ HistoryOK' /\ Grown
    BY <1>2, <2>1 DEF IInv, ReviewOK, Backed, HistoryOK, Grown, reviews
  <2>3. CallOK'
    BY <2>1, NoCallOK, CallMoves DEF CallFine, reviews
  <2> QED BY <1>2, <2>1, <2>2, <2>3, ApiKeeps DEF IInv, StoreOK
<1> QED BY <1>3, <1>4

\* The decision is kept.
LEMMA KeepReviewStep ==
  ASSUME IInv, NEW c \in Caller, KeepReview(c)
  PROVE  IInv'
<1> DEFINE goes == [call[c] EXCEPT !.pc = "meta", !.seen = call[c].seen]
<1>1. /\ call[c].seen # NoReview /\ call[c] \in CallType
      /\ call \in [Caller -> CallType] /\ call[c].seen.id \in DOMAIN review
  BY DEF KeepReview, IInv, CallOK
<1>2. /\ UNCHANGED <<now, stored, active, reviews, work, history>>
      /\ \/ call' = [call EXCEPT ![c] = NoCall] /\ disturbances' = disturbances
         \/ call' = [call EXCEPT ![c].pc = "meta", ![c].seen = call[c].seen]
            /\ disturbances' = disturbances + 1
  BY DEF KeepReview, Return, GoOn, Disturb
<1>3. call' = [call EXCEPT ![c] = NoCall] \/ call' = [call EXCEPT ![c] = goes]
  BY <1>1, <1>2
<1>4. CallFine(goes) /\ CallFine(NoCall)
  BY <1>1, NoCallOK DEF CallFine, CallType
<1> HIDE DEF goes
<1>5. CallOK'
  BY <1>2, <1>3, <1>4, CallMoves DEF reviews
<1>6. ReviewOK' /\ HistoryOK' /\ Grown
  BY <1>2 DEF IInv, ReviewOK, Backed, HistoryOK, Grown, reviews, history
<1>7. disturbances' \in Nat
  BY <1>2 DEF IInv, StoreOK
<1> QED BY <1>2, <1>5, <1>6, <1>7, ApiKeeps DEF IInv, StoreOK

\* The metadata of a Review, which is not its decision.
LEMMA ChangeMetadataStep ==
  ASSUME IInv, NEW c \in Caller, ChangeMetadata(c)
  PROVE  IInv'
<1> DEFINE seen == call[c].seen
           item == [seen EXCEPT !.rv = @ + 1]
<1>1. seen # NoReview /\ seen \in ReviewType /\ seen.id \in DOMAIN review
  BY DEF ChangeMetadata, IInv, CallOK, CallType
<1>2. call' = [call EXCEPT ![c] = NoCall] /\ UNCHANGED <<now, stored, active, work, disturbances, history>>
  BY DEF ChangeMetadata, Return
<1>3. CASE review[seen.id] = seen
  <2>1. review' = [review EXCEPT ![seen.id] = item] /\ feed' = Append(feed, Event(seen, FALSE))
    BY <1>1, <1>3 DEF ChangeMetadata, IInv, ReviewOK
  <2>2. item \in ReviewType /\ item.id = seen.id /\ item.step = seen.step
    BY <1>1 DEF ReviewType
  <2>3. Backed(item, approved')
    <3>1. Backed(seen, approved)
      BY <1>1, <1>3 DEF IInv, ReviewOK
    <3>2. item.decision = seen.decision /\ item.step = seen.step /\ item.user = seen.user
      BY <1>1 DEF ReviewType
    <3> QED BY <1>2, <3>1, <3>2 DEF Backed, history
  <2> HIDE DEF item
  <2>4. Event(seen, FALSE) \in EventType(DOMAIN review)
    BY <1>1 DEF Event, EventType
  <2>5. ReviewOK' /\ Grown
    BY <1>1, <1>2, <1>3, <2>1, <2>2, <2>3, <2>4, Rewritten DEF history
  <2>6. CallOK' /\ HistoryOK'
    BY <1>2, <2>5, NoCallOK, CallMoves DEF CallFine, Grown, IInv, HistoryOK, history
  <2> QED BY <1>2, <2>5, <2>6, ApiKeeps DEF IInv, StoreOK
<1>4. CASE review[seen.id] # seen
  <2>1. UNCHANGED reviews
    BY <1>4 DEF ChangeMetadata
  <2>2. ReviewOK' /\ HistoryOK' /\ Grown
    BY <1>2, <2>1 DEF IInv, ReviewOK, Backed, HistoryOK, Grown, reviews, history
  <2>3. CallOK'
    BY <1>2, <2>1, NoCallOK, CallMoves DEF CallFine, reviews
  <2> QED BY <1>2, <2>2, <2>3, ApiKeeps DEF IInv, StoreOK
<1> QED BY <1>3, <1>4

\* A deleted Review stays in the sequence and is no longer listed.
LEMMA DeleteReviewStep ==
  ASSUME IInv, NEW i \in DOMAIN review, DeleteReview(i)
  PROVE  IInv'
<1> DEFINE item == [review[i] EXCEPT !.live = FALSE]
<1>1. /\ UNCHANGED <<now, stored, active, feed, call, work, history>>
      /\ disturbances' = disturbances + 1
      /\ review \in Seq(ReviewType) /\ review[i] \in ReviewType
  BY DEF DeleteReview, Disturb, IInv, ReviewOK
<1>2. review' = [review EXCEPT ![i] = item]
  BY <1>1 DEF DeleteReview
<1>3. /\ item \in ReviewType /\ item.id = review[i].id /\ item.step = review[i].step
      /\ item.user = review[i].user /\ item.decision = review[i].decision
  BY <1>1 DEF ReviewType
<1> HIDE DEF item
<1>4. review' \in Seq(ReviewType) /\ DOMAIN review' = DOMAIN review
  BY <1>1, <1>2, <1>3
<1>5. ReviewOK' /\ Grown
  BY <1>1, <1>2, <1>3, <1>4 DEF IInv, ReviewOK, Backed, Grown, history
<1>6. CallOK' /\ HistoryOK'
  BY <1>1, <1>4 DEF IInv, CallOK, HistoryOK, history
<1> QED BY <1>1, <1>5, <1>6, ApiKeeps DEF IInv, StoreOK
-----------------------------------------------------------------------------
(* The reviews controller.                                                 *)

\* The controller at rest.
LEMMA NoWorkType == NoWork \in WorkType /\ NoWork.pc = "idle"
BY NoReviewType DEF NoWork, WorkType

\* The controller rests: it holds nothing.
LEMMA Rests ==
  ASSUME IInv, UNCHANGED <<now, stored, active, review, call, history>>,
         disturbances' \in Nat, feed' \in Seq(EventType(DOMAIN review)), work' = NoWork
  PROVE  IInv'
<1>1. HeldOK' /\ WorkOK'
  BY NoWorkType DEF HeldOK, WorkOK
<1> QED BY <1>1, ControllerKeeps

\* The Review of an event is read as it is now.
LEMMA TakeEventStep ==
  ASSUME IInv, TakeEvent
  PROVE  IInv'
<1> DEFINE event == Head(feed)
           rev == review[event.id]
           next == [NoWork EXCEPT !.pc = "request", !.force = event.force, !.rev = rev]
<1>1. /\ UNCHANGED <<now, stored, active, review, call, disturbances, history>>
      /\ feed # <<>> /\ feed' = Tail(feed) /\ (work' = NoWork \/ work' = next)
  BY DEF TakeEvent
<1>2. feed' \in Seq(EventType(DOMAIN review)) /\ event \in EventType(DOMAIN review)
  BY <1>1 DEF IInv, ReviewOK
<1>3. disturbances' \in Nat
  BY <1>1 DEF IInv, StoreOK
<1>4. CASE work' = NoWork
  BY <1>1, <1>2, <1>3, <1>4, Rests
<1>5. CASE work' = next
  <2>1. event.id \in DOMAIN review /\ event.force \in BOOLEAN
    BY <1>2 DEF EventType
  <2>2. rev \in ReviewType /\ rev.id = event.id /\ Backed(rev, approved)
    BY <2>1 DEF IInv, ReviewOK
  <2>3. next \in WorkType /\ next.pc = "request" /\ next.rev = rev
    BY <2>1, <2>2, NoWorkType DEF WorkType
  <2> HIDE DEF next
  <2>4. HeldOK' /\ WorkOK'
    BY <1>1, <1>5, <2>1, <2>2, <2>3 DEF HeldOK, WorkOK, Backed, history
  <2> QED BY <1>1, <1>2, <1>3, <2>4, ControllerKeeps
<1> QED BY <1>1, <1>4, <1>5

\* The Request is read: until it changes it waits at the Step of the Review.
LEMMA ReadRequestStep ==
  ASSUME IInv, ReadRequest
  PROVE  IInv'
<1> DEFINE rejects == [work EXCEPT !.pc = "write", !.rv = version, !.outcome = "reject"]
           lists == [work EXCEPT !.pc = "list", !.rv = version]
<1>1. /\ UNCHANGED <<now, stored, active, reviews, call, disturbances, history>>
      /\ work.pc = "request"
      /\ \/ work' = NoWork
         \/ /\ InReview /\ work.rev.step = request.step
            /\ IF work.rev.decision = "REJECT" THEN work' = rejects ELSE work' = lists
  BY DEF ReadRequest
<1>2. /\ UNCHANGED <<request, version, review, approved>>
      /\ disturbances' \in Nat /\ feed' \in Seq(EventType(DOMAIN review))
  BY <1>1 DEF stored, reviews, history, IInv, StoreOK, ReviewOK
<1>3. version \in Nat /\ work \in WorkType
  BY DEF IInv, StoreOK, HeldOK
<1>4. CASE work' = NoWork
  BY <1>1, <1>2, <1>4, Rests DEF reviews
<1>5. CASE work' # NoWork
  <2>1. InReview /\ work.rev.step = request.step /\ (work' = rejects \/ work' = lists)
        /\ (work.rev.decision = "REJECT" => work' = rejects)
    BY <1>1, <1>5
  <2>2. /\ rejects \in WorkType /\ rejects.pc = "write" /\ rejects.outcome = "reject"
        /\ rejects.rev = work.rev /\ rejects.rv = version
    BY <1>3 DEF WorkType
  <2>3. lists \in WorkType /\ lists.pc = "list" /\ lists.rev = work.rev /\ lists.rv = version
    BY <1>3 DEF WorkType
  <2> HIDE DEF rejects, lists
  <2>4. work' \in WorkType /\ work'.rev = work.rev /\ work'.rv = version
    BY <2>1, <2>2, <2>3
  <2>5. HeldOK'
    BY <1>1, <1>2, <2>4 DEF IInv, HeldOK, Backed
  <2>6. InReview'
    BY <1>2, <2>1 DEF InReview
  <2>7. Current'
    BY <1>2, <2>1, <2>2, <2>3, <2>4, <2>6 DEF Current
  <2>8. WorkOK'
    BY <1>2, <1>3, <2>4, <2>7 DEF WorkOK
  <2> QED BY <1>1, <1>2, <2>5, <2>8, ControllerKeeps DEF reviews
<1> QED BY <1>4, <1>5

\* The Reviews are listed: the Step is passed only by its quorum.
LEMMA ListReviewsStep ==
  ASSUME IInv, ListReviews
  PROVE  IInv'
<1> DEFINE outcome == IF version # work.rv THEN "keep"
                      ELSE IF StepRejected(StepAt(request.step), CurrentStepReviews(work.rev)) THEN "reject"
                      ELSE IF StepApproved(StepAt(request.step), CurrentStepReviews(work.rev)) THEN "pass"
                      ELSE "keep"
<1>1. /\ UNCHANGED <<now, stored, active, reviews, call, disturbances, history>>
      /\ work.pc = "list" /\ work' = [work EXCEPT !.pc = "write", !.outcome = outcome]
  BY DEF ListReviews
<1>2. /\ UNCHANGED <<request, version, review, approved, lapsed>>
      /\ disturbances' \in Nat /\ feed' \in Seq(EventType(DOMAIN review))
  BY <1>1 DEF stored, reviews, history, IInv, StoreOK, ReviewOK
<1>3. work.rv <= version /\ (version = work.rv => Current)
  BY <1>1 DEF IInv, WorkOK
<1>4. outcome \in {"keep", "pass", "reject"}
  OBVIOUS
<1>5. ASSUME version = work.rv, outcome = "pass"
      PROVE  QuorumOf(request.step)
  <2>1. StepApproved(StepAt(request.step), CurrentStepReviews(work.rev))
    BY <1>5
  <2> QED BY <1>1, <1>3, <1>5, <2>1, ApprovedByQuorum DEF IInv, StoreOK, Current
<1> HIDE DEF outcome
<1>6. /\ work' \in WorkType /\ work'.pc = "write" /\ work'.outcome = outcome
      /\ work'.rev = work.rev /\ work'.rv = work.rv
  BY <1>1, <1>4 DEF IInv, HeldOK, WorkType
<1>7. HeldOK'
  BY <1>1, <1>2, <1>6 DEF IInv, HeldOK, Backed
<1>8. QuorumOf(request.step) => QuorumOf(request.step)'
  BY <1>1, <1>2, QuorumGrows DEF IInv, StoreOK, HistoryOK, history
<1>9. WorkOK'
  <2>1. ASSUME version = work.rv
        PROVE  Current'
    <3>1. /\ InReview /\ work.rev.step = request.step /\ work.rev.decision # "REJECT"
      BY <1>1, <1>3, <2>1 DEF Current
    <3>2. InReview'
      BY <1>2, <3>1 DEF InReview
    <3> QED BY <1>2, <1>5, <1>6, <1>8, <2>1, <3>1, <3>2 DEF Current
  <2> QED BY <1>2, <1>3, <1>6, <2>1 DEF WorkOK
<1> QED BY <1>1, <1>2, <1>7, <1>9, ControllerKeeps DEF reviews

\* What the controller writes into a Request it read in review.
LEMMA OutcomeType ==
  ASSUME RequestOK, now \in Nat, InReview, NEW outcome \in {"keep", "pass", "reject"}
  PROVE  LET next == Outcome(outcome)
         IN  /\ next \in RequestType /\ next.rule = request.rule
             /\ next.step < Len(request.rule.steps) /\ next.step >= request.step
             /\ outcome = "reject" => next.status = "REJECTED"
             /\ outcome # "reject" => next.status # "REJECTED"
             /\ outcome # "pass" => next.step = request.step /\ next.status # "APPROVED"
<1>1. /\ request \in RequestType /\ request.step < Len(request.rule.steps) /\ request.step \in Nat
      /\ request.status = "PENDING"
  BY DEF RequestOK, RequestType, InReview
<1>2. "REJECTED" \in Status /\ "APPROVED" \in Status
  BY DEF Status, Final
<1>3. CASE outcome = "reject"
  BY <1>1, <1>2, <1>3, SetStateType DEF Outcome
<1>4. CASE outcome = "pass"
  BY <1>1, <1>2, <1>4, GotoNextType DEF Outcome
<1>5. CASE outcome = "keep"
  BY <1>1, <1>5 DEF Outcome
<1> QED BY <1>3, <1>4, <1>5

\* LastSteps with one more Review of the current Step stays a faithful
\* account.
LEMMA NotedType ==
  ASSUME LastOK, NEW rev \in ReviewType, rev.id \in DOMAIN review,
         rev.step = review[rev.id].step
  PROVE  /\ Noted(rev) \in Seq(Entry)
         /\ \A i \in DOMAIN Noted(rev) :
              /\ Noted(rev)[i].id \in DOMAIN review
              /\ Noted(rev)[i].step = review[Noted(rev)[i].id].step
              /\ Noted(rev)[i].decision = "REJECT" =>
                   rev.decision = "REJECT" \/ request.status = "REJECTED"
         /\ \A i \in DOMAIN Noted(rev) : Noted(rev)[i].step <= request.step \/ Noted(rev)[i].step = rev.step
         /\ rev.step = request.step =>
              \A i, j \in DOMAIN Noted(rev) :
                i < j => Noted(rev)[i].id # Noted(rev)[j].id /\ Noted(rev)[i].step <= Noted(rev)[j].step
<1> DEFINE entry == [id |-> rev.id, step |-> rev.step, decision |-> rev.decision]
           noted == Noted(rev)
<1>1. entry \in Entry /\ entry.id = rev.id /\ entry.step = rev.step /\ entry.decision = rev.decision
  BY DEF Entry, ReviewType
<1>2. /\ lastSteps \in Seq(Entry)
      /\ \A i \in DOMAIN lastSteps :
           /\ lastSteps[i].id \in DOMAIN review
           /\ lastSteps[i].step = review[lastSteps[i].id].step
           /\ lastSteps[i].decision = "REJECT" => request.status = "REJECTED"
           /\ lastSteps[i].step <= request.step
      /\ \A i, j \in DOMAIN lastSteps :
           i < j => lastSteps[i].id # lastSteps[j].id /\ lastSteps[i].step <= lastSteps[j].step
  BY DEF LastOK, LastStepsConsistent
<1>3. CASE Applied(rev) = {}
  <2>1. noted = Append(lastSteps, entry)
    BY <1>3 DEF Noted
  <2>2. \A i \in DOMAIN lastSteps : lastSteps[i].id # rev.id
    BY <1>3 DEF Applied
  <2> HIDE DEF entry, noted
  <2>3. /\ noted \in Seq(Entry) /\ DOMAIN noted = 1 .. Len(lastSteps) + 1
        /\ DOMAIN lastSteps = 1 .. Len(lastSteps) /\ Len(lastSteps) \in Nat
        /\ noted[Len(lastSteps) + 1] = entry
        /\ \A i \in 1 .. Len(lastSteps) : noted[i] = lastSteps[i]
    BY <1>1, <1>2, <2>1
  <2>4. ASSUME NEW i \in DOMAIN noted, ~(i \in DOMAIN lastSteps /\ noted[i] = lastSteps[i])
        PROVE  i = Len(lastSteps) + 1 /\ noted[i] = entry
    <3>1. i \in 1 .. Len(lastSteps) + 1 /\ i \notin 1 .. Len(lastSteps)
      BY <2>3, <2>4
    <3> QED BY <2>3, <3>1
  <2>5. ASSUME NEW i \in DOMAIN noted, NEW j \in DOMAIN noted, i < j
        PROVE  i \in DOMAIN lastSteps
    BY <2>3, <2>5
  <2> QED BY <1>1, <1>2, <2>2, <2>3, <2>4, <2>5 DEF noted
<1>4. CASE Applied(rev) # {}
  <2>1. noted = [i \in DOMAIN lastSteps |-> IF lastSteps[i].id = rev.id THEN entry ELSE lastSteps[i]]
    BY <1>4 DEF Noted
  <2> HIDE DEF entry, noted
  <2>2. /\ DOMAIN noted = DOMAIN lastSteps
        /\ \A i \in DOMAIN noted : noted[i] = (IF lastSteps[i].id = rev.id THEN entry ELSE lastSteps[i])
    BY <2>1
  <2>3. \A i \in DOMAIN noted : noted[i].id = lastSteps[i].id /\ noted[i].step = lastSteps[i].step
                                /\ noted[i] \in Entry
    BY <1>1, <1>2, <2>2
  <2>4. noted \in Seq(Entry)
    <3>1. noted \in [1 .. Len(lastSteps) -> Entry] /\ Len(lastSteps) \in Nat
      BY <1>2, <2>1, <2>2, <2>3
    <3> QED BY <3>1, SeqDef
  <2> QED BY <1>1, <1>2, <2>2, <2>3, <2>4 DEF noted
<1> QED BY <1>3, <1>4

\* The write of the Request, if it is still the one that was read.
LEMMA WriteRequestStep ==
  ASSUME IInv, WriteRequest
  PROVE  IInv'
<1>1. /\ UNCHANGED <<now, active, reviews, call, disturbances, history>>
      /\ work.pc = "write" /\ work' = NoWork
      /\ \/ /\ version = work.rv /\ request' = Outcome(work.outcome)
            /\ lastSteps' = Noted(work.rev) /\ version' = version + 1
         \/ UNCHANGED stored
  BY DEF WriteRequest
<1>2. disturbances' \in Nat /\ feed' \in Seq(EventType(DOMAIN review)) /\ UNCHANGED <<review, feed>>
  BY <1>1 DEF reviews, IInv, StoreOK, ReviewOK
<1>3. CASE UNCHANGED stored
  BY <1>1, <1>2, <1>3, Rests
<1>4. CASE /\ version = work.rv /\ request' = Outcome(work.outcome)
           /\ lastSteps' = Noted(work.rev) /\ version' = version + 1
  <2>1. Current /\ RequestOK /\ now \in Nat /\ version \in Nat
    BY <1>1, <1>4 DEF IInv, WorkOK, StoreOK
  <2>2. work \in WorkType /\ work.rev.id \in DOMAIN review /\ work.rev.step = review[work.rev.id].step
    BY <1>1 DEF IInv, HeldOK
  <2>3. work.outcome \in {"keep", "pass", "reject"} /\ work.rev \in ReviewType
    BY <2>2 DEF WorkType
  <2>4. InReview /\ work.rev.step = request.step /\ (work.rev.decision = "REJECT" => work.outcome = "reject")
    BY <2>1 DEF Current
  <2>5. /\ request' \in RequestType /\ request'.rule = request.rule
        /\ request'.step < Len(request.rule.steps) /\ request'.step >= request.step
        /\ work.outcome = "reject" => request'.status = "REJECTED"
    BY <1>4, <2>1, <2>3, <2>4, OutcomeType
  <2>6. StoreOK' /\ ReviewOK' /\ CallOK' /\ HistoryOK' /\ HeldOK' /\ WorkOK'
    BY <1>1, <1>2, <1>4, <2>1, <2>5, NoWorkType
    DEF IInv, StoreOK, RequestOK, ReviewOK, Backed, CallOK, HistoryOK, HeldOK, WorkOK, history
  <2>7. LastOK'
    <3> DEFINE noted == Noted(work.rev)
    <3>1. request.step \in Nat /\ request'.step \in Nat /\ request.status # "REJECTED"
      BY <2>1, <2>4, <2>5 DEF RequestOK, RequestType, InReview
    <3>2. /\ noted \in Seq(Entry)
          /\ \A i \in DOMAIN noted :
               /\ noted[i].id \in DOMAIN review
               /\ noted[i].step = review[noted[i].id].step
               /\ noted[i].decision = "REJECT" =>
                    work.rev.decision = "REJECT" \/ request.status = "REJECTED"
          /\ \A i \in DOMAIN noted : noted[i].step <= request.step \/ noted[i].step = work.rev.step
          /\ \A i, j \in DOMAIN noted :
               i < j => noted[i].id # noted[j].id /\ noted[i].step <= noted[j].step
      BY <2>2, <2>3, <2>4, NotedType DEF IInv
    <3> HIDE DEF noted
    <3>3. lastSteps' = noted
      BY <1>4 DEF noted
    <3>4. \A i \in DOMAIN noted : noted[i].step <= request'.step
      <4>1. \A i \in DOMAIN noted : noted[i].step \in Nat
        <5>1. \A i \in DOMAIN noted : noted[i] \in Entry
          BY <3>2
        <5> QED BY <5>1 DEF Entry
      <4> QED BY <2>4, <2>5, <3>1, <3>2, <4>1
    <3>5. \A i \in DOMAIN noted : noted[i].decision = "REJECT" => request'.status = "REJECTED"
      BY <2>4, <2>5, <3>1, <3>2
    <3> QED BY <1>2, <3>2, <3>3, <3>4, <3>5 DEF LastOK, LastStepsConsistent
  <2> QED BY <2>6, <2>7 DEF IInv
<1> QED BY <1>1, <1>3, <1>4
-----------------------------------------------------------------------------
(* The rest of the system.                                                 *)

\* The owner, the administrator or the watcher writes a pending Request.
LEMMA PendingStep ==
  ASSUME IInv, UNCHANGED <<now, lastSteps, active, reviews, call, work, history>>,
         disturbances' \in Nat, version' = version + 1, request.status = "PENDING",
         request' \in RequestType, request'.rule = request.rule,
         request'.step < Len(request.rule.steps), request'.step >= request.step
  PROVE  IInv'
<1>1. RequestOK'
  BY DEF RequestOK
<1> QED BY <1>1, RequestKeeps

\* An edit changes only the version.
LEMMA EditRequestStep ==
  ASSUME IInv, EditRequest
  PROVE  IInv'
<1>1. /\ UNCHANGED <<now, request, lastSteps, active, reviews, call, work, history>>
      /\ request.status = "PENDING" /\ version' = version + 1
      /\ disturbances' = disturbances + 1
  BY DEF EditRequest, Disturb
<1>2. request \in RequestType /\ request.step < Len(request.rule.steps) /\ request.step \in Nat
      /\ disturbances' \in Nat
  BY <1>1 DEF IInv, StoreOK, RequestOK, RequestType
<1>3. request'.step >= request.step
  BY <1>1, <1>2
<1> QED BY <1>1, <1>2, <1>3, PendingStep

\* A cancellation or a revocation.
LEMMA EndRequestStep ==
  ASSUME IInv, NEW status \in {"CANCELLED", "REVOKED"}, EndRequest(status)
  PROVE  IInv'
<1>1. /\ UNCHANGED <<now, lastSteps, active, reviews, call, work, history>>
      /\ request.status = "PENDING" /\ version' = version + 1
      /\ request' = SetState(request, status, now) /\ disturbances' = disturbances + 1
  BY DEF EndRequest, Disturb
<1>2. /\ request \in RequestType /\ request.step < Len(request.rule.steps) /\ request.step \in Nat
      /\ now \in Nat /\ disturbances' \in Nat /\ status \in Status
  BY <1>1 DEF IInv, StoreOK, RequestOK, RequestType, Status, Final
<1>3. request' \in RequestType /\ request'.step = request.step /\ request'.rule = request.rule
  BY <1>1, <1>2, SetStateType
<1>4. request'.step >= request.step /\ request'.step < Len(request.rule.steps)
  BY <1>2, <1>3
<1> QED BY <1>1, <1>2, <1>3, <1>4, PendingStep

\* A timeout of the Step or of the wait.
LEMMA SweepRequestStep ==
  ASSUME IInv, SweepRequest
  PROVE  IInv'
<1>1. /\ UNCHANGED <<now, lastSteps, active, reviews, call, work, history>>
      /\ request.status = "PENDING" /\ version' = version + 1
      /\ request' = Checked(request, now) /\ disturbances' = disturbances
  BY DEF SweepRequest
<1>2. RequestOK /\ now \in Nat /\ disturbances' \in Nat
  BY <1>1 DEF IInv, StoreOK
<1>3. /\ request' \in RequestType /\ request'.rule = request.rule
      /\ request'.step < Len(request.rule.steps) /\ request'.step >= request.step
  BY <1>1, <1>2, CheckedPending
<1> QED BY <1>1, <1>2, <1>3, PendingStep

\* A user who is no longer active has lapsed.
LEMMA ToggleStep ==
  ASSUME IInv, NEW u \in User, Toggle(u)
  PROVE  IInv'
<1>1. /\ UNCHANGED <<now, stored, reviews, call, work, approved>>
      /\ active' = IF u \in active THEN active \ {u} ELSE active \union {u}
      /\ lapsed' = lapsed \union {u} /\ disturbances' = disturbances + 1
  BY DEF Toggle, Disturb
<1>2. HistoryOK'
  BY <1>1 DEF IInv, HistoryOK
<1>3. ReviewOK' /\ CallOK' /\ Grown
  BY <1>1 DEF IInv, ReviewOK, Backed, CallOK, Grown, reviews
<1>4. now' \in Nat /\ disturbances' \in Nat
  BY <1>1 DEF IInv, StoreOK
<1> QED BY <1>1, <1>2, <1>3, <1>4, ApiKeeps

\* The clock.
LEMMA TickStep ==
  ASSUME IInv, Tick
  PROVE  IInv'
<1>1. UNCHANGED <<stored, active, reviews, call, work, disturbances, history>> /\ now' = now + 1
  BY DEF Tick
<1>2. ReviewOK' /\ CallOK' /\ HistoryOK' /\ Grown
  BY <1>1 DEF IInv, ReviewOK, Backed, CallOK, HistoryOK, Grown, reviews, history
<1>3. now' \in Nat /\ disturbances' \in Nat
  BY <1>1 DEF IInv, StoreOK
<1> QED BY <1>1, <1>2, <1>3, ApiKeeps

\* The handler ends, whatever it was doing.
LEMMA StopStep ==
  ASSUME IInv, Fail \/ Crash
  PROVE  IInv'
<1>1. /\ UNCHANGED <<now, stored, active, review, call, history>> /\ work' = NoWork
      /\ disturbances' = disturbances + 1 /\ (feed' = feed \/ feed' = <<>>)
  BY DEF Fail, Crash, Disturb, reviews
<1>2. disturbances' \in Nat
  BY <1>1 DEF IInv, StoreOK
<1>3. feed \in Seq(EventType(DOMAIN review)) /\ <<>> \in Seq(EventType(DOMAIN review))
  BY DEF IInv, ReviewOK
<1>4. feed' \in Seq(EventType(DOMAIN review))
  BY <1>1, <1>3
<1> QED BY <1>1, <1>2, <1>4, Rests

\* Nothing happens.
LEMMA StutterStep ==
  ASSUME IInv, UNCHANGED vars
  PROVE  IInv'
<1>1. UNCHANGED <<now, stored, active, reviews, call, work, disturbances, history>>
  BY DEF vars
<1>2. ReviewOK' /\ CallOK' /\ HistoryOK' /\ Grown
  BY <1>1 DEF IInv, ReviewOK, Backed, CallOK, HistoryOK, Grown, reviews, history
<1>3. now' \in Nat /\ disturbances' \in Nat
  BY <1>1 DEF IInv, StoreOK
<1> QED BY <1>1, <1>2, <1>3, ApiKeeps
-----------------------------------------------------------------------------
(* The invariant.                                                          *)

\* The Request that the requests controller hands over waits at its first
\* Step.
LEMMA InitiallyIInv == Init => IInv
<1> SUFFICES ASSUME Init PROVE IInv
  OBVIOUS
<1>1. PICK rule \in Rules : request = InitializeRequest(NewRequest(Nil, Nil), rule, 1)
  BY DEF Init
<1>2. rule # NoRule /\ rule.effect = "REVIEW" /\ rule.max \in Nat /\ Len(rule.steps) \in Nat \ {0}
  BY RuleSteps
<1> DEFINE first == NewRequest(Nil, Nil)
<1>3. request = [Begun(first, rule, 1) EXCEPT !.stepAt = 1]
  BY <1>1, <1>2 DEF InitializeRequest
<1>4. AccessDuration(Nil, rule) \in Nat
  BY <1>2, DefaultMaxAccessAssumption DEF AccessDuration, Nil
<1>5. Begun(first, rule, 1) =
        [status |-> "PENDING", rule |-> rule, duration |-> Nil, deadline |-> Nil,
         effective |-> AccessDuration(Nil, rule), step |-> 0, stepAt |-> Nil,
         startAt |-> 1, endAt |-> Nil, accessEndsAt |-> Nil, triggerRef |-> Nil]
  <2>1. /\ first = [status |-> "PENDING", rule |-> NoRule, duration |-> Nil, deadline |-> Nil,
                    effective |-> Nil, step |-> 0, stepAt |-> Nil, startAt |-> Nil,
                    endAt |-> Nil, accessEndsAt |-> Nil, triggerRef |-> Nil]
        /\ first.duration = Nil /\ first.startAt = Nil
    BY DEF NewRequest
  <2> HIDE DEF first
  <2>2. Begun(first, rule, 1) =
          [first EXCEPT !.rule = rule, !.effective = AccessDuration(Nil, rule), !.startAt = 1]
    BY <2>1 DEF Begun
  <2> QED BY <2>1, <2>2
<1>6. request \in RequestType /\ request.rule = rule /\ request.step = 0
  BY <1>3, <1>4, <1>5 DEF RequestType, Status, Nil
<1>7. StoreOK
  BY <1>2, <1>6 DEF Init, StoreOK, RequestOK
<1>8. ReviewOK /\ HistoryOK
  BY DEF Init, ReviewOK, HistoryOK
<1>9. CallOK
  BY NoCallOK DEF Init, CallOK
<1>10. HeldOK /\ WorkOK
  BY NoWorkType DEF Init, HeldOK, WorkOK
<1>11. LastOK
  BY DEF Init, LastOK, LastStepsConsistent
<1> QED BY <1>7, <1>8, <1>9, <1>10, <1>11 DEF IInv

\* Every step keeps the invariant.
LEMMA IInvKept == IInv /\ [Next]_vars => IInv'
<1> SUFFICES ASSUME IInv, [Next]_vars PROVE IInv'
  OBVIOUS
<1>1. CASE \E c \in Caller : Api(c)
  <2>1. PICK c \in Caller : Api(c)
    BY <1>1
  <2>2. CASE \E u \in User : ReadReview(c, u)
    BY <2>2, ReadReviewStep
  <2>3. CASE \E decision \in Decision : AddReview(c, decision)
    BY <2>3, AddReviewStep
  <2>4. CASE \E decision \in Decision : ChangeReview(c, decision)
    BY <2>4, ChangeReviewStep
  <2>5. CASE KeepReview(c)
    BY <2>5, KeepReviewStep
  <2>6. CASE ChangeMetadata(c)
    BY <2>6, ChangeMetadataStep
  <2> QED BY <2>1, <2>2, <2>3, <2>4, <2>5, <2>6 DEF Api
<1>2. CASE Controller
  BY <1>2, TakeEventStep, ReadRequestStep, ListReviewsStep, WriteRequestStep DEF Controller
<1>3. CASE Others
  <2>1. CASE \E i \in DOMAIN review : DeleteReview(i)
    BY <2>1, DeleteReviewStep
  <2>2. CASE EditRequest
    BY <2>2, EditRequestStep
  <2>3. CASE EndRequest("CANCELLED") \/ EndRequest("REVOKED")
    BY <2>3, EndRequestStep
  <2>4. CASE SweepRequest
    BY <2>4, SweepRequestStep
  <2>5. CASE \E u \in User : Toggle(u)
    BY <2>5, ToggleStep
  <2>6. CASE Fail \/ Crash
    BY <2>6, StopStep
  <2>7. CASE Tick
    BY <2>7, TickStep
  <2> QED BY <1>3, <2>1, <2>2, <2>3, <2>4, <2>5, <2>6, <2>7 DEF Others
<1>4. CASE UNCHANGED vars
  BY <1>4, StutterStep
<1> QED BY <1>1, <1>2, <1>3, <1>4 DEF Next

\* Copies are good for what the controller does with them, at any time.
THEOREM Invariance == Spec => []IInv
BY InitiallyIInv, IInvKept, PTL DEF Spec

\* The invariant has the types that TypeOK states.
LEMMA TypesOfIInv == IInv => TypeOK
<1> SUFFICES ASSUME IInv PROVE TypeOK
  OBVIOUS
<1>1. /\ request.status \in Status /\ request.rule \in Rules /\ request.step \in Nat
      /\ request.step < Len(request.rule.steps) /\ Len(request.rule.steps) \in Nat
  BY RuleSteps DEF IInv, StoreOK, RequestOK, RequestType
<1>2. request.step \in 0 .. Len(request.rule.steps) - 1
  BY <1>1
<1>3. /\ lastSteps \in Seq([id : Nat, step : Nat, decision : Decision])
      /\ feed \in Seq([id : DOMAIN review, unset : BOOLEAN, force : BOOLEAN])
  BY DEF IInv, LastOK, Entry, ReviewOK, EventType
<1>4. /\ active \subseteq User /\ lapsed \subseteq User /\ approved \subseteq Nat \X User
      /\ review \in Seq(ReviewType) /\ call \in [Caller -> CallType] /\ work \in WorkType
      /\ now \in Nat /\ version \in Nat /\ disturbances \in Nat
  BY DEF IInv, StoreOK, HistoryOK, ReviewOK, CallOK, HeldOK
<1> QED BY <1>1, <1>2, <1>3, <1>4 DEF TypeOK

\* The variables keep their types, and the review always waits at a Step that
\* its Rule has.
THEOREM ReviewTypeCorrect == Spec => []TypeOK
BY Invariance, TypesOfIInv, PTL

\* A Review is applied once, at its Step and in the order of the Steps, and
\* an applied rejection has rejected the Request.
THEOREM LastStepsCorrect == Spec => []LastStepsConsistent
<1>1. IInv => LastStepsConsistent
  BY DEF IInv, LastOK
<1> QED BY <1>1, Invariance, PTL
-----------------------------------------------------------------------------
(* What a step may do to the Request.                                      *)

\* What a step writes into the Request that the controller, the owner, the
\* administrator or the watcher has in hand.
RequestWritten ==
  \/ request' = request
  \/ WriteRequest /\ request' = Outcome(work.outcome) /\ version = work.rv /\ work.pc = "write"
  \/ /\ request.status = "PENDING"
     /\ \/ request' = Checked(request, now)
        \/ \E status \in {"CANCELLED", "REVOKED"} : request' = SetState(request, status, now)

\* Nothing else writes the Request.
LEMMA WrittenBy == [Next]_vars => RequestWritten
<1> SUFFICES ASSUME [Next]_vars PROVE RequestWritten
  OBVIOUS
<1>1. CASE \E c \in Caller : Api(c)
  BY <1>1 DEF Api, ReadReview, AddReview, ChangeReview, KeepReview, ChangeMetadata, stored, RequestWritten
<1>2. CASE TakeEvent \/ ReadRequest \/ ListReviews
  BY <1>2 DEF TakeEvent, ReadRequest, ListReviews, stored, RequestWritten
<1>3. CASE WriteRequest
  BY <1>3 DEF WriteRequest, stored, RequestWritten
<1>4. CASE \E i \in DOMAIN review : DeleteReview(i)
  BY <1>4 DEF DeleteReview, stored, RequestWritten
<1>5. CASE EditRequest \/ EndRequest("CANCELLED") \/ EndRequest("REVOKED") \/ SweepRequest
  BY <1>5 DEF EditRequest, EndRequest, SweepRequest, RequestWritten
<1>6. CASE (\E u \in User : Toggle(u)) \/ Fail \/ Crash \/ Tick
  BY <1>6 DEF Toggle, Fail, Crash, Tick, stored, RequestWritten
<1>7. CASE UNCHANGED vars
  BY <1>7 DEF vars, stored, RequestWritten
<1> QED BY <1>1, <1>2, <1>3, <1>4, <1>5, <1>6, <1>7 DEF Next, Controller, Others

\* The controller writes into the Request in review only what its Reviews
\* decide.
LEMMA WrittenInReview ==
  ASSUME IInv, work.pc = "write", version = work.rv, request' = Outcome(work.outcome)
  PROVE  /\ request.status = "PENDING" /\ work.outcome \in {"keep", "pass", "reject"}
         /\ work.outcome = "pass" => QuorumOf(request.step)
         /\ work.outcome # "pass" => request'.step = request.step /\ request'.status # "APPROVED"
<1>1. Current /\ RequestOK /\ now \in Nat /\ work.outcome \in {"keep", "pass", "reject"}
  BY DEF IInv, WorkOK, StoreOK, HeldOK, WorkType
<1>2. InReview /\ (work.outcome = "pass" => QuorumOf(request.step))
  BY <1>1 DEF Current
<1> QED BY <1>1, <1>2, OutcomeType DEF InReview

\* A Request is approved, and a Step that has not timed out is passed, only
\* by the quorum of the Step.
THEOREM QuorumCorrect == Spec => PassedByQuorum
<1> DEFINE Decided == \/ request.status = "PENDING" /\ request'.status = "APPROVED"
                      \/ request'.step # request.step /\ ~StepTimedOut
<1>1. ASSUME IInv, [Next]_vars
      PROVE  Decided => QuorumOf(request.step)
  <2>1. RequestOK /\ now \in Nat /\ request \in RequestType
    BY <1>1 DEF IInv, StoreOK, RequestOK
  <2>2. CASE request' = request
    BY <2>2
  <2>3. CASE request' = Outcome(work.outcome) /\ version = work.rv /\ work.pc = "write"
    BY <1>1, <2>3, WrittenInReview
  <2>4. CASE request.status = "PENDING" /\ request' = Checked(request, now)
    BY <2>1, <2>4, CheckedPending
  <2>5. CASE \E status \in {"CANCELLED", "REVOKED"} : request' = SetState(request, status, now)
    <3>1. PICK status \in {"CANCELLED", "REVOKED"} : request' = SetState(request, status, now)
      BY <2>5
    <3>2. status \in Status
      BY DEF Status, Final
    <3>3. request'.status = status /\ request'.step = request.step
      BY <2>1, <3>1, <3>2, SetStateType
    <3> QED BY <3>3
  <2> QED BY <1>1, <2>2, <2>3, <2>4, <2>5, WrittenBy DEF RequestWritten
<1>2. IInv /\ [Next]_vars => [Decided => QuorumOf(request.step)]_vars
  BY <1>1
<1> HIDE DEF Decided
<1>3. Spec => [][Decided => QuorumOf(request.step)]_vars
  BY <1>2, Invariance, PTL DEF Spec
<1> QED BY <1>3 DEF PassedByQuorum, Decided

\* The detailed review does no more to a Request than what AccessGrant lets
\* its reviewers, its owner and the watcher do.
THEOREM OutcomeCorrect == Spec => OutcomeAsAssumed
<1> DEFINE Assumed ==
      request' # request =>
        /\ request.status = "PENDING" /\ request.rule.effect = "REVIEW"
        /\ request' \in {GotoNextStepOr("APPROVED", request, now), Checked(request, now)} \union
                        {SetState(request, status, now) : status \in {"REJECTED", "CANCELLED", "REVOKED"}}
<1>1. ASSUME IInv, [Next]_vars
      PROVE  Assumed
  <2>1. request.rule.effect = "REVIEW"
    BY <1>1, RuleSteps DEF IInv, StoreOK, RequestOK, RequestType
  <2>2. CASE request' = request
    BY <2>2
  <2>3. CASE request' = Outcome(work.outcome) /\ version = work.rv /\ work.pc = "write"
    <3>1. request.status = "PENDING" /\ work.outcome \in {"keep", "pass", "reject"}
      BY <1>1, <2>3, WrittenInReview
    <3> QED BY <2>1, <2>3, <3>1 DEF Outcome
  <2>4. CASE request.status = "PENDING" /\ request' = Checked(request, now)
    BY <2>1, <2>4
  <2>5. CASE /\ request.status = "PENDING"
             /\ \E status \in {"CANCELLED", "REVOKED"} : request' = SetState(request, status, now)
    BY <2>1, <2>5
  <2> QED BY <1>1, <2>2, <2>3, <2>4, <2>5, WrittenBy DEF RequestWritten
<1>2. IInv /\ [Next]_vars => [Assumed]_vars
  BY <1>1
<1> HIDE DEF Assumed
<1>3. Spec => [][Assumed]_vars
  BY <1>2, Invariance, PTL DEF Spec
<1> QED BY <1>3, PTL DEF OutcomeAsAssumed, Assumed
-----------------------------------------------------------------------------
(* No decision is forgotten while nothing disturbs the review.  The        *)
(* Reviews that are not awaited, because neither an event of theirs nor    *)
(* the controller will still see to them, do not decide the Step, unless   *)
(* the controller is about to write what they decide.  Then the events     *)
(* matter: the first one of a Review comes before it is applied, every     *)
(* later one is forced, and a copy of the controller is what is stored or  *)
(* an event says that it is not.                                           *)

AppliedIds == {lastSteps[i].id : i \in DOMAIN lastSteps}

\* An event of the Review j that the controller will not pass over.
Told(j) ==
  \E k \in DOMAIN feed : feed[k].id = j /\ ~feed[k].unset /\ (feed[k].force \/ j \notin AppliedIds)

Awaited(j) == Told(j) \/ (work.pc \in {"request", "list"} /\ work.rev.id = j)

\* A decision of the current Step that is not awaited.
Counts(j) ==
  /\ review[j].live /\ review[j].step = request.step /\ review[j].decision # "UNSET"
  /\ ~Awaited(j)

Votes(decision) ==
  {u \in User : /\ Eligible(StepAt(request.step), u)
                /\ \E j \in DOMAIN review :
                     Counts(j) /\ review[j].user = u /\ review[j].decision = decision}

\* StepApproved, from the users that approve and may do so.
ApprovedBy(step, users) ==
  CASE step.require = "ANY" -> users # {}
    [] step.require = "ALL" ->
         LET asked == {u \in step.reviewers : Eligible(step, u)}
         IN  asked # {} /\ asked \subseteq users
    [] step.require = "COUNT" -> Cardinality(users) >= step.count

Deciding == work.pc = "write" /\ work.rv = version /\ work.outcome \in {"pass", "reject"}

Settled ==
  request.status = "PENDING" =>
    \/ Deciding
    \/ Votes("REJECT") = {} /\ ~ApprovedBy(StepAt(request.step), Votes("APPROVE"))

\* Nobody is ahead of the review.
StepsReached ==
  /\ \A i \in DOMAIN review : review[i].step <= request.step
  /\ \A c \in Caller : call[c].step <= request.step

FirstEvents ==
  \A k \in DOMAIN feed : ~feed[k].force =>
    /\ feed[k].id \notin AppliedIds
    /\ work.pc # "idle" => work.rev.id # feed[k].id
    /\ \A j \in 1 .. k - 1 : feed[j].id # feed[k].id

Copies ==
  /\ work.pc = "request" => work.force \/ work.rev.id \notin AppliedIds
  /\ work.pc # "idle" => work.rev.user = review[work.rev.id].user
  /\ work.pc \in {"request", "list"} =>
       LET rev == review[work.rev.id]
       IN  rev = work.rev \/ rev.decision = "UNSET" \/ Told(work.rev.id)
  /\ work.pc \in {"list", "write"} /\ version # work.rv /\ request.status = "PENDING" =>
       work.rev.step # request.step

NoMetadata == \A c \in Caller : call[c].pc # "meta"

CalmInv == NoMetadata /\ FirstEvents /\ Copies /\ Settled

DecisionInv == StepsReached /\ (disturbances = 0 => CalmInv)

\* The controller's decision depends on who decides and may do so.
LEMMA ByUsers ==
  ASSUME NEW step \in StepType, NEW revs
  PROVE  /\ StepRejected(step, revs) <=> {u \in Deciders(revs, "REJECT") : Eligible(step, u)} # {}
         /\ StepApproved(step, revs) <=>
              ApprovedBy(step, {u \in Deciders(revs, "APPROVE") : Eligible(step, u)})
<1> DEFINE users == {u \in Deciders(revs, "APPROVE") : Eligible(step, u)}
<1>1. StepRejected(step, revs) <=> {u \in Deciders(revs, "REJECT") : Eligible(step, u)} # {}
  BY DEF StepRejected
<1>2. CASE step.require = "ANY"
  <2>1. users # {} <=> \E u \in Deciders(revs, "APPROVE") : Eligible(step, u)
    OBVIOUS
  <2> HIDE DEF users
  <2>2. StepApproved(step, revs) <=> ApprovedBy(step, users)
    BY <1>2, <2>1 DEF StepApproved, ApprovedBy
  <2> QED BY <1>1, <2>2 DEF users
<1>3. CASE step.require = "ALL"
  <2> DEFINE asked == {u \in step.reviewers : Eligible(step, u)}
  <2>1. asked \subseteq Deciders(revs, "APPROVE") <=> asked \subseteq users
    OBVIOUS
  <2>2. StepApproved(step, revs) <=> asked # {} /\ asked \subseteq Deciders(revs, "APPROVE")
    BY <1>3 DEF StepApproved
  <2>3. ApprovedBy(step, users) <=> asked # {} /\ asked \subseteq users
    BY <1>3 DEF ApprovedBy
  <2> QED BY <1>1, <2>1, <2>2, <2>3
<1>4. CASE step.require = "COUNT"
  <2>1. StepApproved(step, revs) <=> Cardinality(users) >= step.count
    BY <1>4 DEF StepApproved
  <2>2. ApprovedBy(step, users) <=> Cardinality(users) >= step.count
    BY <1>4 DEF ApprovedBy
  <2> QED BY <1>1, <2>1, <2>2
<1> QED BY <1>1, <1>2, <1>3, <1>4 DEF StepType

\* Fewer approvals do not approve what more did not.
LEMMA FewerApprovals ==
  ASSUME NEW step \in StepType, NEW less, NEW more, less \subseteq more, more \subseteq User,
         ApprovedBy(step, less)
  PROVE  ApprovedBy(step, more)
<1>1. CASE step.require = "ANY"
  BY <1>1 DEF ApprovedBy
<1>2. CASE step.require = "ALL"
  BY <1>2 DEF ApprovedBy
<1>3. CASE step.require = "COUNT"
  <2>1. IsFiniteSet(more) /\ IsFiniteSet(less)
    BY FS_Subset, ReviewAssumption
  <2>2. /\ Cardinality(less) <= Cardinality(more)
        /\ Cardinality(less) \in Nat /\ Cardinality(more) \in Nat /\ step.count \in Nat
    BY <2>1, FS_Subset, FS_CardinalityType DEF StepType
  <2>3. Cardinality(less) >= step.count
    BY <1>3 DEF ApprovedBy
  <2>4. Cardinality(more) >= step.count
    BY <2>2, <2>3
  <2> QED BY <1>3, <2>4 DEF ApprovedBy
<1> QED BY <1>1, <1>2, <1>3 DEF StepType

\* A Step asks for an approval at least.
LEMMA NobodyApproves ==
  ASSUME NEW step \in StepType, step.require = "COUNT" => step.count > 0
  PROVE  ~ApprovedBy(step, {})
<1>1. CASE step.require = "COUNT"
  <2>1. Cardinality({}) = 0 /\ step.count \in Nat
    BY FS_EmptySet DEF StepType
  <2>2. ApprovedBy(step, {}) <=> Cardinality({}) >= step.count
    BY <1>1 DEF ApprovedBy
  <2> QED BY <1>1, <2>1, <2>2
<1>2. CASE step.require = "ANY"
  BY <1>2 DEF ApprovedBy
<1>3. CASE step.require = "ALL"
  BY <1>3 DEF ApprovedBy
<1> QED BY <1>1, <1>2, <1>3 DEF StepType

LEMMA NoApproval ==
  ASSUME RequestOK
  PROVE  ~ApprovedBy(StepAt(request.step), {})
<1> DEFINE step == StepAt(request.step)
<1>1. step \in StepType
  BY StepAtType
<1>2. step.require = "COUNT" => step.count > 0
  <2>1. request.rule \in Rules /\ request.step \in Nat
    BY DEF RequestOK, RequestType
  <2>2. ValidReview(request.rule)
    BY <2>1, ReviewAssumption
  <2>3. request.step + 1 \in DOMAIN request.rule.steps
    BY <2>1, RuleSteps DEF RequestOK
  <2> QED BY <2>2, <2>3 DEF ValidReview, StepAt
<1> HIDE DEF step
<1> QED BY <1>1, <1>2, NobodyApproves DEF step

\* No vote that was not there: what was undecided is.
LEMMA SettledOn ==
  ASSUME RequestOK, Settled, UNCHANGED <<request, active>>, Deciding => Deciding',
         \A j \in DOMAIN review' :
           Counts(j)' /\ Eligible(StepAt(request.step), review'[j].user) =>
             /\ j \in DOMAIN review /\ Counts(j)
             /\ review[j].user = review'[j].user /\ review[j].decision = review'[j].decision
  PROVE  Settled'
<1>1. /\ StepAt(request.step)' = StepAt(request.step) /\ StepAt(request.step) \in StepType
      /\ \A u : Eligible(StepAt(request.step), u)' <=> Eligible(StepAt(request.step), u)
  BY StepAtType DEF StepAt, Eligible, SeparationOfDuties
<1>2. ASSUME NEW d, NEW u \in Votes(d)' PROVE u \in Votes(d)
  BY <1>1, <1>2 DEF Votes
<1>3. Votes("REJECT")' \subseteq Votes("REJECT") /\ Votes("APPROVE")' \subseteq Votes("APPROVE")
  BY <1>2
<1>4. Votes("APPROVE") \subseteq User
  BY DEF Votes
<1>5. \A users : ApprovedBy(StepAt(request.step), users)' <=> ApprovedBy(StepAt(request.step), users)
  BY <1>1 DEF ApprovedBy
<1> QED BY <1>1, <1>3, <1>4, <1>5, FewerApprovals DEF Settled

\* Nothing that a decision depends on has changed.
LEMMA CalmSame ==
  ASSUME CalmInv, UNCHANGED <<stored, active, reviews, work>>, NoMetadata'
  PROVE  CalmInv'
<1>1. /\ request' = request /\ version' = version /\ lastSteps' = lastSteps
      /\ active' = active /\ review' = review /\ feed' = feed /\ work' = work
  BY DEF stored, reviews
<1>2. AppliedIds' = AppliedIds /\ (\A j : Told(j)' <=> Told(j)) /\ (\A j : Awaited(j)' <=> Awaited(j))
  BY <1>1 DEF AppliedIds, Told, Awaited
<1>3. FirstEvents' /\ Copies'
  BY <1>1, <1>2 DEF CalmInv, FirstEvents, Copies
<1>4. /\ \A u : Eligible(StepAt(request.step), u)' <=> Eligible(StepAt(request.step), u)
      /\ StepAt(request.step)' = StepAt(request.step) /\ (Deciding' <=> Deciding)
      /\ \A j : Counts(j)' <=> Counts(j)
  BY <1>1, <1>2 DEF Eligible, SeparationOfDuties, StepAt, Deciding, Counts
<1>5. \A d : Votes(d)' = Votes(d)
  BY <1>1, <1>4 DEF Votes
<1>6. \A users : ApprovedBy(StepAt(request.step), users)' <=> ApprovedBy(StepAt(request.step), users)
  BY <1>4 DEF ApprovedBy
<1>7. Settled'
  BY <1>1, <1>4, <1>5, <1>6 DEF CalmInv, Settled
<1> QED BY <1>3, <1>7 DEF CalmInv

\* The Step is a new one, or the wait has ended.
LEMMA SettledAnew ==
  ASSUME RequestOK', request'.status = "PENDING" => \A j \in DOMAIN review' : review'[j].step # request'.step
  PROVE  Settled'
<1> SUFFICES ASSUME request'.status = "PENDING"
             PROVE  (Votes("REJECT") = {} /\ ~ApprovedBy(StepAt(request.step), Votes("APPROVE")))'
  BY DEF Settled
<1>1. Votes("REJECT")' = {} /\ Votes("APPROVE")' = {}
  BY DEF Votes, Counts
<1>2. (RequestOK => ~ApprovedBy(StepAt(request.step), {}))'
  BY NoApproval, PTL
<1> QED BY <1>1, <1>2

\* The review only goes on.
LEMMA StepGrows ==
  ASSUME IInv, [Next]_vars
  PROVE  /\ request.step \in Nat /\ request'.step \in Nat /\ request'.step >= request.step
         /\ IInv'
<1>1. IInv'
  BY IInvKept
<1>2. RequestOK /\ RequestOK' /\ now \in Nat /\ request.step \in Nat /\ request'.step \in Nat
  BY <1>1 DEF IInv, StoreOK, RequestOK, RequestType
<1>3. CASE request' = request
  BY <1>1, <1>2, <1>3
<1>4. CASE request' = Outcome(work.outcome) /\ version = work.rv /\ work.pc = "write"
  <2>1. Current /\ work.outcome \in {"keep", "pass", "reject"}
    BY <1>4 DEF IInv, WorkOK, StoreOK, HeldOK, WorkType
  <2> QED BY <1>1, <1>2, <1>4, <2>1, OutcomeType DEF Current
<1>5. CASE request.status = "PENDING" /\ request' = Checked(request, now)
  BY <1>1, <1>2, <1>5, CheckedPending
<1>6. CASE \E status \in {"CANCELLED", "REVOKED"} : request' = SetState(request, status, now)
  <2>1. PICK status \in {"CANCELLED", "REVOKED"} : request' = SetState(request, status, now)
    BY <1>6
  <2>2. status \in Status /\ request \in RequestType
    BY <1>2 DEF Status, Final, RequestOK
  <2>3. request'.step = request.step
    BY <1>2, <2>1, <2>2, SetStateType
  <2> QED BY <1>1, <1>2, <2>3
<1> QED BY <1>3, <1>4, <1>5, <1>6, WrittenBy DEF RequestWritten

\* A timeout that leaves the Request pending takes it to the next Step.
LEMMA CheckedGoesOn ==
  ASSUME RequestOK, now \in Nat, request.status = "PENDING",
         Checked(request, now) # request, Checked(request, now).status = "PENDING"
  PROVE  Checked(request, now).step = request.step + 1
<1> DEFINE Moved(next) == next # request /\ next.status = "PENDING" => next.step = request.step + 1
<1>1. request \in RequestType /\ request.step < Len(request.rule.steps)
  BY DEF RequestOK
<1>2. "EXPIRED" \in Status /\ "REJECTED" \in Status
  BY DEF Status, Final
<1>3. Moved(request) /\ Moved(SetState(request, "EXPIRED", now)) /\ Moved(SetState(request, "REJECTED", now))
  BY <1>1, <1>2, SetStateType
<1>4. Moved(GotoNextStepOr("EXPIRED", request, now))
  BY <1>1, <1>2, GotoNextType
<1> HIDE DEF Moved
<1>5. Moved(CheckPending(request, now))
  BY <1>3, <1>4 DEF CheckPending
<1>6. Checked(request, now) = CheckPending(request, now)
  BY DEF Checked
<1> QED BY <1>5, <1>6 DEF Moved

\* A Review is for a Step that the review has reached.
LEMMA StepsReachedKept ==
  ASSUME IInv, StepsReached, [Next]_vars
  PROVE  StepsReached'
<1>1. /\ request.step \in Nat /\ request'.step \in Nat /\ request'.step >= request.step /\ IInv'
  BY StepGrows
<1>2. /\ review \in Seq(ReviewType) /\ call \in [Caller -> CallType]
      /\ DOMAIN review = 1 .. Len(review) /\ Len(review) \in Nat
  BY DEF IInv, ReviewOK, CallOK
<1>3. /\ \A i \in DOMAIN review : review[i].step \in Nat
      /\ \A c \in Caller : call[c].step \in Nat
  <2>1. \A i \in DOMAIN review : review[i] \in ReviewType
    BY <1>2
  <2> QED BY <1>2, <2>1 DEF ReviewType, CallType
<1>4. /\ \A i \in DOMAIN review : review[i].step <= request'.step
      /\ \A c \in Caller : call[c].step <= request'.step
  BY <1>1, <1>3 DEF StepsReached
<1>5. CASE UNCHANGED <<review, call>>
  BY <1>4, <1>5 DEF StepsReached
<1>6. NoCall.step = 0 /\ NoCall \in CallType
  BY NoCallOK DEF NoCall
<1>7. ASSUME NEW c \in Caller, Api(c)
      PROVE  StepsReached'
  <2>1. ASSUME NEW u \in User, ReadReview(c, u) PROVE StepsReached'
    <3>1. /\ UNCHANGED review /\ \A d \in Caller \ {c} : call'[d] = call[d]
          /\ call'[c].step = request.step
      BY <1>2, <2>1 DEF ReadReview, reviews
    <3> QED BY <1>1, <1>4, <3>1 DEF StepsReached
  <2>2. ASSUME NEW decision \in Decision, AddReview(c, decision) PROVE StepsReached'
    <3>1. /\ call' = [call EXCEPT ![c] = NoCall]
          /\ \E item : item.step = call[c].step /\ review' = Append(review, item)
      BY <2>2 DEF AddReview, Return
    <3>2. PICK item : item.step = call[c].step /\ review' = Append(review, item)
      BY <3>1
    <3>3. /\ DOMAIN review' = 1 .. Len(review) + 1 /\ review'[Len(review) + 1] = item
          /\ \A j \in 1 .. Len(review) : review'[j] = review[j]
      BY <1>2, <3>2
    <3>4. \A i \in DOMAIN review' : review'[i].step <= request'.step
      BY <1>2, <1>4, <3>2, <3>3
    <3>5. \A d \in Caller : call'[d].step <= request'.step
      BY <1>1, <1>2, <1>4, <1>6, <3>1
    <3> QED BY <3>4, <3>5 DEF StepsReached
  <2>3. ASSUME NEW decision \in Decision, ChangeReview(c, decision) PROVE StepsReached'
    <3> DEFINE seen == call[c].seen
               item == [seen EXCEPT !.decision = decision, !.rv = @ + 1]
    <3>1. seen \in ReviewType /\ call[c] \in CallType
      BY <1>2 DEF CallType
    <3>2. \/ UNCHANGED review
          \/ review[seen.id] = seen /\ review' = [review EXCEPT ![seen.id] = item]
      BY <2>3 DEF ChangeReview, reviews
    <3>3. item.step = seen.step
      BY <3>1 DEF ReviewType
    <3> HIDE DEF item, seen
    <3>4. \A i \in DOMAIN review' : i \in DOMAIN review /\ review'[i].step = review[i].step
      BY <1>2, <3>2, <3>3
    <3>5. \/ call' = [call EXCEPT ![c] = NoCall]
          \/ \E rev : call' = [call EXCEPT ![c].pc = "meta", ![c].seen = rev]
      BY <2>3 DEF ChangeReview, Return, GoOn
    <3>6. \A d \in Caller : call'[d].step = call[d].step \/ call'[d].step = 0
      BY <1>2, <1>6, <3>1, <3>5 DEF CallType
    <3> QED BY <1>1, <1>4, <3>4, <3>6 DEF StepsReached
  <2>4. ASSUME KeepReview(c) PROVE StepsReached'
    <3>1. \/ call' = [call EXCEPT ![c] = NoCall]
          \/ \E rev : call' = [call EXCEPT ![c].pc = "meta", ![c].seen = rev]
      BY <2>4 DEF KeepReview, Return, GoOn
    <3>2. \A d \in Caller : call'[d].step = call[d].step \/ call'[d].step = 0
      BY <1>2, <1>6, <3>1 DEF CallType
    <3> QED BY <1>1, <1>4, <2>4, <3>2 DEF StepsReached, KeepReview, reviews
  <2>5. ASSUME ChangeMetadata(c) PROVE StepsReached'
    <3>1. \A i \in DOMAIN review' : i \in DOMAIN review /\ review'[i].step = review[i].step
      <4> DEFINE id == call[c].seen.id
                 item == [review[id] EXCEPT !.rv = @ + 1]
      <4>1. UNCHANGED review \/ review' = [review EXCEPT ![id] = item]
        BY <2>5 DEF ChangeMetadata, reviews
      <4>2. id \in DOMAIN review => item.step = review[id].step
        BY <1>2 DEF ReviewType
      <4> HIDE DEF id, item
      <4> QED BY <1>2, <4>1, <4>2
    <3>2. \A d \in Caller : call'[d].step = call[d].step \/ call'[d].step = 0
      BY <1>2, <1>6, <2>5 DEF ChangeMetadata, Return
    <3> QED BY <1>1, <1>4, <3>1, <3>2 DEF StepsReached
  <2> QED BY <1>7, <2>1, <2>2, <2>3, <2>4, <2>5 DEF Api
<1>8. ASSUME NEW i \in DOMAIN review, DeleteReview(i)
      PROVE  StepsReached'
  <2>1. \A j \in DOMAIN review : review[j] \in ReviewType
    BY <1>2
  <2>2. \A j \in DOMAIN review' : j \in DOMAIN review /\ review'[j].step = review[j].step
    BY <1>2, <1>8, <2>1 DEF DeleteReview, ReviewType
  <2> QED BY <1>4, <1>8, <2>2 DEF StepsReached, DeleteReview
<1>9. CASE Controller
  BY <1>5, <1>9 DEF Controller, TakeEvent, ReadRequest, ListReviews, WriteRequest, reviews
<1>10. CASE \/ EditRequest \/ EndRequest("CANCELLED") \/ EndRequest("REVOKED") \/ SweepRequest
            \/ (\E u \in User : Toggle(u)) \/ Fail \/ Crash \/ Tick \/ UNCHANGED vars
  BY <1>5, <1>10 DEF EditRequest, EndRequest, SweepRequest, Toggle, Fail, Crash, Tick, vars, reviews
<1> QED BY <1>7, <1>8, <1>9, <1>10 DEF Next, Others

-----------------------------------------------------------------------------
(* The steps that nothing disturbs.                                        *)

\* The ids that are told and applied are those of Reviews.
LEMMA KnownIds ==
  ASSUME IInv
  PROVE  /\ feed \in Seq(EventType(DOMAIN review)) /\ AppliedIds \subseteq DOMAIN review
         /\ Len(feed) \in Nat /\ DOMAIN feed = 1 .. Len(feed)
         /\ \A k \in DOMAIN feed : feed[k].id \in DOMAIN review
         /\ work.pc # "idle" => /\ work.rev.id \in DOMAIN review
                                /\ work.rev.step = review[work.rev.id].step
         /\ \A j \in DOMAIN review : review[j].id = j /\ review[j] \in ReviewType
<1>1. /\ feed \in Seq(EventType(DOMAIN review)) /\ review \in Seq(ReviewType)
      /\ \A j \in DOMAIN review : review[j].id = j
  BY DEF IInv, ReviewOK
<1>2. /\ Len(feed) \in Nat /\ DOMAIN feed = 1 .. Len(feed)
      /\ \A k \in DOMAIN feed : feed[k] \in EventType(DOMAIN review)
  BY <1>1, ElementOfSeq
<1>3. \A k \in DOMAIN feed : feed[k].id \in DOMAIN review
  BY <1>2 DEF EventType
<1>4. AppliedIds \subseteq DOMAIN review
  BY DEF AppliedIds, IInv, LastOK
<1>5. \A j \in DOMAIN review : review[j] \in ReviewType
  BY <1>1
<1>6. work.pc # "idle" => /\ work.rev.id \in DOMAIN review
                          /\ work.rev.step = review[work.rev.id].step
  BY DEF IInv, HeldOK
<1> QED BY <1>1, <1>2, <1>3, <1>4, <1>5, <1>6

\* A write of a Review is an event that tells of it.
LEMMA EventAppended ==
  ASSUME IInv, FirstEvents, NEW event, feed' = Append(feed, event), UNCHANGED <<lastSteps, work>>,
         event.force \/ event.id \notin DOMAIN review
  PROVE  /\ FirstEvents' /\ \A j : Told(j) => Told(j)'
         /\ ~event.unset => Told(event.id)'
<1>1. /\ AppliedIds' = AppliedIds
      /\ feed \in Seq(EventType(DOMAIN review)) /\ Len(feed) \in Nat /\ DOMAIN feed = 1 .. Len(feed)
      /\ \A k \in DOMAIN feed : feed[k].id \in DOMAIN review
      /\ AppliedIds \subseteq DOMAIN review
      /\ work.pc # "idle" => work.rev.id \in DOMAIN review
  BY KnownIds DEF AppliedIds
<1> DEFINE new == Append(feed, event)
<1>2. feed' = new
  OBVIOUS
<1>3. /\ DOMAIN new = 1 .. Len(feed) + 1 /\ new[Len(feed) + 1] = event
      /\ \A k \in 1 .. Len(feed) : new[k] = feed[k]
  BY <1>1
<1> HIDE DEF new
<1>4. ASSUME NEW j, Told(j) PROVE Told(j)'
  <2>1. PICK k \in DOMAIN feed : feed[k].id = j /\ ~feed[k].unset /\ (feed[k].force \/ j \notin AppliedIds)
    BY <1>4 DEF Told
  <2>2. k \in DOMAIN new /\ new[k] = feed[k]
    BY <1>1, <1>3, <2>1
  <2> QED BY <1>1, <1>2, <2>1, <2>2 DEF Told
<1>5. ASSUME ~event.unset PROVE Told(event.id)'
  <2>1. Len(feed) + 1 \in DOMAIN new
    BY <1>1, <1>3
  <2> QED BY <1>1, <1>2, <1>3, <1>5, <2>1 DEF Told
<1>6. FirstEvents'
  <2> SUFFICES ASSUME NEW k \in DOMAIN new, ~new[k].force
               PROVE  /\ new[k].id \notin AppliedIds
                      /\ work.pc # "idle" => work.rev.id # new[k].id
                      /\ \A j \in 1 .. k - 1 : new[j].id # new[k].id
    BY <1>1, <1>2 DEF FirstEvents
  <2>1. CASE k \in 1 .. Len(feed)
    <3>1. \A j \in 1 .. k - 1 : j \in 1 .. Len(feed)
      BY <1>1, <2>1
    <3> QED BY <1>1, <1>3, <2>1, <3>1 DEF FirstEvents
  <2>2. CASE k = Len(feed) + 1
    <3>1. \A j \in 1 .. k - 1 : j \in 1 .. Len(feed)
      BY <1>1, <2>2
    <3> QED BY <1>1, <1>3, <2>2, <3>1
  <2> QED BY <1>1, <1>3, <2>1, <2>2
<1> QED BY <1>4, <1>5, <1>6

\* A Review is created or decided: its decision is awaited.
LEMMA WrittenCalm ==
  ASSUME IInv, CalmInv, NoMetadata', UNCHANGED <<stored, active, work>>,
         NEW item, NEW force, item.id \in DOMAIN review', review'[item.id] = item,
         feed' = Append(feed, Event(item, force)),
         DOMAIN review \subseteq DOMAIN review',
         \A j \in DOMAIN review' : j # item.id => j \in DOMAIN review /\ review'[j] = review[j],
         \/ ~force /\ item.id \notin DOMAIN review
         \/ force /\ item.id \in DOMAIN review /\ item.user = review[item.id].user
  PROVE  CalmInv'
<1> DEFINE event == Event(item, force)
<1>1. /\ request' = request /\ version' = version /\ lastSteps' = lastSteps
      /\ active' = active /\ work' = work
  BY DEF stored
<1>2. event.id = item.id /\ event.force = force /\ (event.unset <=> item.decision = "UNSET")
  BY DEF Event
<1> HIDE DEF event
<1>3. /\ FirstEvents' /\ \A j : Told(j) => Told(j)'
      /\ item.decision # "UNSET" => Told(item.id)'
  BY <1>1, <1>2, EventAppended DEF CalmInv, event
<1>4. work.pc # "idle" => work.rev.id \in DOMAIN review
  BY KnownIds
<1>5. Copies'
  <2>1. (AppliedIds)' = AppliedIds
    BY <1>1 DEF AppliedIds
  <2>2. work.pc # "idle" => work.rev.user = review'[work.rev.id].user
    BY <1>4 DEF CalmInv, Copies
  <2>3. ASSUME work.pc \in {"request", "list"}
        PROVE  \/ review'[work.rev.id] = work.rev \/ review'[work.rev.id].decision = "UNSET"
               \/ Told(work.rev.id)'
    <3>1. CASE work.rev.id = item.id
      BY <1>3, <3>1
    <3>2. CASE work.rev.id # item.id
      <4>1. review'[work.rev.id] = review[work.rev.id]
        BY <1>4, <2>3, <3>2
      <4>2. LET rev == review[work.rev.id]
            IN  rev = work.rev \/ rev.decision = "UNSET" \/ Told(work.rev.id)
        BY <2>3 DEF CalmInv, Copies
      <4> QED BY <1>3, <4>1, <4>2
    <3> QED BY <3>1, <3>2
  <2> HIDE DEF event
  <2>4. \A j : (work.rev.id)' = j /\ Told(j)' => Told(work.rev.id)'
    BY <1>1 DEF Told
  <2> QED BY <1>1, <2>1, <2>2, <2>3, <2>4 DEF CalmInv, Copies
<1>6. Settled'
  <2>1. ASSUME NEW j \in DOMAIN review', Counts(j)'
        PROVE  /\ j \in DOMAIN review /\ Counts(j)
               /\ review[j].user = review'[j].user /\ review[j].decision = review'[j].decision
    <3>1. j # item.id
      BY <1>3, <2>1 DEF Counts, Awaited
    <3>2. j \in DOMAIN review /\ review'[j] = review[j]
      BY <3>1
    <3>3. ~Awaited(j)
      BY <1>1, <1>3, <2>1 DEF Counts, Awaited
    <3> QED BY <1>1, <2>1, <3>2, <3>3 DEF Counts
  <2>2. Deciding => Deciding'
    BY <1>1 DEF Deciding
  <2> QED BY <1>1, <2>1, <2>2, SettledOn DEF CalmInv, IInv, StoreOK
<1> QED BY <1>3, <1>5, <1>6 DEF CalmInv

\* The calls of the reviewer API.
LEMMA ApiCalm ==
  ASSUME IInv, CalmInv, disturbances' = disturbances, NEW c \in Caller, Api(c)
  PROVE  CalmInv'
<1>1. /\ review \in Seq(ReviewType) /\ call \in [Caller -> CallType] /\ call[c].pc # "meta"
      /\ DOMAIN review = 1 .. Len(review) /\ Len(review) \in Nat /\ NoCall.pc = "idle"
      /\ disturbances \in Nat
  BY NoCallOK DEF IInv, ReviewOK, CallOK, CalmInv, NoMetadata, StoreOK
<1>2. \A kind : ~Disturb(kind)
  BY <1>1 DEF Disturb
<1>3. ASSUME NEW one, one.pc # "meta", call' = [call EXCEPT ![c] = one]
      PROVE  NoMetadata'
  BY <1>1, <1>3 DEF CalmInv, NoMetadata
<1>4. ASSUME NEW u \in User, ReadReview(c, u) PROVE CalmInv'
  <2>1. NoMetadata'
    <3>1. \E item : call' = [call EXCEPT ![c] = [pc |-> "write", user |-> u, step |-> request.step, seen |-> item]]
      BY <1>4 DEF ReadReview
    <3>2. PICK item : call' = [call EXCEPT ![c] = [pc |-> "write", user |-> u, step |-> request.step, seen |-> item]]
      BY <3>1
    <3> QED BY <1>3, <3>2
  <2> QED BY <1>4, <2>1, CalmSame DEF ReadReview
<1>5. ASSUME NEW decision \in Decision, AddReview(c, decision) PROVE CalmInv'
  <2> DEFINE item == [id |-> Len(review) + 1, user |-> call[c].user, step |-> call[c].step,
                      decision |-> decision, rv |-> 1, live |-> TRUE]
  <2>1. /\ review' = Append(review, item) /\ feed' = Append(feed, Event(item, FALSE))
        /\ call' = [call EXCEPT ![c] = NoCall] /\ UNCHANGED <<stored, active, work>>
    BY <1>5 DEF AddReview, Return
  <2>2. item.id = Len(review) + 1
    OBVIOUS
  <2> HIDE DEF item
  <2>3. /\ DOMAIN review' = 1 .. Len(review) + 1 /\ review'[Len(review) + 1] = item
        /\ \A j \in 1 .. Len(review) : review'[j] = review[j]
    BY <1>1, <2>1
  <2>4. /\ item.id \in DOMAIN review' /\ review'[item.id] = item
        /\ DOMAIN review \subseteq DOMAIN review' /\ item.id \notin DOMAIN review
        /\ \A j \in DOMAIN review' : j # item.id => j \in DOMAIN review /\ review'[j] = review[j]
    BY <1>1, <2>2, <2>3
  <2>5. NoMetadata'
    BY <1>1, <1>3, <2>1
  <2> QED BY <2>1, <2>4, <2>5, WrittenCalm
<1>6. ASSUME NEW decision \in Decision, ChangeReview(c, decision) PROVE CalmInv'
  <2> DEFINE seen == call[c].seen
             item == [seen EXCEPT !.decision = decision, !.rv = @ + 1]
  <2>1. call' = [call EXCEPT ![c] = NoCall] /\ UNCHANGED <<stored, active, work>>
    BY <1>2, <1>6 DEF ChangeReview, Return, GoOn
  <2>2. NoMetadata'
    BY <1>1, <1>3, <2>1
  <2>3. seen \in ReviewType /\ seen.id \in DOMAIN review
    BY <1>1, <1>6 DEF CallType, ChangeReview, IInv, CallOK
  <2>4. \/ UNCHANGED reviews
        \/ /\ review[seen.id] = seen /\ review' = [review EXCEPT ![seen.id] = item]
           /\ feed' = Append(feed, Event(item, TRUE))
    BY <1>6 DEF ChangeReview
  <2>5. item.id = seen.id /\ item.user = seen.user
    BY <2>3 DEF ReviewType
  <2> HIDE DEF item, seen
  <2>6. CASE UNCHANGED reviews
    BY <2>1, <2>2, <2>6, CalmSame
  <2>7. CASE /\ review[seen.id] = seen /\ review' = [review EXCEPT ![seen.id] = item]
             /\ feed' = Append(feed, Event(item, TRUE))
    <3>1. /\ DOMAIN review' = DOMAIN review /\ review'[item.id] = item
          /\ \A j \in DOMAIN review' : j # item.id => review'[j] = review[j]
      BY <1>1, <2>3, <2>5, <2>7
    <3> QED BY <2>1, <2>2, <2>3, <2>5, <2>7, <3>1, WrittenCalm
  <2> QED BY <2>4, <2>6, <2>7
<1>7. ASSUME KeepReview(c) PROVE CalmInv'
  <2>1. call' = [call EXCEPT ![c] = NoCall] /\ UNCHANGED <<stored, active, reviews, work>>
    BY <1>2, <1>7 DEF KeepReview, Return, GoOn
  <2>2. NoMetadata'
    BY <1>1, <1>3, <2>1
  <2> QED BY <2>1, <2>2, CalmSame
<1>8. ~ChangeMetadata(c)
  BY <1>1 DEF ChangeMetadata
<1> QED BY <1>4, <1>5, <1>6, <1>7, <1>8 DEF Api

\* The first event is taken: its Review is awaited, or has no decision.
LEMMA TakeEventCalm ==
  ASSUME IInv, CalmInv, TakeEvent
  PROVE  CalmInv'
<1> DEFINE event == Head(feed)
           rest == Tail(feed)
           rev == review[event.id]
           next == [NoWork EXCEPT !.pc = "request", !.force = event.force, !.rev = rev]
<1>1. /\ UNCHANGED <<stored, active, review, call>> /\ work.pc = "idle" /\ feed # <<>> /\ feed' = rest
      /\ \/ work' = NoWork /\ (event.unset \/ ~rev.live \/ rev.decision = "UNSET")
         \/ work' = next
  BY DEF TakeEvent
<1>2. /\ request' = request /\ version' = version /\ lastSteps' = lastSteps /\ active' = active
      /\ AppliedIds' = AppliedIds
  BY <1>1 DEF stored, AppliedIds
<1>3. /\ feed \in Seq(EventType(DOMAIN review)) /\ Len(feed) \in Nat /\ DOMAIN feed = 1 .. Len(feed)
      /\ \A k \in DOMAIN feed : feed[k].id \in DOMAIN review
      /\ \A j \in DOMAIN review : review[j].id = j
  BY KnownIds
<1>4. /\ Len(feed) > 0 /\ event = feed[1] /\ 1 \in DOMAIN feed
      /\ DOMAIN rest = 1 .. Len(feed) - 1
      /\ \A k \in DOMAIN rest : k + 1 \in DOMAIN feed /\ rest[k] = feed[k + 1]
      /\ \A k \in DOMAIN feed : k # 1 => k - 1 \in DOMAIN rest /\ rest[k - 1] = feed[k]
  BY <1>1, <1>3
<1>5. /\ NoWork.pc = "idle" /\ next.pc = "request" /\ next.rev = rev /\ next.force = event.force
      /\ rev.id = event.id /\ event.id \in DOMAIN review
  BY <1>3, <1>4 DEF NoWork
<1> HIDE DEF event, rest, next
<1>6. FirstEvents'
  <2> SUFFICES ASSUME NEW k \in DOMAIN rest, ~rest[k].force
               PROVE  /\ rest[k].id \notin AppliedIds
                      /\ work'.pc # "idle" => work'.rev.id # rest[k].id
                      /\ \A j \in 1 .. k - 1 : rest[j].id # rest[k].id
    BY <1>1, <1>2 DEF FirstEvents
  <2>1. /\ k + 1 \in DOMAIN feed /\ rest[k] = feed[k + 1] /\ k \in Nat /\ k >= 1
        /\ 1 \in 1 .. (k + 1) - 1
    BY <1>3, <1>4
  <2>2. /\ rest[k].id \notin AppliedIds
        /\ \A j \in 1 .. (k + 1) - 1 : feed[j].id # rest[k].id
    BY <2>1 DEF CalmInv, FirstEvents
  <2>3. \A j \in 1 .. k - 1 : j + 1 \in 1 .. (k + 1) - 1 /\ j \in DOMAIN rest
    BY <1>3, <1>4, <2>1
  <2>4. \A j \in 1 .. k - 1 : rest[j].id # rest[k].id
    <3> TAKE j \in 1 .. k - 1
    <3>1. rest[j] = feed[j + 1] /\ j + 1 \in 1 .. (k + 1) - 1
      BY <1>4, <2>3
    <3> QED BY <2>2, <3>1
  <2>5. event.id # rest[k].id
    BY <1>4, <2>1, <2>2
  <2> QED BY <1>1, <1>5, <2>2, <2>4, <2>5
<1>7. Copies'
  <2>1. event.force \/ event.id \notin AppliedIds
    BY <1>4 DEF CalmInv, FirstEvents
  <2>2. CASE work' = next
    BY <1>1, <1>2, <1>5, <2>1, <2>2 DEF Copies
  <2>3. CASE work' = NoWork
    BY <1>5, <2>3 DEF Copies
  <2> QED BY <1>1, <2>2, <2>3
<1>8. Settled'
  <2>1. ASSUME NEW j \in DOMAIN review', Counts(j)' PROVE Counts(j)
    <3> SUFFICES ASSUME Told(j) PROVE Awaited(j)' \/ ~review[j].live \/ review[j].decision = "UNSET"
      BY <1>1, <1>2, <2>1 DEF Counts, Awaited
    <3>1. PICK k \in DOMAIN feed : feed[k].id = j /\ ~feed[k].unset /\ (feed[k].force \/ j \notin AppliedIds)
      BY DEF Told
    <3>2. CASE k = 1
      BY <1>1, <1>4, <1>5, <3>1, <3>2 DEF Awaited
    <3>3. CASE k # 1
      <4>1. k - 1 \in DOMAIN rest /\ rest[k - 1] = feed[k]
        BY <1>4, <3>3
      <4>2. Told(j)'
        BY <1>1, <1>2, <3>1, <4>1 DEF Told
      <4> QED BY <4>2 DEF Awaited
    <3> QED BY <3>2, <3>3
  <2>2. ~Deciding
    BY <1>1 DEF Deciding
  <2> QED BY <1>1, <1>2, <2>1, <2>2, SettledOn DEF CalmInv, IInv, StoreOK
<1>9. NoMetadata'
  BY <1>1 DEF CalmInv, NoMetadata
<1> QED BY <1>6, <1>7, <1>8, <1>9 DEF CalmInv

\* The controller passes over a Review only if it does not count.
LEMMA ReadRequestCalm ==
  ASSUME IInv, CalmInv, ReadRequest
  PROVE  CalmInv'
<1> DEFINE rejects == [work EXCEPT !.pc = "write", !.rv = version, !.outcome = "reject"]
           lists == [work EXCEPT !.pc = "list", !.rv = version]
           i == work.rev.id
           due == /\ InReview /\ work.rev.step = request.step
                  /\ Eligible(StepAt(work.rev.step), work.rev.user)
                  /\ Applied(work.rev) # {} => work.force
<1>1. /\ UNCHANGED <<stored, active, reviews, call>> /\ work.pc = "request"
      /\ work' = IF ~due THEN NoWork ELSE IF work.rev.decision = "REJECT" THEN rejects ELSE lists
  BY DEF ReadRequest
<1>2. /\ request' = request /\ version' = version /\ lastSteps' = lastSteps /\ active' = active
      /\ review' = review /\ feed' = feed /\ AppliedIds' = AppliedIds
      /\ \A j : Told(j)' <=> Told(j)
  BY <1>1 DEF stored, reviews, AppliedIds, Told
<1>3. /\ NoWork.pc = "idle"
      /\ rejects.pc = "write" /\ rejects.rev = work.rev /\ rejects.rv = version /\ rejects.outcome = "reject"
      /\ lists.pc = "list" /\ lists.rev = work.rev /\ lists.rv = version
  BY DEF NoWork, IInv, HeldOK, WorkType
<1>4. work' \in {NoWork, rejects, lists}
  BY <1>1
<1>5. i \in DOMAIN review /\ work.rev.step = review[i].step
  BY <1>1, KnownIds
<1>6. due \/ ~due
  OBVIOUS
<1> HIDE DEF rejects, lists
<1>7. FirstEvents'
  BY <1>1, <1>2, <1>3, <1>4 DEF CalmInv, FirstEvents
<1>8. Copies'
  BY <1>1, <1>2, <1>3, <1>4 DEF CalmInv, Copies
<1>9. Settled'
  <2> SUFFICES ASSUME request.status = "PENDING" PROVE Settled'
    BY <1>2 DEF Settled
  <2>1. CASE work' = rejects
    BY <1>2, <1>3, <2>1 DEF Settled, Deciding
  <2>2. ~Deciding
    BY <1>1 DEF Deciding
  <2>3. CASE work' = lists
    <3>1. \A j : Awaited(j)' <=> Awaited(j)
      BY <1>1, <1>2, <1>3, <2>3 DEF Awaited
    <3>2. \A j : Counts(j)' <=> Counts(j)
      BY <1>2, <3>1 DEF Counts
    <3> QED BY <1>2, <2>2, <3>2, SettledOn DEF CalmInv, IInv, StoreOK
  <2>4. CASE ~due /\ work' = NoWork
    <3>1. ASSUME NEW j \in DOMAIN review', Counts(j)', Eligible(StepAt(request.step), review'[j].user)
          PROVE  Counts(j)
      <4>1. /\ review[j].live /\ review[j].step = request.step /\ review[j].decision # "UNSET"
            /\ ~Told(j)
        BY <1>2, <3>1 DEF Counts, Awaited
      <4>2. CASE j # i
        BY <4>1, <4>2 DEF Counts, Awaited
      <4>3. CASE j = i
        <5>1. review[i] = work.rev
          BY <1>1, <4>1, <4>3 DEF CalmInv, Copies
        <5>2. work.rev.step = request.step /\ Eligible(StepAt(work.rev.step), work.rev.user)
          BY <1>2, <3>1, <4>1, <4>3, <5>1
        <5>3. InReview
          BY DEF InReview, IInv, StoreOK, RequestOK
        <5>4. Applied(work.rev) # {} => work.force
          BY <1>1 DEF CalmInv, Copies, Applied, AppliedIds
        <5> QED BY <2>4, <5>2, <5>3, <5>4
      <4> QED BY <4>2, <4>3
    <3> HIDE DEF due
    <3> QED BY <1>2, <2>2, <3>1, SettledOn DEF CalmInv, IInv, StoreOK
  <2> HIDE DEF due
  <2> QED BY <1>1, <2>1, <2>3, <2>4
<1>10. NoMetadata'
  BY <1>1 DEF CalmInv, NoMetadata
<1> QED BY <1>7, <1>8, <1>9, <1>10 DEF CalmInv

\* The Reviews are listed: the Step is undecided, unless what decides it is
\* about to be written.
LEMMA ListReviewsCalm ==
  ASSUME IInv, CalmInv, ListReviews
  PROVE  CalmInv'
<1> DEFINE i == work.rev.id
           revs == CurrentStepReviews(work.rev)
           step == StepAt(request.step)
           rejected == StepRejected(step, revs)
           passed == StepApproved(step, revs)
           outcome == IF version # work.rv THEN "keep" ELSE IF rejected THEN "reject"
                      ELSE IF passed THEN "pass" ELSE "keep"
           next == [work EXCEPT !.pc = "write", !.outcome = outcome]
<1>1. UNCHANGED <<stored, active, reviews, call>> /\ work.pc = "list" /\ work' = next
  BY DEF ListReviews
<1>2. /\ request' = request /\ version' = version /\ lastSteps' = lastSteps /\ active' = active
      /\ review' = review /\ feed' = feed /\ AppliedIds' = AppliedIds
      /\ \A j : Told(j)' <=> Told(j)
  BY <1>1 DEF stored, reviews, AppliedIds, Told
<1>3. next.pc = "write" /\ next.rev = work.rev /\ next.rv = work.rv /\ next.outcome = outcome
  BY DEF IInv, HeldOK, WorkType
<1>4. /\ i \in DOMAIN review /\ work.rev.step = review[i].step
      /\ \A j \in DOMAIN review : review[j].id = j
  BY <1>1, KnownIds
<1>5. /\ version # work.rv => outcome = "keep"
      /\ version = work.rv /\ outcome \notin {"reject", "pass"} => ~rejected /\ ~passed
  OBVIOUS
<1>6. \A j \in DOMAIN review : review[j].live /\ review[j].step = request.step /\ j # i => review[j] \in revs
  <2> SUFFICES ASSUME NEW j \in DOMAIN review, review[j].live, review[j].step = request.step, j # i
               PROVE  review[j] \in revs
    OBVIOUS
  <2>1. review[j] = IF review[j].id = work.rev.id THEN work.rev ELSE review[j]
    BY <1>4
  <2> QED BY <2>1 DEF CurrentStepReviews
<1>7. work.rev.step = request.step => work.rev \in revs
  BY DEF CurrentStepReviews
<1>8. RequestOK /\ step \in StepType /\ active \subseteq User
  BY StepAtType DEF IInv, StoreOK, HistoryOK
<1>9. /\ rejected <=> {u \in Deciders(revs, "REJECT") : Eligible(step, u)} # {}
      /\ passed <=> ApprovedBy(step, {u \in Deciders(revs, "APPROVE") : Eligible(step, u)})
  BY <1>8, ByUsers
<1> HIDE DEF revs, rejected, passed, outcome, next
<1>10. FirstEvents'
  BY <1>1, <1>2, <1>3 DEF CalmInv, FirstEvents
<1>11. Copies'
  BY <1>1, <1>2, <1>3 DEF CalmInv, Copies
<1>12. Settled'
  <2> SUFFICES ASSUME request.status = "PENDING" PROVE Settled'
    BY <1>2 DEF Settled
  <2>1. CASE version # work.rv
    <3>1. ASSUME NEW j \in DOMAIN review', Counts(j)' PROVE Counts(j)
      <4>1. j # i
        BY <1>1, <1>2, <1>4, <2>1, <3>1 DEF CalmInv, Copies, Counts
      <4> QED BY <1>2, <3>1, <4>1 DEF Counts, Awaited
    <3>2. ~Deciding
      BY <1>1 DEF Deciding
    <3> QED BY <1>2, <3>1, <3>2, SettledOn DEF CalmInv, IInv, StoreOK
  <2>2. CASE version = work.rv /\ outcome \in {"reject", "pass"}
    BY <1>1, <1>2, <1>3, <2>2 DEF Settled, Deciding
  <2>3. CASE version = work.rv /\ outcome \notin {"reject", "pass"}
    <3>1. /\ step' = step
          /\ \A u : Eligible(step, u)' <=> Eligible(step, u)
          /\ \A users : ApprovedBy(step, users)' <=> ApprovedBy(step, users)
      BY <1>2 DEF StepAt, Eligible, SeparationOfDuties, ApprovedBy
    <3>2. ASSUME NEW d, NEW u \in Votes(d)' PROVE u \in {v \in Deciders(revs, d) : Eligible(step, v)}
      <4>1. Eligible(step, u) /\ \E j \in DOMAIN review : Counts(j)' /\ review[j].user = u /\ review[j].decision = d
        BY <1>2, <3>1, <3>2 DEF Votes
      <4>2. PICK j \in DOMAIN review : Counts(j)' /\ review[j].user = u /\ review[j].decision = d
        BY <4>1
      <4>3. /\ review[j].live /\ review[j].step = request.step /\ review[j].decision # "UNSET" /\ ~Told(j)
        BY <1>2, <4>2 DEF Counts, Awaited
      <4>4. review[j] \in revs
        <5>1. CASE j # i
          BY <1>6, <4>3, <5>1
        <5>2. CASE j = i
          <6>1. review[i] = work.rev
            BY <1>1, <4>3, <5>2 DEF CalmInv, Copies
          <6> QED BY <1>7, <4>3, <5>2, <6>1
        <5> QED BY <5>1, <5>2
      <4> QED BY <4>1, <4>2, <4>4 DEF Deciders
    <3> DEFINE voters(d) == {v \in Deciders(revs, d) : Eligible(step, v)}
    <3>3. Votes("REJECT")' \subseteq voters("REJECT") /\ Votes("APPROVE")' \subseteq voters("APPROVE")
      BY <3>2
    <3>4. voters("APPROVE") \subseteq User
      BY <1>8 DEF Eligible
    <3>5. voters("REJECT") = {} /\ ~ApprovedBy(step, voters("APPROVE"))
      BY <1>5, <1>9, <2>3
    <3> HIDE DEF voters, step
    <3>6. ~ApprovedBy(step, Votes("APPROVE")')
      BY <1>8, <3>3, <3>4, <3>5, FewerApprovals
    <3>7. Votes("REJECT")' = {} /\ ~ApprovedBy(step, Votes("APPROVE"))'
      BY <3>1, <3>3, <3>5, <3>6
    <3> QED BY <3>7 DEF Settled, step
  <2> QED BY <2>1, <2>2, <2>3
<1>13. NoMetadata'
  BY <1>1 DEF CalmInv, NoMetadata
<1> QED BY <1>10, <1>11, <1>12, <1>13 DEF CalmInv

\* The write is what the Reviews that count decide, or decides nothing.
LEMMA WriteRequestCalm ==
  ASSUME IInv, IInv', StepsReached, CalmInv, WriteRequest
  PROVE  CalmInv'
<1>1. /\ UNCHANGED <<active, reviews, call>> /\ work.pc = "write" /\ work' = NoWork
      /\ \/ /\ version = work.rv /\ request' = Outcome(work.outcome) /\ lastSteps' = Noted(work.rev)
         \/ /\ UNCHANGED stored
            /\ version # work.rv \/ Outcome(work.outcome) = request
  BY DEF WriteRequest
<1>2. /\ active' = active /\ review' = review /\ feed' = feed /\ NoWork.pc = "idle" /\ work'.pc = "idle"
  BY <1>1 DEF reviews, NoWork
<1>3. AppliedIds' \subseteq AppliedIds \union {work.rev.id}
  <2>1. CASE lastSteps' = lastSteps
    BY <2>1 DEF AppliedIds
  <2>2. CASE lastSteps' = Noted(work.rev)
    <3> DEFINE entry == [id |-> work.rev.id, step |-> work.rev.step, decision |-> work.rev.decision]
               noted == Append(lastSteps, entry)
    <3>1. lastSteps \in Seq(Entry)
      BY DEF IInv, LastOK
    <3>2. CASE Applied(work.rev) = {}
      <4>1. lastSteps' = noted
        BY <2>2, <3>2 DEF Noted
      <4>2. /\ DOMAIN noted = 1 .. Len(lastSteps) + 1 /\ noted[Len(lastSteps) + 1] = entry
            /\ \A k \in 1 .. Len(lastSteps) : noted[k] = lastSteps[k]
            /\ DOMAIN lastSteps = 1 .. Len(lastSteps) /\ Len(lastSteps) \in Nat
        BY <3>1
      <4>3. entry.id = work.rev.id
        OBVIOUS
      <4> HIDE DEF noted, entry
      <4>4. ASSUME NEW k \in DOMAIN noted PROVE noted[k].id \in AppliedIds \union {work.rev.id}
        BY <4>2, <4>3, <4>4 DEF AppliedIds
      <4> QED BY <4>1, <4>4 DEF AppliedIds
    <3>3. CASE Applied(work.rev) # {}
      <4>1. lastSteps' = [k \in DOMAIN lastSteps |-> IF lastSteps[k].id = work.rev.id THEN entry ELSE lastSteps[k]]
        BY <2>2, <3>3 DEF Noted
      <4>2. entry.id = work.rev.id
        OBVIOUS
      <4> HIDE DEF entry
      <4> QED BY <4>1, <4>2 DEF AppliedIds
    <3> QED BY <3>2, <3>3
  <2> QED BY <1>1, <2>1, <2>2 DEF stored
<1>4. FirstEvents'
  <2> SUFFICES ASSUME NEW k \in DOMAIN feed, ~feed[k].force
               PROVE  /\ feed[k].id \notin AppliedIds'
                      /\ \A j \in 1 .. k - 1 : feed[j].id # feed[k].id
    BY <1>2 DEF FirstEvents
  <2> QED BY <1>1, <1>3 DEF CalmInv, FirstEvents
<1>5. \A j : Told(j) => Told(j)'
  BY <1>2, <1>4 DEF FirstEvents, Told
<1>6. \A j \in DOMAIN review : Counts(j)' /\ request' = request => Counts(j)
  BY <1>1, <1>2, <1>5 DEF Counts, Awaited
<1>7. Copies'
  BY <1>2 DEF Copies
<1>8. Settled'
  <2> SUFFICES ASSUME request'.status = "PENDING" PROVE Settled'
    BY DEF Settled
  <2>1. /\ RequestOK /\ RequestOK' /\ request \in RequestType /\ now \in Nat
        /\ request.step \in Nat /\ request.step < Len(request.rule.steps)
        /\ \A j \in DOMAIN review : review[j].step <= request.step /\ review[j].step \in Nat
    <3>1. \A j \in DOMAIN review : review[j] \in ReviewType
      BY KnownIds
    <3> QED BY <3>1 DEF IInv, StoreOK, RequestOK, RequestType, StepsReached, ReviewType
  <2>2. work.outcome \in {"keep", "pass", "reject"}
    BY DEF IInv, HeldOK, WorkType
  <2>3. version = work.rv => request.status = "PENDING"
    BY <1>1 DEF IInv, WorkOK, Current, InReview, StoreOK
  <2>4. "REJECTED" \in Status /\ "APPROVED" \in Status
    BY DEF Status, Final
  <2>5. work.outcome = "reject" => Outcome(work.outcome).status = "REJECTED"
    BY <2>1, <2>4, SetStateType DEF Outcome
  <2>6. work.outcome = "pass" =>
          \/ Outcome(work.outcome).status = "APPROVED"
          \/ Outcome(work.outcome).step = request.step + 1
    BY <2>1, <2>4, GotoNextType DEF Outcome
  <2>7. work.outcome = "keep" => Outcome(work.outcome) = request
    BY DEF Outcome
  <2>8. CASE request' = request /\ ~Deciding
    BY <1>2, <1>6, <2>1, <2>8, SettledOn DEF CalmInv
  <2>9. CASE Deciding
    <3>1. request' = Outcome(work.outcome)
      BY <1>1, <2>9 DEF Deciding, stored
    <3>2. work.outcome = "pass" /\ request'.step = request.step + 1
      BY <2>5, <2>6, <2>9, <3>1 DEF Deciding
    <3>3. \A j \in DOMAIN review' : review'[j].step # request'.step
      BY <1>2, <2>1, <3>2
    <3> QED BY <2>1, <3>3, SettledAnew
  <2>10. request' = request \/ Deciding
    BY <1>1, <2>2, <2>7 DEF Deciding, stored
  <2> QED BY <2>8, <2>9, <2>10
<1>9. NoMetadata'
  BY <1>1 DEF CalmInv, NoMetadata
<1> QED BY <1>4, <1>7, <1>8, <1>9 DEF CalmInv

\* The next Step has no Reviews yet.
LEMMA SweepCalm ==
  ASSUME IInv, IInv', StepsReached, CalmInv, SweepRequest
  PROVE  CalmInv'
<1>1. /\ UNCHANGED <<lastSteps, active, reviews, call, work>> /\ version' = version + 1
      /\ request.status = "PENDING" /\ request' = Checked(request, now) /\ request' # request
  BY DEF SweepRequest
<1>2. /\ active' = active /\ review' = review /\ feed' = feed /\ work' = work /\ AppliedIds' = AppliedIds
      /\ \A j : Told(j)' <=> Told(j)
  BY <1>1 DEF reviews, AppliedIds, Told
<1>3. /\ RequestOK /\ RequestOK' /\ now \in Nat /\ request.step \in Nat
      /\ \A j \in DOMAIN review : review[j].step <= request.step /\ review[j].step \in Nat
  <2>1. \A j \in DOMAIN review : review[j] \in ReviewType
    BY KnownIds
  <2> QED BY <2>1 DEF IInv, StoreOK, RequestOK, RequestType, StepsReached, ReviewType
<1>4. request'.status = "PENDING" => request'.step = request.step + 1
  BY <1>1, <1>3, CheckedGoesOn
<1>5. request'.status = "PENDING" => \A j \in DOMAIN review : review[j].step # request'.step
  BY <1>3, <1>4
<1>6. Settled'
  BY <1>2, <1>3, <1>5, SettledAnew
<1>7. FirstEvents'
  BY <1>2 DEF CalmInv, FirstEvents
<1>8. Copies'
  <2>1. work.pc # "idle" => work.rev.id \in DOMAIN review /\ work.rev.step = review[work.rev.id].step
    BY KnownIds
  <2> QED BY <1>2, <1>5, <2>1 DEF CalmInv, Copies
<1>9. NoMetadata'
  BY <1>1 DEF CalmInv, NoMetadata
<1> QED BY <1>6, <1>7, <1>8, <1>9 DEF CalmInv

LEMMA DecisionInvInit == Init => DecisionInv
<1> SUFFICES ASSUME Init PROVE DecisionInv
  OBVIOUS
<1>1. IInv
  BY InitiallyIInv
<1>2. /\ review = <<>> /\ feed = <<>> /\ call = [c \in Caller |-> NoCall] /\ work = NoWork
  BY DEF Init
<1>3. /\ NoCall.pc = "idle" /\ NoCall.step = 0 /\ NoWork.pc = "idle"
      /\ RequestOK /\ request.step \in Nat
  BY <1>1 DEF NoCall, NoWork, IInv, StoreOK, RequestOK, RequestType
<1>4. StepsReached
  BY <1>2, <1>3 DEF StepsReached
<1>5. NoMetadata /\ FirstEvents /\ Copies
  BY <1>2, <1>3 DEF NoMetadata, FirstEvents, Copies
<1>6. Votes("REJECT") = {} /\ Votes("APPROVE") = {}
  BY <1>2 DEF Votes
<1>7. Settled
  BY <1>3, <1>6, NoApproval DEF Settled
<1> QED BY <1>4, <1>5, <1>7 DEF DecisionInv, CalmInv

LEMMA DecisionInvKept == IInv /\ DecisionInv /\ [Next]_vars => DecisionInv'
<1> SUFFICES ASSUME IInv, DecisionInv, [Next]_vars PROVE DecisionInv'
  OBVIOUS
<1>1. IInv' /\ StepsReached /\ StepsReached'
  BY IInvKept, StepsReachedKept DEF DecisionInv
<1> SUFFICES ASSUME disturbances' = 0 PROVE CalmInv'
  BY <1>1 DEF DecisionInv
<1>2. disturbances \in Nat
  BY DEF IInv, StoreOK
<1>3. \A kind : ~Disturb(kind)
  BY <1>2 DEF Disturb
<1>4. /\ \A i : ~DeleteReview(i)
      /\ ~EditRequest /\ \A status : ~EndRequest(status)
      /\ (\A u : ~Toggle(u)) /\ ~Fail /\ ~Crash
  BY <1>3 DEF DeleteReview, EditRequest, EndRequest, Toggle, Fail, Crash
<1>5. ASSUME disturbances' = disturbances PROVE CalmInv
  BY <1>5 DEF DecisionInv
<1>6. ASSUME NEW c \in Caller, Api(c) PROVE CalmInv'
  <2>1. disturbances' = disturbances
    BY <1>3, <1>6 DEF Api, ReadReview, AddReview, ChangeReview, KeepReview, ChangeMetadata, GoOn
  <2> QED BY <1>5, <1>6, <2>1, ApiCalm
<1>7. CASE TakeEvent
  BY <1>5, <1>7, TakeEventCalm DEF TakeEvent
<1>8. CASE ReadRequest
  BY <1>5, <1>8, ReadRequestCalm DEF ReadRequest
<1>9. CASE ListReviews
  BY <1>5, <1>9, ListReviewsCalm DEF ListReviews
<1>10. CASE WriteRequest
  BY <1>1, <1>5, <1>10, WriteRequestCalm DEF WriteRequest
<1>11. CASE SweepRequest
  BY <1>1, <1>5, <1>11, SweepCalm DEF SweepRequest
<1>12. CASE Tick \/ UNCHANGED vars
  <2>1. UNCHANGED <<stored, active, reviews, work, call, disturbances>>
    BY <1>12 DEF Tick, vars
  <2>2. CalmInv /\ NoMetadata'
    BY <1>5, <2>1 DEF CalmInv, NoMetadata
  <2> QED BY <2>1, <2>2, CalmSame
<1> QED BY <1>4, <1>6, <1>7, <1>8, <1>9, <1>10, <1>11, <1>12 DEF Next, Controller, Others

\* With every event handled, all the Reviews count.
LEMMA HandledByInv == IInv /\ DecisionInv => DecisionsHandled
<1> SUFFICES ASSUME IInv, CalmInv, feed = <<>>, work.pc = "idle", request.status = "PENDING"
             PROVE  LET revs == {review[i] : i \in {j \in DOMAIN review :
                                   review[j].live /\ review[j].step = request.step}}
                        step == StepAt(request.step)
                    IN  ~StepRejected(step, revs) /\ ~StepApproved(step, revs)
  BY DEF DecisionsHandled, Undecided, DecisionInv
<1> DEFINE revs == {review[i] : i \in {j \in DOMAIN review : review[j].live /\ review[j].step = request.step}}
           step == StepAt(request.step)
           voters(d) == {u \in Deciders(revs, d) : Eligible(step, u)}
<1>1. step \in StepType /\ active \subseteq User
  BY StepAtType DEF IInv, StoreOK, HistoryOK
<1>2. Votes("REJECT") = {} /\ ~ApprovedBy(step, Votes("APPROVE"))
  BY DEF CalmInv, Settled, Deciding
<1>3. \A j : ~Awaited(j)
  BY DEF Awaited, Told
<1>4. ASSUME NEW d \in {"APPROVE", "REJECT"}, NEW u \in voters(d) PROVE u \in Votes(d)
  <2>1. PICK i \in DOMAIN review : /\ review[i].live /\ review[i].step = request.step
                                   /\ review[i].decision = d /\ review[i].user = u
    BY <1>4 DEF Deciders
  <2>2. Counts(i)
    BY <1>3, <2>1 DEF Counts
  <2>3. Eligible(step, u) /\ u \in User
    BY <1>1, <1>4 DEF Eligible
  <2> QED BY <2>1, <2>2, <2>3 DEF Votes
<1>5. voters("REJECT") \subseteq Votes("REJECT") /\ voters("APPROVE") \subseteq Votes("APPROVE")
  BY <1>4
<1>6. Votes("APPROVE") \subseteq User
  BY DEF Votes
<1>7. /\ StepRejected(step, revs) <=> voters("REJECT") # {}
      /\ StepApproved(step, revs) <=> ApprovedBy(step, voters("APPROVE"))
  BY <1>1, ByUsers
<1> HIDE DEF revs, step, voters
<1>8. ~ApprovedBy(step, voters("APPROVE"))
  BY <1>1, <1>2, <1>5, <1>6, FewerApprovals
<1>9. ~StepRejected(step, revs) /\ ~StepApproved(step, revs)
  BY <1>2, <1>5, <1>7, <1>8
<1> QED BY <1>9 DEF revs, step

\* No decision is forgotten as long as nobody edits the Request, no reviewer
\* is locked or unlocked, and nocturne neither fails nor restarts: whatever
\* the reviewers record, change and withdraw while it works on copies.
THEOREM DecisionsCorrect == Spec => []DecisionsHandled
<1>1. IInv /\ DecisionInv /\ [Next]_vars => DecisionInv'
  BY DecisionInvKept
<1>2. Spec => []DecisionInv
  BY <1>1, DecisionInvInit, Invariance, PTL DEF Spec
<1> QED BY <1>2, HandledByInv, Invariance, PTL
=============================================================================
