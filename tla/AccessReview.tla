---------------------------- MODULE AccessReview ----------------------------
(***************************************************************************)
(* How the reviewers decide on one access Request that a review Rule       *)
(* matched: the reviewer API records their Reviews, the reviews controller *)
(* of nocturne applies them to the Request, Step after Step.               *)
(*                                                                         *)
(* Actors: the callers of the reviewer API (a user may have several calls  *)
(* in flight, from the portal and from a chat message), the goroutine of   *)
(* the Review watch, which handles one event at a time, the periodic       *)
(* watcher, and whoever edits, cancels or revokes the Request.             *)
(*                                                                         *)
(* As in AccessGrant an update is a compare-and-swap on the resource       *)
(* version, and a handler is cut where it acts on what it read before: the *)
(* API where it holds the Request and the Review it read, the controller   *)
(* where it holds the Review, the Request and the list of the Reviews.     *)
(* What is read in a row is read at once: by the API the Request, the      *)
(* users and the Reviews, by the controller the users with the object that *)
(* names them.  The clock is read with the write that stores it.           *)
(***************************************************************************)
EXTENDS AccessRequest

CONSTANTS
  User,             \* uids of the users
  Requester,        \* status.userRef of the Request
  Subject,          \* the user it asks the access for
  Rules,            \* the review Rules that may have matched
  Caller,           \* the API calls that may be in flight at once
  MaxTime,          \* bound of the clock
  MaxReviews,       \* bound of the Reviews created
  MaxRevision,      \* bound of the resource version of a Review
  Disturbances,     \* which of the kinds below happen
  MaxDisturbances   \* bound of how often they do

\* A Step of a review Rule: who may review it, how many must approve, the
\* timeout, and whether the requester and the subject may review:
\* allowRequesterReview, allowSubjectReview.
StepType ==
  [reviewers : SUBSET User, require : {"ANY", "ALL", "COUNT"}, count : Nat, timeout : Nat,
   onTimeout : {"UNSET", "GOTO_NEXT_STEP", "REJECT"}, requester : BOOLEAN, subject : BOOLEAN]

ASSUME ReviewAssumption ==
  /\ IsFiniteSet(User) /\ Requester \in User /\ Subject \in User
  /\ \A rule \in Rules :
       /\ rule = [effect |-> "REVIEW", max |-> rule.max, steps |-> rule.steps]
       /\ rule.max \in Nat /\ rule.steps \in Seq(StepType) /\ ValidReview(rule)

VARIABLES
  now,           \* the clock
  request,       \* the Request, without its LastSteps
  version,       \* its resource version
  lastSteps,     \* its LastSteps: the Reviews applied to it
  active,        \* the users neither disabled nor locked
  review,        \* the Reviews, in the order of their creation
  feed,          \* the events of the Review watch not handled yet
  call,          \* c -> what the API call c is doing
  work,          \* what the reviews controller is doing
  disturbances,  \* how many of the Disturbances there were
  approved,      \* history: <<step, user>> ever recorded as an APPROVE
  lapsed         \* history: the users that were ever not active

stored == <<request, version, lastSteps>>
reviews == <<review, feed>>
history == <<approved, lapsed>>
vars == <<now, stored, active, reviews, call, work, disturbances, history>>

Decision == {"UNSET", "APPROVE", "REJECT"}

NoReview == [id |-> 0, user |-> Requester, step |-> 0, decision |-> "UNSET",
             rv |-> 0, live |-> FALSE]

NoCall == [pc |-> "idle", user |-> Requester, step |-> 0, seen |-> NoReview]

NoWork == [pc |-> "idle", force |-> FALSE, rev |-> NoReview, rv |-> 0, outcome |-> "keep"]

\* CurrentStep: the Step a pending Request waits at.
InReview == request.status = "PENDING" /\ request.step < Len(request.rule.steps)

StepAt(i) == request.rule.steps[i + 1]

-----------------------------------------------------------------------------
(* Who may review, and what a Step requires.                               *)

\* IsSeparationOfDutiesSatisfied.
SeparationOfDuties(step, u) ==
  /\ u = Requester => step.requester
  /\ u = Subject => step.subject

\* isEligibleReviewer and CanReview: a known, active user that the Step
\* names (itself or by a group) and that may review this Request.
Eligible(step, u) ==
  /\ u \in active
  /\ SeparationOfDuties(step, u)
  /\ u \in step.reviewers

\* getCurrentStepReviews: the Reviews of the current Step, the one being
\* reconciled as it was read before.
CurrentStepReviews(curr) ==
  {IF review[i].id = curr.id THEN curr ELSE review[i] :
     i \in {j \in DOMAIN review : review[j].live /\ review[j].step = request.step}}
  \union (IF curr.step = request.step THEN {curr} ELSE {})

Deciders(revs, decision) == {rev.user : rev \in {r \in revs : r.decision = decision}}

StepRejected(step, revs) == \E u \in Deciders(revs, "REJECT") : Eligible(step, u)

\* Mutation of StepApproved: COUNT counts the Reviews, not their users.
StepApprovedByReviews(step, revs) ==
  CASE step.require = "ANY" -> \E u \in Deciders(revs, "APPROVE") : Eligible(step, u)
    [] step.require = "ALL" ->
         LET users == {u \in step.reviewers : Eligible(step, u)}
         IN  users # {} /\ users \subseteq Deciders(revs, "APPROVE")
    [] step.require = "COUNT" ->
         Cardinality({r \in revs : r.decision = "APPROVE" /\ Eligible(step, r.user)}) >= step.count

\* isStepApprovedAny, isStepApprovedAll, isStepApprovedCount.
StepApproved(step, revs) ==
  CASE step.require = "ANY" -> \E u \in Deciders(revs, "APPROVE") : Eligible(step, u)
    [] step.require = "ALL" ->
         LET users == {u \in step.reviewers : Eligible(step, u)}
         IN  users # {} /\ users \subseteq Deciders(revs, "APPROVE")
    [] step.require = "COUNT" ->
         Cardinality({u \in Deciders(revs, "APPROVE") : Eligible(step, u)}) >= step.count

Init ==
  /\ now = 1
  /\ \E rule \in Rules : request = InitializeRequest(NewRequest(Nil, Nil), rule, 1)
  /\ version = 1
  /\ lastSteps = <<>>
  /\ active = User
  /\ review = <<>>
  /\ feed = <<>>
  /\ call = [c \in Caller |-> NoCall]
  /\ work = NoWork
  /\ disturbances = 0
  /\ approved = {}
  /\ lapsed = {}

\* What the bound counts, by kind: an edit (EDIT) or the end (END) of the
\* Request, the lock of a user (LOCK), the edit (METADATA) or the deletion
\* (DELETE) of a Review, a failed call (FAILURE), a restart (RESTART).
Disturb(kind) ==
  /\ kind \in Disturbances /\ disturbances < MaxDisturbances
  /\ disturbances' = disturbances + 1

-----------------------------------------------------------------------------
(* The reviewer API.  Each method reads the Request, and the Review it     *)
(* names if any, then runs accesscmd.SetReviewDecision on those copies.    *)

OwnReviews(u, step) ==
  {review[i] : i \in {j \in DOMAIN review : review[j].live /\ review[j].user = u /\ review[j].step = step}}

\* The methods of the API up to their write.  CreateReview needs that the user
\* has no Review at this Step, UpdateReview and CancelReview that it has one
\* (ExpectedStepName); SetReviewDecision takes either.  HasReviewBeenApplied
\* is never true here: a Review is applied at the Step it is found by.
ReadReview(c, u) ==
  LET own == OwnReviews(u, request.step)
  IN  /\ call[c] = NoCall /\ InReview
      /\ Eligible(StepAt(request.step), u)
      /\ \E item \in IF own = {} THEN {NoReview} ELSE own :
           call' = [call EXCEPT ![c] = [pc |-> "write", user |-> u, step |-> request.step, seen |-> item]]
      /\ UNCHANGED <<now, stored, active, reviews, work, disturbances, history>>

Return(c) == call' = [call EXCEPT ![c] = NoCall]

\* UpdateReview goes on with the metadata of the Review when they change too.
GoOn(c, item) ==
  /\ Disturb("METADATA")
  /\ call' = [call EXCEPT ![c].pc = "meta", ![c].seen = item]

Event(item, force) == [id |-> item.id, unset |-> item.decision = "UNSET", force |-> force]

Recorded(item) ==
  approved' = approved \union (IF item.decision = "APPROVE" THEN {<<item.step, item.user>>} ELSE {})

AddReview(c, decision) ==
  LET item == [id |-> Len(review) + 1, user |-> call[c].user, step |-> call[c].step,
               decision |-> decision, rv |-> 1, live |-> TRUE]
  IN  /\ call[c].pc = "write" /\ call[c].seen = NoReview
      /\ Len(review) < MaxReviews
      /\ review' = Append(review, item)
      /\ feed' = Append(feed, Event(item, FALSE))
      /\ Recorded(item)
      /\ Return(c)
      /\ UNCHANGED <<now, stored, active, work, disturbances, lapsed>>

\* Another decision, or another justification for a decision: a
\* compare-and-swap.
ChangeReview(c, decision) ==
  LET seen == call[c].seen
      item == [seen EXCEPT !.decision = decision, !.rv = @ + 1]
  IN  /\ call[c].pc = "write" /\ seen # NoReview
      /\ decision # "UNSET" \/ seen.decision # "UNSET"
      /\ seen.rv < MaxRevision
      /\ IF review[seen.id] = seen
           THEN /\ review' = [review EXCEPT ![seen.id] = item]
                /\ feed' = Append(feed, Event(item, TRUE))
                /\ Recorded(item)
                /\ \/ Return(c) /\ UNCHANGED disturbances
                   \/ GoOn(c, item)
           ELSE /\ Return(c)
                /\ UNCHANGED <<reviews, approved, disturbances>>
      /\ UNCHANGED <<now, stored, active, work, lapsed>>

\* The decision and the justification that the Review has already.
KeepReview(c) ==
  /\ call[c].pc = "write" /\ call[c].seen # NoReview
  /\ \/ Return(c) /\ UNCHANGED disturbances
     \/ GoOn(c, call[c].seen)
  /\ UNCHANGED <<now, stored, active, reviews, work, history>>

\* The metadata, a compare-and-swap.
ChangeMetadata(c) ==
  LET seen == call[c].seen
  IN  /\ call[c].pc = "meta" /\ seen.rv < MaxRevision
      /\ IF review[seen.id] = seen
           THEN /\ review' = [review EXCEPT ![seen.id].rv = @ + 1]
                /\ feed' = Append(feed, Event(seen, FALSE))
           ELSE UNCHANGED reviews
      /\ Return(c)
      /\ UNCHANGED <<now, stored, active, work, disturbances, history>>

\* The administrators' DeleteReview; OnDelete does nothing.
DeleteReview(i) ==
  /\ Disturb("DELETE") /\ review[i].live
  /\ review' = [review EXCEPT ![i].live = FALSE]
  /\ UNCHANGED <<now, stored, active, feed, call, work, history>>

-----------------------------------------------------------------------------
(* The reviews controller.                                                 *)

\* Mutation of TakeEvent: OnUpdate does not see that the decision changed.
TakeEventNotForced ==
  LET event == Head(feed)
      rev == review[event.id]
  IN  /\ work.pc = "idle" /\ feed # <<>>
      /\ feed' = Tail(feed)
      /\ work' = IF event.unset \/ ~rev.live \/ rev.decision = "UNSET" THEN NoWork
                 ELSE [NoWork EXCEPT !.pc = "request", !.rev = rev]
      /\ UNCHANGED <<now, stored, active, review, call, disturbances, history>>

\* OnAdd and OnUpdate, whose event may be old: the Review is read again.
TakeEvent ==
  LET event == Head(feed)
      rev == review[event.id]
  IN  /\ work.pc = "idle" /\ feed # <<>>
      /\ feed' = Tail(feed)
      /\ work' = IF event.unset \/ ~rev.live \/ rev.decision = "UNSET" THEN NoWork
                 ELSE [NoWork EXCEPT !.pc = "request", !.force = event.force, !.rev = rev]
      /\ UNCHANGED <<now, stored, active, review, call, disturbances, history>>

Applied(rev) == {i \in DOMAIN lastSteps : lastSteps[i].id = rev.id}

\* The Request is read: is the Review one to apply to it now?
ReadRequest ==
  LET rev == work.rev
      due == /\ InReview /\ rev.step = request.step
             /\ Eligible(StepAt(rev.step), rev.user)
             /\ Applied(rev) # {} => work.force
  IN  /\ work.pc = "request"
      /\ work' = IF ~due THEN NoWork
                 ELSE IF rev.decision = "REJECT"
                   THEN [work EXCEPT !.pc = "write", !.rv = version, !.outcome = "reject"]
                   ELSE [work EXCEPT !.pc = "list", !.rv = version]
      /\ UNCHANGED <<now, stored, active, reviews, call, disturbances, history>>

\* applyApproval: the Reviews of the Step are listed.  When the Request has
\* changed since, what comes of it cannot be written any more.
ListReviews ==
  LET revs == CurrentStepReviews(work.rev)
      step == StepAt(request.step)
  IN  /\ work.pc = "list"
      /\ work' = [work EXCEPT !.pc = "write",
           !.outcome = IF version # work.rv THEN "keep"
                       ELSE IF StepRejected(step, revs) THEN "reject"
                       ELSE IF StepApproved(step, revs) THEN "pass"
                       ELSE "keep"]
      /\ UNCHANGED <<now, stored, active, reviews, call, disturbances, history>>

\* Mutation of Noted: an applied Review is appended again.
NotedAgain(rev) ==
  Append(lastSteps, [id |-> rev.id, step |-> rev.step, decision |-> rev.decision])

\* LastSteps with rev: appended, or updated in place if it is there already.
Noted(rev) ==
  LET entry == [id |-> rev.id, step |-> rev.step, decision |-> rev.decision]
  IN  IF Applied(rev) = {} THEN Append(lastSteps, entry)
      ELSE [i \in DOMAIN lastSteps |-> IF lastSteps[i].id = rev.id THEN entry ELSE lastSteps[i]]

Outcome(outcome) ==
  CASE outcome = "reject" -> SetState(request, "REJECTED", now)
    [] outcome = "pass" -> GotoNextStepOr("APPROVED", request, now)
    [] OTHER -> request

\* Mutation of WriteRequest: the resource version is not compared.
OverwriteRequest ==
  /\ work.pc = "write"
  /\ request' = Outcome(work.outcome)
  /\ lastSteps' = Noted(work.rev)
  /\ version' = version + 1
  /\ work' = NoWork
  /\ UNCHANGED <<now, active, reviews, call, disturbances, history>>

\* UpdateRequest: a compare-and-swap, whose failure is only logged.  Nothing
\* is written when nothing changed, not even the SetAt of the entry.
WriteRequest ==
  /\ work.pc = "write"
  /\ \/ /\ version = work.rv
        /\ request' = Outcome(work.outcome)
        /\ lastSteps' = Noted(work.rev)
        /\ version' = version + 1
     \/ /\ \/ version # work.rv
           \/ Outcome(work.outcome) = request /\ Noted(work.rev) = lastSteps
        /\ UNCHANGED stored
  /\ work' = NoWork
  /\ UNCHANGED <<now, active, reviews, call, disturbances, history>>

-----------------------------------------------------------------------------
(* The rest of the system.                                                 *)

\* The owner edits the pending Request, to no effect on the review.
EditRequest ==
  /\ Disturb("EDIT") /\ request.status = "PENDING"
  /\ version' = version + 1
  /\ UNCHANGED <<now, request, lastSteps, active, reviews, call, work, history>>

\* CancelRequest, RevokeRequest.
EndRequest(status) ==
  /\ Disturb("END") /\ request.status = "PENDING"
  /\ request' = SetState(request, status, now)
  /\ version' = version + 1
  /\ UNCHANGED <<now, lastSteps, active, reviews, call, work, history>>

\* A user is disabled, locked or taken out of the group, or that is undone.
Toggle(u) ==
  /\ Disturb("LOCK")
  /\ active' = IF u \in active THEN active \ {u} ELSE active \union {u}
  /\ lapsed' = lapsed \union {u}
  /\ UNCHANGED <<now, stored, reviews, call, work, approved>>

\* A call of the controller fails: its handler ends, the error is logged.
Fail ==
  /\ Disturb("FAILURE") /\ work.pc # "idle"
  /\ work' = NoWork
  /\ UNCHANGED <<now, stored, active, reviews, call, history>>

\* nocturne restarts; the watch may not deliver its events again.
Crash ==
  /\ Disturb("RESTART")
  /\ work' = NoWork
  /\ feed' \in {feed, <<>>}
  /\ UNCHANGED <<now, stored, active, review, call, history>>

\* The watcher's doCheckRequest: the Step may time out.
SweepRequest ==
  /\ request.status = "PENDING" /\ Checked(request, now) # request
  /\ request' = Checked(request, now)
  /\ version' = version + 1
  /\ UNCHANGED <<now, lastSteps, active, reviews, call, work, disturbances, history>>

Tick ==
  /\ now < MaxTime
  /\ now' = now + 1
  /\ UNCHANGED <<stored, active, reviews, call, work, disturbances, history>>

-----------------------------------------------------------------------------
Api(c) ==
  \/ \E u \in User : ReadReview(c, u)
  \/ \E decision \in Decision : AddReview(c, decision) \/ ChangeReview(c, decision)
  \/ KeepReview(c) \/ ChangeMetadata(c)

Controller == TakeEvent \/ ReadRequest \/ ListReviews \/ WriteRequest

Others ==
  \/ \E i \in DOMAIN review : DeleteReview(i)
  \/ EditRequest \/ EndRequest("CANCELLED") \/ EndRequest("REVOKED") \/ SweepRequest
  \/ \E u \in User : Toggle(u)
  \/ Fail \/ Crash \/ Tick

Next == (\E c \in Caller : Api(c)) \/ Controller \/ Others

Spec == Init /\ [][Next]_vars

-----------------------------------------------------------------------------
ReviewType ==
  [id : Nat, user : User, step : Nat, decision : Decision, rv : Nat, live : BOOLEAN]

CallType ==
  [pc : {"idle", "write", "meta"}, user : User, step : Nat, seen : ReviewType]

WorkType ==
  [pc : {"idle", "request", "list", "write"}, force : BOOLEAN, rev : ReviewType,
   rv : Nat, outcome : {"keep", "pass", "reject"}]

\* Every variable keeps its type; the review always waits at a Step that the
\* Rule has.
TypeOK ==
  /\ now \in Nat /\ version \in Nat /\ disturbances \in Nat
  /\ request.status \in Status /\ request.rule \in Rules
  /\ request.step \in 0 .. Len(request.rule.steps) - 1
  /\ lastSteps \in Seq([id : Nat, step : Nat, decision : Decision])
  /\ active \subseteq User /\ lapsed \subseteq User
  /\ review \in Seq(ReviewType)
  /\ feed \in Seq([id : DOMAIN review, unset : BOOLEAN, force : BOOLEAN])
  /\ call \in [Caller -> CallType]
  /\ work \in WorkType
  /\ approved \subseteq Nat \X User

\* Those whose APPROVE of the Step was recorded at some time and who may
\* review it.
Approvers(i) ==
  {u \in StepAt(i).reviewers : SeparationOfDuties(StepAt(i), u) /\ <<i, u>> \in approved}

QuorumOf(i) ==
  LET step == StepAt(i)
  IN  CASE step.require = "ANY" -> Approvers(i) # {}
        [] step.require = "COUNT" -> Cardinality(Approvers(i)) >= step.count
        [] step.require = "ALL" ->
             /\ Approvers(i) # {}
             /\ \A u \in step.reviewers :
                  SeparationOfDuties(step, u) => u \in Approvers(i) \union lapsed

StepTimedOut ==
  LET step == StepAt(request.step)
  IN  /\ step.timeout # Nil /\ request.stepAt + step.timeout <= now
      /\ step.onTimeout = "GOTO_NEXT_STEP"

\* A Request is approved, and passes a Step that has not timed out, only on
\* the recorded approvals of as many different users as the Step requires,
\* none of them kept out by the separation of duties, whatever the reviewers
\* withdraw, record twice or change while the controller works on copies.
PassedByQuorum ==
  [][\/ request.status = "PENDING" /\ request'.status = "APPROVED"
     \/ request'.step # request.step /\ ~StepTimedOut
     => QuorumOf(request.step)]_vars

\* What AccessGrant assumes of the review: the Request changes only while it
\* is PENDING, by one Step, an approval at the last one, a rejection, or what
\* the owner, the administrator and the watcher do to it.
OutcomeAsAssumed ==
  [][request' # request =>
       /\ request.status = "PENDING" /\ request.rule.effect = "REVIEW"
       /\ request' \in {GotoNextStepOr("APPROVED", request, now), Checked(request, now)} \union
                       {SetState(request, status, now) : status \in {"REJECTED", "CANCELLED", "REVOKED"}}]_vars

\* LastSteps is a faithful account: a Review is applied once, at the Step it
\* was given for, no later than that Step was passed, and a rejection among
\* them has rejected the Request.
LastStepsConsistent ==
  /\ \A i, j \in DOMAIN lastSteps :
       i < j => lastSteps[i].id # lastSteps[j].id /\ lastSteps[i].step <= lastSteps[j].step
  /\ \A i \in DOMAIN lastSteps :
       /\ lastSteps[i].step <= request.step
       /\ lastSteps[i].step = review[lastSteps[i].id].step
       /\ lastSteps[i].decision = "REJECT" => request.status = "REJECTED"

\* Once every Review event is handled, the Step that a pending Request waits
\* at is undecided: nobody who may review it rejects it and its requirement
\* is not satisfied.
Undecided ==
  LET revs == {review[i] : i \in {j \in DOMAIN review : review[j].live /\ review[j].step = request.step}}
      step == StepAt(request.step)
  IN  feed = <<>> /\ work.pc = "idle" /\ request.status = "PENDING" =>
        ~StepRejected(step, revs) /\ ~StepApproved(step, revs)

\* No decision is forgotten as long as nobody edits the Request, no reviewer
\* is locked or unlocked, and nocturne neither fails nor restarts.
DecisionsHandled == disturbances = 0 => Undecided

-----------------------------------------------------------------------------
(* What the API's documentation says and the code does not keep.           *)

\* "Once the Reviews of the current Step satisfy its approval requirement, the
\* Request either moves to the next Step or [...] is approved. A single
\* rejecting Review, on the other hand, immediately rejects the Request": also
\* when the owner edits the Request between the controller's read and its
\* write, whose conflict is not retried.
EveryDecisionApplied == Undecided
=============================================================================
